---------------------------- MODULE ReaperProofs ----------------------------
(***************************************************************************)
(* Proofs about Reaper, for any number of processes, calls of clean_up()   *)
(* and faults.  What close_all_descendants relies on is the shape of the   *)
(* tree: a process that is not yet reaped hangs below a live one, and ids  *)
(* grow along the branches, so that a reaper without children is a reaper  *)
(* without descendants.                                                    *)
(***************************************************************************)
EXTENDS Reaper, SequenceTheorems, WellFoundedInduction, TLAPS

Present == {"alive", "zombie"}

\* The tree: the first born ids are in use, and the parent of a process that is
\* not reaped is the reaper or an older process that still lives.
TreeInv ==
  /\ \A p \in Procs : p > born => st[p] = "unborn" /\ par[p] = 0
  /\ \A p \in Procs : st[p] \in Present /\ par[p] # 0 =>
       par[p] \in Procs /\ par[p] < p /\ st[par[p]] = "alive"

\* Before the reaper has announced the launch, and after it.
Early == {"off", "boot", "connected", "launch", "settle", "announce"}
Past  == {"poll", "handle", "wait", "closing", "reap", "kill", "reapAgain", "finish",
          "exited", "unsent", "killed"}

\* The reaper starts once, and nothing runs before it launches the command.
StageInv ==
  /\ lpc \in {"new", "created"} => rpc = "off"
  /\ rpc \in {"off", "boot", "connected", "launch"} => born = 0
  /\ launched \/ lpc \in {"up", "asking", "polling"} => rpc \in Past

\* What waits in the socket for the launcher: at most one verdict on the launch,
\* which it reads before clean_up(), then FINISHED_CLEANING_UP of a reaper that
\* has exited.
MessageInv ==
  /\ rpc \in Early => toLauncher = <<>>
  /\ \A i \in 1..Len(toLauncher) :
       /\ i > 1 \/ lpc \in {"up", "asking", "polling"} =>
            toLauncher[i] = "FINISHED_CLEANING_UP"
       /\ toLauncher[i] = "FINISHED_LAUNCH" => rpc \in Past
       /\ toLauncher[i] = "FINISHED_CLEANING_UP" => rpc = "exited"
  /\ result = "true" => rpc = "exited"

\* At the end of on_exit nothing is left.
GoneInv == rpc \in {"finish", "exited", "unsent"} => Gone

\* Until it closes down, the reaper has a SIGCHLD for every zombie it has.
ZombieInv ==
  rpc \in {"settle", "announce", "poll"} /\ Zombies # {} => sigchld

Ending == {"finish", "exited", "unsent"}
Up     == {"up", "asking", "polling"}

ReaperInv == TypeOK /\ TreeInv /\ StageInv /\ MessageInv /\ GoneInv /\ ZombieInv

-----------------------------------------------------------------------------
(* Type correctness.                                                        *)

LEMMA ReapedType ==
  ASSUME TypeOK, NEW s \in [Procs -> {"unborn", "alive", "zombie", "gone"}],
         NEW q \in [Procs -> 0..MaxProcs]
  PROVE  Reaped(s, q) \in [Procs -> {"unborn", "alive", "zombie", "gone"}]
BY DEF Reaped

LEMMA TailType ==
  ASSUME NEW S, NEW s \in Seq(S), s # <<>>
  PROVE  Tail(s) \in Seq(S)
BY HeadTailProperties

LEMMA AppendType ==
  ASSUME NEW S, NEW s \in Seq(S), NEW e \in S
  PROVE  Append(s, e) \in Seq(S)
BY AppendProperties

LEMMA TypeStep ==
  ASSUME TypeOK, [Next]_vars
  PROVE  TypeOK'
<1>0. MaxProcs \in Nat /\ MaxCleanUps \in Nat
  BY ConstantsAssumption
<1> USE DEF TypeOK
<1>1. CASE TreeNext
  <2>1. CASE ProcForks
    BY <2>1, <1>0 DEF ProcForks, launcherVars, reaperVars, ipcVars, Procs
  <2>2. CASE \E p \in Procs : ProcDies(p)
    BY <2>2, <1>0 DEF ProcDies, Reaped, Adopt, launcherVars, reaperVars,
       ipcVars, Procs
  <2>3. CASE ProcReaps
    BY <2>3, <1>0 DEF ProcReaps, launcherVars, reaperVars, ipcVars, Procs
  <2>q. QED
    BY <1>1, <2>1, <2>2, <2>3 DEF TreeNext
<1>2. CASE LauncherNext
  <2>1. CASE Create
    BY <2>1, <1>0 DEF Create, LauncherGoes, reaperVars, treeVars, Procs
  <2>2. CASE SpawnReaper
    <3>1. /\ lpc' \in {"spawned", "failed"} /\ rpc' \in {"boot", rpc}
        /\ UNCHANGED <<result, launched, cleanUps, parentDied, ready, kids, signalled, ipcVars, treeVars>>
      BY <2>2, <1>0 DEF SpawnReaper, LauncherGoes
    <3>q. QED
      BY <1>0, <3>1 DEF ipcVars, treeVars, Procs
  <2>15. CASE OpenPidfd
    BY <2>15, <1>0 DEF OpenPidfd, LauncherGoes, reaperVars, ipcVars, treeVars, Procs
  <2>3. CASE SendParentFd
    <3>1. fdSent' \in BOOLEAN
      BY <2>3, Zenon DEF SendParentFd
    <3>q. QED
      BY <2>3, <1>0, <3>1 DEF SendParentFd, LauncherGoes, reaperVars,
         treeVars, Procs
  <2>4. CASE LaunchReturns
    <3>1. toLauncher' \in Seq(ReaperMessageCode)
      BY <2>4, TailType, AppendType DEF LaunchReturns
    <3>2. /\ lpc' \in {"up", "failing"}
        /\ UNCHANGED <<result, cleanUps, reaperVars, file, open, linked, fdSent, toReaper, treeVars>>
      BY <2>4, <1>0 DEF LaunchReturns, LauncherGoes
    <3>3. launched' \in BOOLEAN
      BY <2>4, Zenon DEF LaunchReturns, LaunchSucceeded
    <3>q. QED
      BY <1>0, <3>1, <3>2, <3>3 DEF reaperVars, treeVars, Procs
  <2>5. CASE LaunchHangsUp
    BY <2>5, <1>0 DEF LaunchHangsUp, LauncherGoes, reaperVars, ipcVars,
       treeVars, Procs
  <2>6. CASE CleanUpStarts
    <3>1. toLauncher' \in Seq(ReaperMessageCode)
      BY <2>6, TailType, AppendType DEF CleanUpStarts
    <3>2. /\ lpc' \in {"up", "asking"} /\ result' \in {"true", "false", result}
        /\ cleanUps' \in 0..MaxCleanUps
        /\ UNCHANGED <<launched, reaperVars, file, open, linked, fdSent, toReaper, treeVars>>
      BY <2>6, <1>0 DEF CleanUpStarts, LauncherGoes
    <3>q. QED
      BY <1>0, <3>1, <3>2 DEF reaperVars, treeVars, Procs
  <2>7. CASE CleanUpAsks
    <3>1. toReaper' \in Seq({"CLEAN_UP"})
      BY <2>7, TailType, AppendType DEF CleanUpAsks
    <3>2. /\ lpc' \in {"up", "polling"} /\ result' \in {"false", result}
        /\ UNCHANGED <<launched, cleanUps, reaperVars, file, open, linked, fdSent, toLauncher, treeVars>>
      BY <2>7, <1>0 DEF CleanUpAsks, LauncherGoes
    <3>q. QED
      BY <1>0, <3>1, <3>2 DEF reaperVars, treeVars, Procs
  <2>8. CASE CleanUpReturns
    <3>1. toLauncher' \in Seq(ReaperMessageCode)
      BY <2>8, TailType, AppendType DEF CleanUpReturns
    <3>2. /\ lpc' = "up" /\ result' \in {"true", "false"}
        /\ UNCHANGED <<launched, cleanUps, reaperVars, file, open, linked, fdSent, toReaper, treeVars>>
      BY <2>8, <1>0 DEF CleanUpReturns, LauncherGoes, OnTimeout
    <3>q. QED
      BY <1>0, <3>1, <3>2 DEF reaperVars, treeVars, Procs
  <2>9. CASE StopReaper
    BY <2>9, <1>0 DEF StopReaper, LauncherGoes, ipcVars, treeVars, Procs
  <2>10. CASE ReaperStopped
    BY <2>10, <1>0 DEF ReaperStopped, LauncherGoes, reaperVars, ipcVars,
       treeVars, Procs
  <2>11. CASE CloseIpc
    <3>1. file' \in BOOLEAN
      BY <2>11, Zenon DEF CloseIpc
    <3>2. open' \in BOOLEAN
      BY <2>11, Zenon DEF CloseIpc
    <3>q. QED
      BY <2>11, <1>0, <3>1, <3>2 DEF CloseIpc, LauncherGoes, reaperVars,
         treeVars, Procs
  <2>12. CASE LauncherCrashes
    <3>1. open' \in BOOLEAN
      BY <2>12, Zenon DEF LauncherCrashes
    <3>q. QED
      BY <2>12, <1>0, <3>1 DEF LauncherCrashes, LauncherGoes, reaperVars,
         treeVars, Procs
  <2>13. CASE LauncherDies
    BY <2>13, <1>0 DEF LauncherDies, LauncherGoes, reaperVars, ipcVars,
       treeVars, Procs
  <2>14. CASE KillReaper
    BY <2>14, <1>0 DEF KillReaper, LauncherGoes, ipcVars, treeVars, Procs
  <2>q. QED
    BY <1>2, <2>1, <2>2, <2>3, <2>4, <2>5, <2>6, <2>7, <2>8, <2>9, <2>10,
       <2>11, <2>12, <2>13, <2>14, <2>15
      DEF LauncherNext
<1>3. CASE ReaperNext
  <2>1. CASE Connect
    <3>1. linked' \in BOOLEAN
      BY <2>1, Zenon DEF Connect
    <3>q. QED
      BY <2>1, <1>0, <3>1 DEF Connect, ReaperEnds, launcherVars, Reaped, Procs
  <2>2. CASE ReceiveParentFd
    BY <2>2, <1>0 DEF ReceiveParentFd, ReaperEnds, launcherVars, ipcVars,
       Reaped, Procs
  <2>3. CASE LaunchCommand
    BY <2>3, <1>0 DEF LaunchCommand, launcherVars, ipcVars, Procs
  <2>4. CASE LaunchFails
    <3>1. toLauncher' \in Seq(ReaperMessageCode)
      BY <2>4, AppendType DEF LaunchFails, Tell, ReaperMessageCode
    <3>2. /\ rpc' = "leaving"
        /\ UNCHANGED <<launcherVars, parentDied, ready, kids, signalled, file, open, linked, fdSent,
                       toReaper, treeVars>>
      BY <2>4 DEF LaunchFails
    <3>q. QED
      BY <1>0, <3>1, <3>2 DEF launcherVars, treeVars, Procs
  <2>5. CASE Settles
    <3>1. st' \in [Procs -> {"unborn", "alive", "zombie", "gone"}]
      BY <2>5 DEF Settles
    <3>q. QED
      BY <2>5, <1>0, <3>1 DEF Settles, launcherVars, ipcVars, Procs
  <2>6. CASE SettlesBadly
    <3>1. toLauncher' \in Seq(ReaperMessageCode)
      BY <2>6, AppendType DEF SettlesBadly, Tell, ReaperMessageCode
    <3>2. st' \in [Procs -> {"unborn", "alive", "zombie", "gone"}]
      BY <2>6 DEF SettlesBadly
    <3>3. /\ rpc' = "leaving"
        /\ UNCHANGED <<launcherVars, parentDied, ready, kids, signalled, file, open, linked, fdSent,
                       toReaper, par, born, killed, sigchld>>
      BY <2>6 DEF SettlesBadly
    <3>q. QED
      BY <1>0, <3>1, <3>2, <3>3 DEF launcherVars, Procs
  <2>15. CASE Returns
    BY <2>15, <1>0 DEF Returns, ReaperEnds, launcherVars, ipcVars, Reaped, Procs
  <2>7. CASE Announce
    <3>1. toLauncher' \in Seq(ReaperMessageCode)
      BY <2>7, AppendType DEF Announce, Tell, ReaperMessageCode
    <3>2. st' \in [Procs -> {"unborn", "alive", "zombie", "gone"}]
      BY <2>7 DEF Announce, ReaperEnds, Reaped
    <3>3. /\ rpc' \in {"poll", "aborted"}
        /\ UNCHANGED <<launcherVars, parentDied, ready, kids, signalled, file, open, linked, fdSent,
                       toReaper, par, born, killed, sigchld>>
      BY <2>7 DEF Announce, ReaperEnds
    <3>q. QED
      BY <1>0, <3>1, <3>2, <3>3 DEF launcherVars, Procs
  <2>8. CASE PollReturns
    BY <2>8, <1>0 DEF PollReturns, PollReady, launcherVars, ipcVars, treeVars,
       Procs
  <2>9. CASE HandleParent
    BY <2>9, <1>0 DEF HandleParent, launcherVars, ipcVars, treeVars, Procs
  <2>10. CASE HandleIpc
    <3>1. toReaper' \in Seq({"CLEAN_UP"})
      BY <2>10, TailType, AppendType DEF HandleIpc
    <3>2. rpc' = "closing" /\ UNCHANGED <<launcherVars, treeVars, parentDied, ready, kids, signalled,
        file, open, linked, fdSent, toLauncher>>
      BY <2>10 DEF HandleIpc
    <3>q. QED
      BY <1>0, <3>1, <3>2 DEF launcherVars, treeVars, Procs
  <2>11. CASE HandleSigchld
    <3>1. sigchld' \in BOOLEAN
      BY <2>11, Zenon DEF HandleSigchld
    <3>q. QED
      BY <2>11, <1>0, <3>1 DEF HandleSigchld, launcherVars, ipcVars, Procs
  <2>12. CASE ReapsZombies
    BY <2>12, <1>0 DEF ReapsZombies, WaitAll, launcherVars, ipcVars, Reaped,
       Procs
  <2>13. CASE TakesSignal
    BY <2>13, <1>0 DEF TakesSignal, ReaperEnds, launcherVars, ipcVars, Reaped, Procs
  <2>14. CASE CloseNext
    <3>1. CASE CloseRound
      <4>1. kids' \subseteq Procs /\ rpc' \in {"finish", "reap"}
        BY <3>1 DEF CloseRound, Children
      <4>q. QED
        BY <3>1, <1>0, <4>1 DEF CloseRound, Children, launcherVars, ipcVars,
           treeVars, Procs
    <3>2. CASE CloseReaps
      BY <3>2, <1>0 DEF CloseReaps, WaitAll, launcherVars, ipcVars, Reaped,
         Procs
    <3>3. CASE CloseKills
      <4>1. killed' \subseteq Procs
        BY <3>3 DEF CloseKills, Stubborn
      <4>2. /\ rpc' = "reapAgain"
          /\ UNCHANGED <<launcherVars, parentDied, ready, kids, signalled, ipcVars, st, par, born,
                         sigchld>>
        BY <3>3 DEF CloseKills
      <4>q. QED
        BY <1>0, <4>1, <4>2 DEF launcherVars, ipcVars, Procs
    <3>4. CASE CloseReapsAgain
      BY <3>4, <1>0 DEF CloseReapsAgain, WaitAll, launcherVars, ipcVars,
         Reaped, Procs
    <3>5. CASE Finishes
      <4>1. file' \in BOOLEAN
        BY <3>5, Zenon DEF Finishes
      <4>2. toLauncher' \in Seq(ReaperMessageCode)
        BY <3>5, TailType, AppendType DEF Finishes, Tell, ReaperMessageCode
      <4>q. QED
        BY <3>5, <1>0, <4>1, <4>2 DEF Finishes, Tell, ReaperEnds,
           launcherVars, Reaped, Procs
    <3>q. QED
      BY <2>14, <3>1, <3>2, <3>3, <3>4, <3>5 DEF CloseNext
  <2>q. QED
    BY <1>3, <2>1, <2>2, <2>3, <2>4, <2>5, <2>6, <2>7, <2>8, <2>9, <2>10,
       <2>11, <2>12, <2>13, <2>14, <2>15
      DEF ReaperNext
<1>4. CASE OutsideSignal
  BY <1>4, <1>0 DEF OutsideSignal, launcherVars, ipcVars, treeVars, Procs
<1>6. CASE KillArrives
  BY <1>6, <1>0 DEF KillArrives, ReaperEnds, launcherVars, ipcVars, Reaped, Procs
<1>5. CASE UNCHANGED vars
  BY <1>5, <1>0 DEF vars, launcherVars, reaperVars, ipcVars, treeVars, Procs
<1>q. QED
  BY <1>1, <1>2, <1>3, <1>4, <1>5, <1>6 DEF Next, Stopped

LEMMA TypeInit == Init => TypeOK
<1> SUFFICES ASSUME Init PROVE TypeOK
  OBVIOUS
<1>1. /\ parentDied \in BOOLEAN /\ sigchld \in BOOLEAN
      /\ file \in BOOLEAN /\ open \in BOOLEAN /\ linked \in BOOLEAN /\ fdSent \in BOOLEAN
  BY Zenon DEF Init
<1>2. toReaper \in Seq({"CLEAN_UP"}) /\ toLauncher \in Seq(ReaperMessageCode)
  BY DEF Init
<1>3. /\ st \in [Procs -> {"unborn", "alive", "zombie", "gone"}]
      /\ par \in [Procs -> 0..MaxProcs]
      /\ born \in 0..MaxProcs /\ cleanUps \in 0..MaxCleanUps
      /\ signalled \subseteq {"TERM", "KILL"}
  BY ConstantsAssumption DEF Init
<1>q. QED
  BY <1>1, <1>2, <1>3 DEF Init, TypeOK

\* Every variable stays in its type.
THEOREM TypeCorrect == Spec => []TypeOK
<1>q. QED
  BY TypeInit, TypeStep, PTL DEF Spec

-----------------------------------------------------------------------------
(* What a step may do.                                                      *)

\* The reaper only goes on.
Forward ==
  /\ rpc' \in Early => rpc \in Early
  /\ rpc \in Past => rpc' \in Past
  /\ rpc = "exited" => rpc' = "exited"
  /\ rpc' \in Ending => rpc \in Ending \/ (Children = {} /\ UNCHANGED <<st, par>>)

LEMMA HeadIsFirst ==
  ASSUME NEW S, NEW s \in Seq(S), s # <<>>
  PROVE  Head(s) = s[1] /\ 1 \in 1..Len(s) /\ Len(s) \in Nat
BY HeadTailProperties, LenProperties, EmptySeq

LEMMA StageStep ==
  ASSUME TypeOK, TreeInv, StageInv, MessageInv, [Next]_vars
  PROVE  StageInv' /\ Forward
<1> USE DEF StageInv, Forward, Early, Past, Ending
<1>1. CASE TreeNext
  <2>1. CASE ProcForks
    <3>1. born # 0
      BY <2>1 DEF ProcForks, TreeInv, TypeOK, Procs
    <3>q. QED
      BY <2>1, <3>1 DEF ProcForks, launcherVars, reaperVars, ipcVars,
         ReaperGone
  <2>2. CASE \E p \in Procs : ProcDies(p)
    BY <2>2 DEF ProcDies, ReaperGone, launcherVars, reaperVars, ipcVars
  <2>3. CASE ProcReaps
    BY <2>3 DEF ProcReaps, launcherVars, reaperVars, ipcVars, ReaperGone
  <2>q. QED
    BY <1>1, <2>1, <2>2, <2>3 DEF TreeNext
<1>2. CASE LauncherNext
  <2>1. CASE Create
    BY <2>1 DEF Create, LauncherGoes, reaperVars, treeVars, ReaperGone
  <2>2. CASE SpawnReaper
    BY <2>2 DEF SpawnReaper, LauncherGoes, ipcVars, treeVars, ReaperGone
  <2>15. CASE OpenPidfd
    BY <2>15 DEF OpenPidfd, LauncherGoes, reaperVars, ipcVars, treeVars, ReaperGone
  <2>3. CASE SendParentFd
    BY <2>3 DEF SendParentFd, LauncherGoes, ReaperGone, reaperVars, treeVars
  <2>4. CASE LaunchReturns
    <3>1. LaunchSucceeded(Head(toLauncher)) => rpc \in Past
      <4>1. toLauncher # <<>> /\ Head(toLauncher) = toLauncher[1] /\ 1 \in 1..Len(toLauncher)
        BY <2>4, HeadIsFirst DEF LaunchReturns, TypeOK
      <4>q. QED
        BY <4>1 DEF LaunchSucceeded, MessageInv
    <3>q. QED
      BY <2>4, <3>1 DEF LaunchReturns, LauncherGoes, reaperVars, treeVars,
         ReaperGone
  <2>5. CASE LaunchHangsUp
    BY <2>5 DEF LaunchHangsUp, LauncherGoes, reaperVars, ipcVars, treeVars,
       ReaperGone
  <2>6. CASE CleanUpStarts
    BY <2>6 DEF CleanUpStarts, LauncherGoes, reaperVars, treeVars, ReaperGone
  <2>7. CASE CleanUpAsks
    BY <2>7 DEF CleanUpAsks, LauncherGoes, reaperVars, treeVars, ReaperGone
  <2>8. CASE CleanUpReturns
    BY <2>8 DEF CleanUpReturns, LauncherGoes, TimerFires, OnTimeout,
       reaperVars, treeVars, ReaperGone
  <2>9. CASE StopReaper
    BY <2>9 DEF StopReaper, LauncherGoes, ipcVars, treeVars, ReaperGone
  <2>10. CASE ReaperStopped
    BY <2>10 DEF ReaperStopped, LauncherGoes, ReaperGone, reaperVars, ipcVars,
       treeVars
  <2>11. CASE CloseIpc
    BY <2>11 DEF CloseIpc, LauncherGoes, reaperVars, treeVars, ReaperGone
  <2>12. CASE LauncherCrashes
    BY <2>12 DEF LauncherCrashes, LauncherGoes, reaperVars, treeVars,
       ReaperGone
  <2>13. CASE LauncherDies
    BY <2>13 DEF LauncherDies, LauncherGoes, reaperVars, ipcVars, treeVars,
       ReaperGone
  <2>14. CASE KillReaper
    BY <2>14 DEF KillReaper, LauncherGoes, ReaperGone, ipcVars, treeVars
  <2>q. QED
    BY <1>2, <2>1, <2>2, <2>3, <2>4, <2>5, <2>6, <2>7, <2>8, <2>9, <2>10,
       <2>11, <2>12, <2>13, <2>14, <2>15
      DEF LauncherNext
<1>3. CASE ReaperNext
  <2>1. CASE Connect
    BY <2>1 DEF Connect, ReaperEnds, launcherVars, ReaperGone
  <2>2. CASE ReceiveParentFd
    BY <2>2 DEF ReceiveParentFd, ReaperEnds, launcherVars, ipcVars, ReaperGone
  <2>3. CASE LaunchCommand
    BY <2>3 DEF LaunchCommand, launcherVars, ipcVars, ReaperGone
  <2>4. CASE LaunchFails
    BY <2>4 DEF LaunchFails, ReaperEnds, launcherVars, ReaperGone
  <2>5. CASE Settles
    BY <2>5 DEF Settles, launcherVars, ipcVars, ReaperGone
  <2>6. CASE SettlesBadly
    BY <2>6 DEF SettlesBadly, launcherVars, ReaperGone
  <2>15. CASE Returns
    BY <2>15 DEF Returns, ReaperEnds, launcherVars, ipcVars, ReaperGone
  <2>7. CASE Announce
    BY <2>7 DEF Announce, ReaperEnds, launcherVars, ReaperGone
  <2>8. CASE PollReturns
    BY <2>8 DEF PollReturns, launcherVars, ipcVars, treeVars, ReaperGone
  <2>9. CASE HandleParent
    BY <2>9 DEF HandleParent, launcherVars, ipcVars, treeVars, ReaperGone
  <2>10. CASE HandleIpc
    BY <2>10 DEF HandleIpc, launcherVars, treeVars, ReaperGone
  <2>11. CASE HandleSigchld
    BY <2>11 DEF HandleSigchld, launcherVars, ipcVars, ReaperGone
  <2>12. CASE ReapsZombies
    BY <2>12 DEF ReapsZombies, WaitAll, launcherVars, ipcVars, ReaperGone
  <2>13. CASE TakesSignal
    BY <2>13 DEF TakesSignal, ReaperEnds, launcherVars, ipcVars, ReaperGone
  <2>14. CASE CloseNext
    <3>1. CASE CloseRound
      BY <3>1 DEF CloseRound, launcherVars, ipcVars, treeVars, ReaperGone
    <3>2. CASE CloseReaps
      BY <3>2 DEF CloseReaps, WaitAll, launcherVars, ipcVars, ReaperGone
    <3>3. CASE CloseKills
      BY <3>3 DEF CloseKills, launcherVars, ipcVars, ReaperGone
    <3>4. CASE CloseReapsAgain
      BY <3>4 DEF CloseReapsAgain, WaitAll, launcherVars, ipcVars, ReaperGone
    <3>5. CASE Finishes
      BY <3>5 DEF Finishes, ReaperEnds, launcherVars, ReaperGone
    <3>q. QED
      BY <2>14, <3>1, <3>2, <3>3, <3>4, <3>5 DEF CloseNext
  <2>q. QED
    BY <1>3, <2>1, <2>2, <2>3, <2>4, <2>5, <2>6, <2>7, <2>8, <2>9, <2>10,
       <2>11, <2>12, <2>13, <2>14, <2>15
      DEF ReaperNext
<1>4. CASE OutsideSignal
  BY <1>4 DEF OutsideSignal, ReaperGone, launcherVars, ipcVars, treeVars
<1>6. CASE KillArrives
  BY <1>6 DEF KillArrives, ReaperEnds, ReaperGone, launcherVars, ipcVars
<1>5. CASE UNCHANGED vars
  BY <1>5 DEF vars, launcherVars, reaperVars, ipcVars, treeVars, ReaperGone
<1>q. QED
  BY <1>1, <1>2, <1>3, <1>4, <1>5, <1>6 DEF Next, Stopped

\* The steps that do more to the tree than let wait_all() or init reap.
TreeStep ==
  \/ ProcForks \/ (\E p \in Procs : ProcDies(p)) \/ ProcReaps
  \/ LaunchCommand \/ Settles \/ SettlesBadly

\* What the others leave of the tree, and of the reaper's duty to reap.
SameTree ==
  /\ UNCHANGED <<par, born>>
  /\ st' \in {st, Reaped(st, par)}
  /\ rpc' \in {"settle", "announce", "poll"} =>
       \/ rpc \in {"settle", "announce", "poll"} /\ UNCHANGED sigchld
       \/ rpc = "wait" /\ st' = Reaped(st, par)

LEMMA TreeFrame ==
  ASSUME [Next]_vars
  PROVE  TreeStep \/ SameTree
<1> USE DEF TreeStep, SameTree
<1>1. CASE TreeNext
  <2>1. CASE ProcForks
    BY <2>1 DEF ProcForks, launcherVars, reaperVars, ipcVars, ReaperGone
  <2>2. CASE \E p \in Procs : ProcDies(p)
    BY <2>2 DEF ProcDies, ReaperGone, launcherVars, reaperVars, ipcVars
  <2>3. CASE ProcReaps
    BY <2>3 DEF ProcReaps, launcherVars, reaperVars, ipcVars, ReaperGone
  <2>q. QED
    BY <1>1, <2>1, <2>2, <2>3 DEF TreeNext
<1>2. CASE LauncherNext
  <2>1. CASE Create
    BY <2>1 DEF Create, LauncherGoes, reaperVars, treeVars, ReaperGone
  <2>2. CASE SpawnReaper
    BY <2>2 DEF SpawnReaper, LauncherGoes, ipcVars, treeVars, ReaperGone
  <2>15. CASE OpenPidfd
    BY <2>15 DEF OpenPidfd, LauncherGoes, reaperVars, ipcVars, treeVars, ReaperGone
  <2>3. CASE SendParentFd
    BY <2>3 DEF SendParentFd, LauncherGoes, ReaperGone, reaperVars, treeVars
  <2>4. CASE LaunchReturns
    BY <2>4 DEF LaunchReturns, LauncherGoes, LaunchSucceeded, reaperVars,
       treeVars, ReaperGone
  <2>5. CASE LaunchHangsUp
    BY <2>5 DEF LaunchHangsUp, LauncherGoes, MayHangUp, reaperVars, ipcVars,
       treeVars, ReaperGone
  <2>6. CASE CleanUpStarts
    BY <2>6 DEF CleanUpStarts, LauncherGoes, MayHangUp, MustHangUp,
       reaperVars, treeVars, ReaperGone
  <2>7. CASE CleanUpAsks
    BY <2>7 DEF CleanUpAsks, LauncherGoes, MayHangUp, MustHangUp, reaperVars,
       treeVars, ReaperGone
  <2>8. CASE CleanUpReturns
    BY <2>8 DEF CleanUpReturns, LauncherGoes, MayHangUp, TimerFires,
       OnTimeout, reaperVars, treeVars, ReaperGone
  <2>9. CASE StopReaper
    BY <2>9 DEF StopReaper, LauncherGoes, ipcVars, treeVars, ReaperGone
  <2>10. CASE ReaperStopped
    BY <2>10 DEF ReaperStopped, LauncherGoes, ReaperGone, reaperVars, ipcVars,
       treeVars
  <2>11. CASE CloseIpc
    BY <2>11 DEF CloseIpc, LauncherGoes, reaperVars, treeVars, ReaperGone
  <2>12. CASE LauncherCrashes
    BY <2>12 DEF LauncherCrashes, LauncherGoes, reaperVars, treeVars,
       ReaperGone
  <2>13. CASE LauncherDies
    BY <2>13 DEF LauncherDies, LauncherGoes, reaperVars, ipcVars, treeVars,
       ReaperGone
  <2>14. CASE KillReaper
    BY <2>14 DEF KillReaper, LauncherGoes, ReaperGone, ipcVars, treeVars
  <2>q. QED
    BY <1>2, <2>1, <2>2, <2>3, <2>4, <2>5, <2>6, <2>7, <2>8, <2>9, <2>10,
       <2>11, <2>12, <2>13, <2>14, <2>15
      DEF LauncherNext
<1>3. CASE ReaperNext
  <2>1. CASE Connect
    BY <2>1 DEF Connect, ReaperEnds, launcherVars, ReaperGone
  <2>2. CASE ReceiveParentFd
    BY <2>2 DEF ReceiveParentFd, ReaperEnds, launcherVars, ipcVars, ReaperGone
  <2>3. CASE LaunchCommand
    BY <2>3 DEF LaunchCommand, launcherVars, ipcVars, ReaperGone
  <2>4. CASE LaunchFails
    BY <2>4 DEF LaunchFails, Tell, launcherVars, treeVars, ReaperGone
  <2>5. CASE Settles
    BY <2>5 DEF Settles, launcherVars, ipcVars, ReaperGone
  <2>6. CASE SettlesBadly
    BY <2>6 DEF SettlesBadly, Tell, launcherVars, ReaperGone
  <2>15. CASE Returns
    BY <2>15 DEF Returns, ReaperEnds, launcherVars, ipcVars, ReaperGone
  <2>7. CASE Announce
    BY <2>7 DEF Announce, Tell, ReaperEnds, launcherVars, ReaperGone
  <2>8. CASE PollReturns
    BY <2>8 DEF PollReturns, PollReady, launcherVars, ipcVars, treeVars,
       ReaperGone
  <2>9. CASE HandleParent
    BY <2>9 DEF HandleParent, launcherVars, ipcVars, treeVars, ReaperGone
  <2>10. CASE HandleIpc
    BY <2>10 DEF HandleIpc, launcherVars, treeVars, ReaperGone
  <2>11. CASE HandleSigchld
    BY <2>11 DEF HandleSigchld, launcherVars, ipcVars, ReaperGone
  <2>12. CASE ReapsZombies
    BY <2>12 DEF ReapsZombies, WaitAll, launcherVars, ipcVars, ReaperGone
  <2>13. CASE TakesSignal
    BY <2>13 DEF TakesSignal, ReaperEnds, launcherVars, ipcVars, ReaperGone
  <2>14. CASE CloseNext
    <3>1. CASE CloseRound
      BY <3>1 DEF CloseRound, launcherVars, ipcVars, treeVars, ReaperGone
    <3>2. CASE CloseReaps
      BY <3>2 DEF CloseReaps, WaitAll, launcherVars, ipcVars, ReaperGone
    <3>3. CASE CloseKills
      BY <3>3 DEF CloseKills, Stubborn, launcherVars, ipcVars, ReaperGone
    <3>4. CASE CloseReapsAgain
      BY <3>4 DEF CloseReapsAgain, WaitAll, launcherVars, ipcVars, ReaperGone
    <3>5. CASE Finishes
      BY <3>5 DEF Finishes, Tell, ReaperEnds, launcherVars, ReaperGone
    <3>q. QED
      BY <2>14, <3>1, <3>2, <3>3, <3>4, <3>5 DEF CloseNext
  <2>q. QED
    BY <1>3, <2>1, <2>2, <2>3, <2>4, <2>5, <2>6, <2>7, <2>8, <2>9, <2>10,
       <2>11, <2>12, <2>13, <2>14, <2>15
      DEF ReaperNext
<1>4. CASE OutsideSignal
  BY <1>4 DEF OutsideSignal, ReaperGone, launcherVars, ipcVars, treeVars
<1>6. CASE KillArrives
  BY <1>6 DEF KillArrives, ReaperEnds, ReaperGone, launcherVars, ipcVars
<1>5. CASE UNCHANGED vars
  BY <1>5 DEF vars, launcherVars, reaperVars, ipcVars, treeVars, ReaperGone
<1>q. QED
  BY <1>1, <1>2, <1>3, <1>4, <1>5, <1>6 DEF Next, Stopped

\* The steps that put a message into the socket to the launcher or take one out.
MessageStep ==
  \/ LaunchReturns \/ CleanUpStarts \/ CleanUpReturns
  \/ LaunchFails \/ SettlesBadly \/ Announce \/ Finishes

SameMessages ==
  /\ UNCHANGED toLauncher
  /\ result' = "true" => result = "true"
  /\ lpc' \in Up => lpc \in Up

LEMMA MessageFrame ==
  ASSUME [Next]_vars
  PROVE  MessageStep \/ SameMessages
<1> USE DEF MessageStep, SameMessages, Up
<1>1. CASE TreeNext
  <2>1. CASE ProcForks
    BY <2>1 DEF ProcForks, launcherVars, reaperVars, ipcVars
  <2>2. CASE \E p \in Procs : ProcDies(p)
    BY <2>2 DEF ProcDies, ReaperGone, launcherVars, reaperVars, ipcVars
  <2>3. CASE ProcReaps
    BY <2>3 DEF ProcReaps, launcherVars, reaperVars, ipcVars
  <2>q. QED
    BY <1>1, <2>1, <2>2, <2>3 DEF TreeNext
<1>2. CASE LauncherNext
  <2>1. CASE Create
    BY <2>1 DEF Create, LauncherGoes, reaperVars, treeVars
  <2>2. CASE SpawnReaper
    BY <2>2 DEF SpawnReaper, LauncherGoes, ipcVars, treeVars
  <2>15. CASE OpenPidfd
    BY <2>15 DEF OpenPidfd, LauncherGoes, reaperVars, ipcVars, treeVars, ReaperGone
  <2>3. CASE SendParentFd
    BY <2>3 DEF SendParentFd, LauncherGoes, ReaperGone, reaperVars, treeVars
  <2>4. CASE LaunchReturns
    BY <2>4 DEF LaunchReturns, LauncherGoes, LaunchSucceeded, reaperVars,
       treeVars
  <2>5. CASE LaunchHangsUp
    BY <2>5 DEF LaunchHangsUp, LauncherGoes, MayHangUp, reaperVars, ipcVars,
       treeVars
  <2>6. CASE CleanUpStarts
    BY <2>6 DEF CleanUpStarts, LauncherGoes, MayHangUp, MustHangUp,
       reaperVars, treeVars
  <2>7. CASE CleanUpAsks
    BY <2>7 DEF CleanUpAsks, LauncherGoes, MayHangUp, MustHangUp, reaperVars,
       treeVars
  <2>8. CASE CleanUpReturns
    BY <2>8 DEF CleanUpReturns, LauncherGoes, MayHangUp, TimerFires,
       OnTimeout, reaperVars, treeVars
  <2>9. CASE StopReaper
    BY <2>9 DEF StopReaper, LauncherGoes, ipcVars, treeVars
  <2>10. CASE ReaperStopped
    BY <2>10 DEF ReaperStopped, LauncherGoes, ReaperGone, reaperVars, ipcVars,
       treeVars
  <2>11. CASE CloseIpc
    BY <2>11 DEF CloseIpc, LauncherGoes, reaperVars, treeVars
  <2>12. CASE LauncherCrashes
    BY <2>12 DEF LauncherCrashes, LauncherGoes, reaperVars, treeVars
  <2>13. CASE LauncherDies
    BY <2>13 DEF LauncherDies, LauncherGoes, reaperVars, ipcVars, treeVars
  <2>14. CASE KillReaper
    BY <2>14 DEF KillReaper, LauncherGoes, ipcVars
  <2>q. QED
    BY <1>2, <2>1, <2>2, <2>3, <2>4, <2>5, <2>6, <2>7, <2>8, <2>9, <2>10,
       <2>11, <2>12, <2>13, <2>14, <2>15
      DEF LauncherNext
<1>3. CASE ReaperNext
  <2>1. CASE Connect
    BY <2>1 DEF Connect, launcherVars
  <2>2. CASE ReceiveParentFd
    BY <2>2 DEF ReceiveParentFd, launcherVars, ipcVars
  <2>3. CASE LaunchCommand
    BY <2>3 DEF LaunchCommand, launcherVars, ipcVars
  <2>4. CASE LaunchFails
    BY <2>4 DEF LaunchFails, Tell, launcherVars
  <2>5. CASE Settles
    BY <2>5 DEF Settles, launcherVars, ipcVars
  <2>6. CASE SettlesBadly
    BY <2>6 DEF SettlesBadly, Tell, launcherVars
  <2>15. CASE Returns
    BY <2>15 DEF Returns, ReaperEnds, launcherVars, ipcVars, ReaperGone
  <2>7. CASE Announce
    BY <2>7 DEF Announce, Tell, launcherVars
  <2>8. CASE PollReturns
    BY <2>8 DEF PollReturns, launcherVars, ipcVars, treeVars
  <2>9. CASE HandleParent
    BY <2>9 DEF HandleParent, launcherVars, ipcVars, treeVars
  <2>10. CASE HandleIpc
    BY <2>10 DEF HandleIpc, launcherVars, treeVars
  <2>11. CASE HandleSigchld
    BY <2>11 DEF HandleSigchld, launcherVars, ipcVars
  <2>12. CASE ReapsZombies
    BY <2>12 DEF ReapsZombies, launcherVars, ipcVars
  <2>13. CASE TakesSignal
    BY <2>13 DEF TakesSignal, launcherVars, ipcVars
  <2>14. CASE CloseNext
    <3>1. CASE CloseRound
      BY <3>1 DEF CloseRound, launcherVars, ipcVars, treeVars
    <3>2. CASE CloseReaps
      BY <3>2 DEF CloseReaps, launcherVars, ipcVars
    <3>3. CASE CloseKills
      BY <3>3 DEF CloseKills, launcherVars, ipcVars
    <3>4. CASE CloseReapsAgain
      BY <3>4 DEF CloseReapsAgain, launcherVars, ipcVars
    <3>5. CASE Finishes
      BY <3>5 DEF Finishes, Tell, launcherVars
    <3>q. QED
      BY <2>14, <3>1, <3>2, <3>3, <3>4, <3>5 DEF CloseNext
  <2>q. QED
    BY <1>3, <2>1, <2>2, <2>3, <2>4, <2>5, <2>6, <2>7, <2>8, <2>9, <2>10,
       <2>11, <2>12, <2>13, <2>14, <2>15
      DEF ReaperNext
<1>4. CASE OutsideSignal
  BY <1>4 DEF OutsideSignal, launcherVars, ipcVars
<1>6. CASE KillArrives
  BY <1>6 DEF KillArrives, launcherVars, ipcVars
<1>5. CASE UNCHANGED vars
  BY <1>5 DEF vars, launcherVars, reaperVars, ipcVars, treeVars
<1>q. QED
  BY <1>1, <1>2, <1>3, <1>4, <1>5, <1>6 DEF Next, Stopped

-----------------------------------------------------------------------------
(* The tree of processes.                                                   *)

\* Letting wait_all() or init reap keeps the tree: a zombie has no children.
LEMMA ReapKeepsTree ==
  ASSUME TypeOK, TreeInv, SameTree
  PROVE  TreeInv'
BY ConstantsAssumption DEF TypeOK, TreeInv, SameTree, Reaped, Present, Procs

LEMMA TreeInvStep ==
  ASSUME TypeOK, TreeInv, StageInv, [Next]_vars
  PROVE  TreeInv'
<1> USE ConstantsAssumption DEF TypeOK, TreeInv, Present, Procs
<1>1. CASE SameTree
  BY <1>1, ReapKeepsTree
<1>2. CASE ProcForks
  <2>1. PICK p \in Procs : /\ st[p] = "alive" /\ born < MaxProcs
                           /\ born' = born + 1
                           /\ st' = [st EXCEPT ![born + 1] = "alive"]
                           /\ par' = [par EXCEPT ![born + 1] = p]
    BY <1>2 DEF ProcForks
  <2>2. born + 1 \in Procs /\ p < born + 1 /\ p <= born
    BY <2>1
  <2>q. QED
    BY <2>1, <2>2
<1>3. ASSUME NEW p \in Procs, ProcDies(p)
      PROVE  TreeInv'
  <2>1. /\ st[p] = "alive" /\ born' = born /\ par' = Adopt(p)
        /\ st' \in {[st EXCEPT ![p] = "zombie"],
                    Reaped([st EXCEPT ![p] = "zombie"], Adopt(p))}
    BY <1>3 DEF ProcDies
  <2>2. \A c \in Procs : par'[c] = IF par[c] = p THEN 0 ELSE par[c]
    BY <2>1 DEF Adopt
  <2>3. \A c \in Procs : st'[c] = "alive" <=> st[c] = "alive" /\ c # p
    BY <2>1 DEF Reaped
  <2>4. \A c \in Procs : st'[c] \in Present => st[c] \in Present
    BY <2>1 DEF Reaped
  <2>5. \A c \in Procs : c > born => st'[c] = "unborn"
    BY <2>1 DEF Reaped
  <2>6. \A c \in Procs : c > born => par'[c] = 0
    BY <2>2
  <2>7. \A c \in Procs : st'[c] \in Present /\ par'[c] # 0 =>
          par'[c] \in Procs /\ par'[c] < c /\ st'[par'[c]] = "alive"
    BY <2>2, <2>3, <2>4
  <2>q. QED
    BY <2>1, <2>5, <2>6, <2>7
<1>4. CASE ProcReaps
  BY <1>4 DEF ProcReaps
<1>5. CASE LaunchCommand
  <2>1. born = 0 /\ 1 \in Procs /\ born' = 1 /\ st' = [st EXCEPT ![1] = "alive"] /\ par' = par
    BY <1>5 DEF LaunchCommand
  <2>2. \A p \in Procs : st[p] = "unborn" /\ par[p] = 0
    BY <2>1
  <2>q. QED
    BY <2>1, <2>2
<1>6. CASE Settles
  BY <1>6 DEF Settles
<1>7. CASE SettlesBadly
  BY <1>7 DEF SettlesBadly
<1>q. QED
  BY <1>1, <1>2, <1>3, <1>4, <1>5, <1>6, <1>7, TreeFrame DEF TreeStep

\* A reaper without children has no descendants: the oldest process that is
\* left would have a parent that is older.
LEMMA NoChildrenNobody ==
  ASSUME TypeOK, TreeInv, Children = {}
  PROVE  Gone
<1> DEFINE Left == {p \in Procs : st[p] \in Present}
<1>1. SUFFICES ASSUME Left # {} PROVE FALSE
  BY <1>1 DEF TypeOK, Gone, Present
<1>2. Left \subseteq Nat
  BY ConstantsAssumption DEF Procs
<1>3. PICK p \in Left : \A q \in Left : ~(q < p)
  <2>1. PICK p \in Left : \A q \in Left : <<q, p>> \notin OpToRel(<, Nat)
    BY <1>1, <1>2, NatLessThanWellFounded, WFMin, Zenon
  <2>q. QED
    BY <1>2, <2>1 DEF OpToRel
<1>4. par[p] # 0
  BY <1>3 DEF Children, Present
<1>5. par[p] \in Left /\ par[p] < p
  BY <1>3, <1>4 DEF TreeInv, Present
<1>q. QED
  BY <1>3, <1>5

-----------------------------------------------------------------------------
(* Gone stays: nobody is left to fork.                                      *)

LEMMA GoneStays ==
  ASSUME TypeOK, Gone, [Next]_vars, ~LaunchCommand
  PROVE  Gone'
<1>1. CASE SameTree
  BY <1>1 DEF SameTree, Reaped, Gone, TypeOK
<1>2. CASE ProcForks \/ ProcReaps \/ \E p \in Procs : ProcDies(p)
  BY <1>2 DEF ProcForks, ProcReaps, ProcDies, Gone
<1>3. CASE Settles
  BY <1>3 DEF Settles, Gone, TypeOK
<1>4. CASE SettlesBadly
  BY <1>4 DEF SettlesBadly, Gone, TypeOK
<1>q. QED
  BY <1>1, <1>2, <1>3, <1>4, TreeFrame DEF TreeStep

LEMMA GoneInvStep ==
  ASSUME TypeOK, TreeInv, StageInv, MessageInv, GoneInv, [Next]_vars
  PROVE  GoneInv'
<1> SUFFICES ASSUME rpc' \in Ending PROVE Gone'
  BY DEF GoneInv, Ending
<1>1. CASE rpc \in Ending
  <2>1. ~LaunchCommand
    BY <1>1 DEF LaunchCommand, Ending
  <2>q. QED
    BY <1>1, <2>1, GoneStays DEF GoneInv, Ending
<1>2. CASE Children = {} /\ UNCHANGED <<st, par>>
  BY <1>2, NoChildrenNobody DEF Gone
<1>q. QED
  BY <1>1, <1>2, StageStep DEF Forward

-----------------------------------------------------------------------------
(* The messages.                                                            *)

LEMMA TailElements ==
  ASSUME NEW S, NEW s \in Seq(S), s # <<>>
  PROVE  /\ Len(Tail(s)) + 1 = Len(s) /\ Len(Tail(s)) \in Nat
         /\ \A i \in 1..Len(Tail(s)) : Tail(s)[i] = s[i + 1] /\ i + 1 \in 1..Len(s)
BY HeadTailProperties, LenProperties, EmptySeq

\* Reading a message keeps what MessageInv says of those that are left.
LEMMA ReadKeepsMessages ==
  ASSUME TypeOK, StageInv, MessageInv, Forward, toLauncher # <<>>,
         toLauncher' = Tail(toLauncher), result' = "true" => rpc' = "exited"
  PROVE  MessageInv'
<1>1. toLauncher \in Seq(ReaperMessageCode)
  BY DEF TypeOK
<1>2. rpc' \notin Early
  BY DEF MessageInv, Forward
<1>3. ASSUME NEW i \in 1..Len(toLauncher')
      PROVE  /\ toLauncher'[i] = "FINISHED_CLEANING_UP"
             /\ rpc' = "exited"
  <2>1. toLauncher'[i] = toLauncher[i + 1] /\ i + 1 \in 1..Len(toLauncher) /\ i + 1 > 1
    BY <1>1, <1>3, TailElements
  <2>q. QED
    BY <2>1 DEF MessageInv, Forward
<1>q. QED
  BY <1>2, <1>3 DEF MessageInv

\* The reaper's verdict finds the socket empty and the launcher in launch().
LEMMA VerdictKeepsMessages ==
  ASSUME TypeOK, StageInv, MessageInv, NEW code \in ReaperMessageCode,
         rpc \in Early, Tell(code), UNCHANGED launcherVars, rpc' \notin Early,
         code = "FINISHED_LAUNCH" => rpc' \in Past \/ toLauncher' = <<>>,
         code # "FINISHED_CLEANING_UP"
  PROVE  MessageInv'
<1>1. toLauncher = <<>>
  BY DEF MessageInv
<1>2. toLauncher' = <<code>> \/ toLauncher' = <<>>
  BY <1>1 DEF Tell
<1>3. lpc' \notin {"up", "asking", "polling"} /\ result' # "true"
  BY DEF launcherVars, StageInv, MessageInv, Early, Past
<1>q. QED
  BY <1>2, <1>3 DEF MessageInv

\* A step that leaves the socket alone.
LEMMA SameMessagesKeep ==
  ASSUME TypeOK, MessageInv, Forward, SameMessages
  PROVE  MessageInv'
BY DEF MessageInv, Forward, SameMessages, Up

\* The clean-up's last message is that of a reaper that has exited.
LEMMA LastMessageKeeps ==
  ASSUME TypeOK, StageInv, MessageInv, Finishes
  PROVE  MessageInv'
<1>1. /\ rpc = "finish" /\ rpc' \in {"exited", "unsent"} /\ UNCHANGED launcherVars
      /\ \/ /\ toLauncher' = Append(toLauncher, "FINISHED_CLEANING_UP")
            /\ rpc' = "exited"
         \/ toLauncher' = toLauncher
  BY DEF Finishes, ReaperEnds, Tell
<1>2. toLauncher \in Seq(ReaperMessageCode)
  BY DEF TypeOK
<1>3. \A i \in 1..Len(toLauncher) : toLauncher[i] # "FINISHED_CLEANING_UP"
  BY <1>1 DEF MessageInv
<1>4. /\ result # "true" /\ UNCHANGED <<lpc, result>>
  BY <1>1 DEF MessageInv, launcherVars
<1>5. CASE toLauncher' = toLauncher
  BY <1>1, <1>3, <1>4, <1>5 DEF MessageInv, Early, Past
<1>6. CASE toLauncher' = Append(toLauncher, "FINISHED_CLEANING_UP") /\ rpc' = "exited"
  <2>1. /\ Len(toLauncher') = Len(toLauncher) + 1
        /\ toLauncher'[Len(toLauncher) + 1] = "FINISHED_CLEANING_UP"
        /\ \A i \in 1..Len(toLauncher) : toLauncher'[i] = toLauncher[i]
        /\ Len(toLauncher) \in Nat
    BY <1>2, <1>6, AppendProperties, LenProperties DEF ReaperMessageCode
  <2>2. ASSUME NEW i \in 1..Len(toLauncher'), i # Len(toLauncher) + 1
        PROVE  i \in 1..Len(toLauncher)
    BY <2>1, <2>2
  <2>3. \A i \in 1..Len(toLauncher) :
          /\ (i > 1 \/ lpc' \in {"up", "asking", "polling"}) =>
               toLauncher'[i] = "FINISHED_CLEANING_UP"
          /\ toLauncher'[i] = "FINISHED_LAUNCH" => rpc' \in Past
    BY <1>4, <1>6, <2>1 DEF MessageInv, Past
  <2>q. QED
    BY <1>4, <1>6, <2>1, <2>2, <2>3 DEF MessageInv, Early
<1>q. QED
  BY <1>1, <1>5, <1>6

LEMMA MessageInvStep ==
  ASSUME TypeOK, TreeInv, StageInv, MessageInv, [Next]_vars
  PROVE  MessageInv'
<1>0. Forward /\ StageInv'
  BY StageStep
<1>1. CASE SameMessages
  BY <1>0, <1>1, SameMessagesKeep
<1>2. CASE LaunchReturns
  <2>1. toLauncher # <<>> /\ toLauncher' = Tail(toLauncher) /\ UNCHANGED result
    BY <1>2 DEF LaunchReturns
  <2>q. QED
    BY <1>0, <2>1, ReadKeepsMessages DEF MessageInv, Forward
<1>3. CASE CleanUpStarts
  <2>1. CASE /\ toLauncher # <<>> /\ Head(toLauncher) = "FINISHED_CLEANING_UP"
             /\ toLauncher' = Tail(toLauncher)
    <3>1. toLauncher[1] = "FINISHED_CLEANING_UP" /\ 1 \in 1..Len(toLauncher)
      BY <2>1, HeadIsFirst DEF TypeOK
    <3>2. rpc' = "exited"
      BY <1>0, <3>1 DEF MessageInv, Forward
    <3>q. QED
      BY <1>0, <2>1, <3>2, ReadKeepsMessages
  <2>2. CASE toLauncher = <<>> /\ SameMessages
    BY <1>0, <2>2, SameMessagesKeep
  <2>q. QED
    BY <1>3, <2>1, <2>2 DEF CleanUpStarts, SameMessages, Up, LauncherGoes
<1>4. CASE CleanUpReturns
  <2>1. CASE toLauncher # <<>> /\ toLauncher' = Tail(toLauncher)
    <3>1. 1 \in 1..Len(toLauncher) /\ lpc = "polling"
      BY <1>4, <2>1, HeadIsFirst DEF TypeOK, CleanUpReturns
    <3>2. toLauncher[1] = "FINISHED_CLEANING_UP"
      BY <3>1 DEF MessageInv
    <3>3. rpc' = "exited"
      BY <1>0, <3>1, <3>2 DEF MessageInv, Forward
    <3>q. QED
      BY <1>0, <2>1, <3>3, ReadKeepsMessages
  <2>2. CASE toLauncher = <<>> /\ SameMessages
    BY <1>0, <2>2, SameMessagesKeep
  <2>q. QED
    BY <1>4, <2>1, <2>2 DEF CleanUpReturns, SameMessages, Up, LauncherGoes, OnTimeout
<1>5. CASE LaunchFails
  BY <1>5, VerdictKeepsMessages DEF LaunchFails, ReaperMessageCode, Early, Past
<1>6. CASE SettlesBadly
  BY <1>6, VerdictKeepsMessages DEF SettlesBadly, ReaperMessageCode, Early, Past
<1>7. CASE Announce
  <2>1. /\ rpc \in Early /\ Tell("FINISHED_LAUNCH") /\ UNCHANGED launcherVars
        /\ rpc' \notin Early
    BY <1>7 DEF Announce, ReaperEnds, Early
  <2>2. rpc' \in Past \/ toLauncher' = <<>>
    BY <1>7, <2>1 DEF Announce, Tell, Past, MessageInv
  <2>q. QED
    BY <2>1, <2>2, VerdictKeepsMessages DEF ReaperMessageCode
<1>8. CASE Finishes
  BY <1>8, LastMessageKeeps
<1>q. QED
  BY <1>1, <1>2, <1>3, <1>4, <1>5, <1>6, <1>7, <1>8, MessageFrame DEF MessageStep

-----------------------------------------------------------------------------
(* Zombies and SIGCHLD.                                                     *)

LEMMA ZombieInvStep ==
  ASSUME TypeOK, TreeInv, StageInv, ZombieInv, [Next]_vars
  PROVE  ZombieInv'
<1> USE DEF ZombieInv, Zombies, Children
<1>1. CASE SameTree
  BY <1>1 DEF SameTree, Reaped, TypeOK
<1>2. CASE ProcForks
  <2>1. /\ UNCHANGED <<rpc, sigchld>> /\ st' = [st EXCEPT ![born + 1] = "alive"]
        /\ \A p \in Procs : par'[p] = 0 => par[p] = 0
    BY <1>2, ConstantsAssumption DEF ProcForks, reaperVars, TypeOK, Procs
  <2>q. QED
    BY <2>1 DEF TypeOK
<1>3. ASSUME NEW p \in Procs, ProcDies(p)
      PROVE  ZombieInv'
  <2>1. /\ st[p] = "alive" /\ par' = Adopt(p) /\ UNCHANGED rpc
        /\ st' \in {[st EXCEPT ![p] = "zombie"],
                    Reaped([st EXCEPT ![p] = "zombie"], Adopt(p))}
        /\ sigchld' = (sigchld \/ par[p] = 0 \/ \E c \in Procs : par[c] = p /\ st[c] = "zombie")
    BY <1>3 DEF ProcDies, reaperVars
  <2>2. ASSUME NEW z \in Procs, par'[z] = 0, st'[z] = "zombie", ~sigchld'
        PROVE  par[z] = 0 /\ st[z] = "zombie" /\ ~sigchld
    <3>1. par'[z] = IF par[z] = p THEN 0 ELSE par[z]
      BY <2>1, <2>2 DEF Adopt
    <3>2. z = p \/ st[z] = "zombie"
      BY <2>1, <2>2 DEF Reaped, TypeOK
    <3>3. ~sigchld /\ par[p] # 0 /\ (st[z] = "zombie" => par[z] # p)
      BY <2>1, <2>2, Zenon
    <3>4. par[p] < p
      BY <2>1, <3>3 DEF TreeInv, Present
    <3>5. par[p] # p
      BY <3>4, ConstantsAssumption DEF TypeOK, Procs
    <3>q. QED
      BY <2>2, <3>1, <3>2, <3>3, <3>5
  <2>q. QED
    BY <2>1, <2>2
<1>4. CASE ProcReaps
  BY <1>4 DEF ProcReaps, reaperVars, TypeOK
<1>5. CASE LaunchCommand
  BY <1>5 DEF LaunchCommand, TreeInv, TypeOK, Procs
<1>6. CASE Settles
  BY <1>6 DEF Settles, TypeOK
<1>7. CASE SettlesBadly
  BY <1>7 DEF SettlesBadly
<1>q. QED
  BY <1>1, <1>2, <1>3, <1>4, <1>5, <1>6, <1>7, TreeFrame DEF TreeStep

-----------------------------------------------------------------------------
(* Who waits for what.                                                      *)

Running == {"connected", "launch", "settle", "leaving", "announce", "poll", "handle", "wait"}
Closing == {"closing", "reap", "kill", "reapAgain", "finish"}

\* NoVainWait, made inductive: the launcher's socket is there for the reaper's connection
\* and for its verdict; the pidfd is sent while the launcher is in accept and the reaper
\* has it before it launches the command; nothing is asked of a reaper
\* that has not announced the launch, so that the pidfd is the first thing it reads.
WaitInv ==
  /\ lpc \in {"new", "created"} => ~linked
  /\ lpc \in {"new", "created", "spawned", "accept"} => ~fdSent
  /\ lpc \in {"created", "spawned", "accept", "await"} => open
  /\ lpc \in {"spawned", "accept"} => linked \/ rpc \in {"boot", "killed"}
  /\ linked => rpc \notin {"off", "boot"}
  /\ rpc \in Running \cup Closing => linked
  /\ rpc \in {"boot", "connected"} =>
       fdSent \/ ~open \/ signalled # {} \/ lpc \in {"spawned", "accept", "failing"}
  /\ rpc \in Running \ {"connected"} => fdSent
  /\ lpc = "await" /\ rpc \in {"leaving", "poll", "handle", "wait"} => toLauncher # <<>>
  /\ lpc = "polling" /\ rpc \in {"poll", "handle", "wait"} => toReaper # <<>>
  /\ lpc = "stopping" /\ ~ReaperGone /\ "TERM" \notin signalled => rpc \in Closing
  /\ lpc \in {"gone", "dying", "dead"} => ~open
  /\ lpc \in {"await", "up", "asking", "polling"} => fdSent
  /\ toReaper # <<>> => fdSent /\ rpc \in Past

\* A message that is sent waits in the socket.
LEMMA TellFills ==
  ASSUME TypeOK, open, NEW code \in ReaperMessageCode, Tell(code)
  PROVE  toLauncher' # <<>>
BY AppendProperties DEF Tell, TypeOK

LEMMA WaitInvStep ==
  ASSUME TypeOK, StageInv, WaitInv, [Next]_vars
  PROVE  WaitInv'
<1> USE DEF WaitInv, StageInv, Running, Closing, Past, ReaperGone
<1>1. CASE TreeNext
  <2>1. CASE ProcForks
    BY <2>1 DEF ProcForks, launcherVars, reaperVars, ipcVars
  <2>2. CASE \E p \in Procs : ProcDies(p)
    BY <2>2 DEF ProcDies, launcherVars, reaperVars, ipcVars
  <2>3. CASE ProcReaps
    BY <2>3 DEF ProcReaps, launcherVars, reaperVars, ipcVars
  <2>q. QED
    BY <1>1, <2>1, <2>2, <2>3 DEF TreeNext
<1>2. CASE LauncherNext
  <2>1. CASE Create
    BY <2>1 DEF Create, LauncherGoes, reaperVars, treeVars
  <2>2. CASE SpawnReaper
    BY <2>2 DEF SpawnReaper, LauncherGoes, ipcVars, treeVars
  <2>15. CASE OpenPidfd
    BY <2>15 DEF OpenPidfd, LauncherGoes, reaperVars, ipcVars, treeVars, ReaperGone
  <2>3. CASE SendParentFd
    BY <2>3 DEF SendParentFd, LauncherGoes, reaperVars, treeVars
  <2>4. CASE LaunchReturns
    BY <2>4 DEF LaunchReturns, LauncherGoes, reaperVars, treeVars
  <2>5. CASE LaunchHangsUp
    BY <2>5 DEF LaunchHangsUp, LauncherGoes, reaperVars, ipcVars, treeVars
  <2>6. CASE CleanUpStarts
    BY <2>6 DEF CleanUpStarts, LauncherGoes, reaperVars, treeVars
  <2>7. CASE CleanUpAsks
    <3>1. toReaper' # toReaper => toReaper' # <<>> /\ rpc \in Past /\ fdSent
      BY <2>7, AppendProperties DEF CleanUpAsks, TypeOK
    <3>q. QED
      BY <2>7, <3>1 DEF CleanUpAsks, LauncherGoes, reaperVars, treeVars
  <2>8. CASE CleanUpReturns
    BY <2>8 DEF CleanUpReturns, LauncherGoes, TimerFires, OnTimeout,
       reaperVars, treeVars
  <2>9. CASE StopReaper
    BY <2>9 DEF StopReaper, LauncherGoes, ipcVars, treeVars
  <2>10. CASE ReaperStopped
    BY <2>10 DEF ReaperStopped, LauncherGoes, reaperVars, ipcVars,
       treeVars
  <2>11. CASE CloseIpc
    BY <2>11 DEF CloseIpc, LauncherGoes, reaperVars, treeVars
  <2>12. CASE LauncherCrashes
    BY <2>12 DEF LauncherCrashes, LauncherGoes, reaperVars, treeVars
  <2>13. CASE LauncherDies
    BY <2>13 DEF LauncherDies, LauncherGoes, reaperVars, ipcVars, treeVars
  <2>14. CASE KillReaper
    BY <2>14 DEF KillReaper, LauncherGoes, ipcVars
  <2>q. QED
    BY <1>2, <2>1, <2>2, <2>3, <2>4, <2>5, <2>6, <2>7, <2>8, <2>9, <2>10,
       <2>11, <2>12, <2>13, <2>14, <2>15
      DEF LauncherNext
<1>3. CASE ReaperNext
  <2>1. CASE Connect
    BY <2>1 DEF Connect, ReaperEnds, launcherVars
  <2>2. CASE ReceiveParentFd
    BY <2>2 DEF ReceiveParentFd, ReaperEnds, launcherVars, ipcVars
  <2>3. CASE LaunchCommand
    BY <2>3 DEF LaunchCommand, launcherVars, ipcVars
  <2>4. CASE LaunchFails
    <3>1. open => toLauncher' # <<>>
      BY <2>4, TellFills DEF LaunchFails, ReaperMessageCode
    <3>q. QED
      BY <2>4, <3>1 DEF LaunchFails, launcherVars, treeVars
  <2>5. CASE Settles
    BY <2>5 DEF Settles, launcherVars, ipcVars
  <2>6. CASE SettlesBadly
    <3>1. open => toLauncher' # <<>>
      BY <2>6, TellFills DEF SettlesBadly, ReaperMessageCode
    <3>q. QED
      BY <2>6, <3>1 DEF SettlesBadly, launcherVars
  <2>15. CASE Returns
    BY <2>15 DEF Returns, ReaperEnds, launcherVars, ipcVars, ReaperGone
  <2>7. CASE Announce
    <3>1. open => toLauncher' # <<>>
      BY <2>7, TellFills DEF Announce, ReaperMessageCode
    <3>q. QED
      BY <2>7, <3>1 DEF Announce, ReaperEnds, launcherVars
  <2>8. CASE PollReturns
    BY <2>8 DEF PollReturns, launcherVars, ipcVars, treeVars
  <2>9. CASE HandleParent
    BY <2>9 DEF HandleParent, launcherVars, ipcVars, treeVars
  <2>10. CASE HandleIpc
    BY <2>10 DEF HandleIpc, launcherVars, treeVars
  <2>11. CASE HandleSigchld
    BY <2>11 DEF HandleSigchld, launcherVars, ipcVars
  <2>12. CASE ReapsZombies
    BY <2>12 DEF ReapsZombies, WaitAll, launcherVars, ipcVars
  <2>13. CASE TakesSignal
    BY <2>13 DEF TakesSignal, ReaperEnds, launcherVars, ipcVars
  <2>14. CASE CloseNext
    <3>1. CASE CloseRound
      BY <3>1 DEF CloseRound, launcherVars, ipcVars, treeVars
    <3>2. CASE CloseReaps
      BY <3>2 DEF CloseReaps, WaitAll, launcherVars, ipcVars
    <3>3. CASE CloseKills
      BY <3>3 DEF CloseKills, launcherVars, ipcVars
    <3>4. CASE CloseReapsAgain
      BY <3>4 DEF CloseReapsAgain, WaitAll, launcherVars, ipcVars
    <3>5. CASE Finishes
      BY <3>5 DEF Finishes, ReaperEnds, launcherVars
    <3>q. QED
      BY <2>14, <3>1, <3>2, <3>3, <3>4, <3>5 DEF CloseNext
  <2>q. QED
    BY <1>3, <2>1, <2>2, <2>3, <2>4, <2>5, <2>6, <2>7, <2>8, <2>9, <2>10,
       <2>11, <2>12, <2>13, <2>14, <2>15
      DEF ReaperNext
<1>4. CASE OutsideSignal
  BY <1>4 DEF OutsideSignal, launcherVars, ipcVars
<1>6. CASE KillArrives
  BY <1>6 DEF KillArrives, ReaperEnds, launcherVars, ipcVars
<1>5. CASE UNCHANGED vars
  BY <1>5 DEF vars, launcherVars, reaperVars, ipcVars, treeVars
<1>q. QED
  BY <1>1, <1>2, <1>3, <1>4, <1>5, <1>6 DEF Next, Stopped

-----------------------------------------------------------------------------
(* The properties.                                                          *)

LEMMA ReaperInvInit == Init => ReaperInv
<1> SUFFICES ASSUME Init PROVE ReaperInv
  OBVIOUS
<1>1. TypeOK
  BY TypeInit
<1>2. TreeInv
  BY DEF Init, TreeInv, Present
<1>3. StageInv /\ GoneInv
  BY DEF Init, StageInv, GoneInv
<1>4. MessageInv /\ ZombieInv
  BY DEF Init, MessageInv, ZombieInv
<1>q. QED
  BY <1>1, <1>2, <1>3, <1>4 DEF ReaperInv

\* ReaperInv holds throughout.
THEOREM ReaperInvariant == Spec => []ReaperInv
<1>1. ReaperInv /\ [Next]_vars => ReaperInv'
  BY TypeStep, TreeInvStep, StageStep, MessageInvStep, GoneInvStep, ZombieInvStep
  DEF ReaperInv
<1>q. QED
  BY <1>1, ReaperInvInit, PTL DEF Spec

\* When close_all_descendants returns, and when the launcher is told so, no
\* process of the command is left, whatever the tree did meanwhile.
THEOREM ClosesAllDescendants == Spec => []FinishedMeansGone
<1>1. ReaperInv => FinishedMeansGone
  <2> SUFFICES ASSUME ReaperInv PROVE FinishedMeansGone
    OBVIOUS
  <2>1. DOMAIN toLauncher = 1..Len(toLauncher)
    BY LenProperties DEF ReaperInv, TypeOK
  <2>q. QED
    BY <2>1 DEF ReaperInv, GoneInv, MessageInv, FinishedMeansGone
<1>q. QED
  BY <1>1, ReaperInvariant, PTL

\* clean_up() returns true only when nothing is left.
THEOREM CleanUpTellsTheTruth == Spec => []CleanUpTruthful
<1>1. ReaperInv => CleanUpTruthful
  BY DEF ReaperInv, GoneInv, MessageInv, CleanUpTruthful
<1>q. QED
  BY <1>1, ReaperInvariant, PTL

\* A reaper whose launch has returned OK and that ends otherwise than by SIGKILL leaves
\* nothing behind, also when its launcher has stopped it, exited or crashed.
THEOREM LaunchedIsReaped == Spec => []LaunchedMeansReaped
<1>1. ReaperInv => LaunchedMeansReaped
  BY DEF ReaperInv, StageInv, Past, GoneInv, ReaperGone, LaunchedMeansReaped
<1>q. QED
  BY <1>1, ReaperInvariant, PTL

\* A reaper in poll() knows of its zombies.
THEOREM ZombiesRemembered == Spec => []NoZombieForgotten
<1>1. ReaperInv => NoZombieForgotten
  BY DEF ReaperInv, ZombieInv, NoZombieForgotten
<1>q. QED
  BY <1>1, ReaperInvariant, PTL

LEMMA WaitInvInit == Init => WaitInv
BY DEF Init, WaitInv, Running, Closing

LEMMA AlwaysWaitInv == Spec => [](ReaperInv /\ WaitInv)
<1>1. ReaperInv /\ WaitInv /\ [Next]_vars => WaitInv'
  BY WaitInvStep DEF ReaperInv
<1>q. QED
  BY <1>1, ReaperInvariant, WaitInvInit, PTL DEF Spec

\* Neither of the two waits for what the other will not do any more, except for the
\* launcher of a reaper that was killed before it connected.
THEOREM WaitsAreMet == Spec => []NoVainWait
<1>1. TypeOK /\ StageInv /\ WaitInv => NoVainWait
  <2> SUFFICES ASSUME TypeOK, StageInv, WaitInv PROVE NoVainWait
    OBVIOUS
  <2>1. lpc = "accept" /\ ~linked => rpc \in {"boot", "killed"}
    BY DEF WaitInv
  <2>2. lpc \in {"gone", "dying", "dead"} /\ rpc = "poll" => PollReady # {}
    <3>1. "ipc" \in PollReady <=> toReaper # <<>> \/ LauncherHungUp
      BY DEF PollReady
    <3>q. QED
      BY <3>1 DEF WaitInv, LauncherHungUp
  <2>3. rpc = "connected" =>
          \/ fdSent \/ ~open \/ signalled # {}
          \/ lpc \in {"spawned", "failing"} \/ (lpc = "accept" /\ linked)
    BY DEF WaitInv, Running
  <2>q. QED
    BY <2>1, <2>2, <2>3 DEF NoVainWait, WaitInv, Closing
<1>q. QED
  BY <1>1, AlwaysWaitInv, PTL DEF ReaperInv

\* Nothing is sent to the reaper before the launcher's pidfd, nor before the reaper has
\* received that: it never asks the socket for the wrong kind of item, which is all
\* that Channel needs to deliver each one whole.
THEOREM DescriptorComesFirst ==
  Spec => [](toReaper # <<>> => fdSent /\ rpc \notin {"off", "boot", "connected"})
<1>1. WaitInv => (toReaper # <<>> => fdSent /\ rpc \notin {"off", "boot", "connected"})
  BY DEF WaitInv, Past
<1>q. QED
  BY <1>1, AlwaysWaitInv, PTL

-----------------------------------------------------------------------------
(* The service.                                                             *)

\* What the destructor has made sure of: the reaper was never started, or has ended, or
\* has been sent a SIGKILL.
EndInv ==
  /\ lpc = "failed" => rpc = "off"
  /\ lpc = "closing" => ReaperGone \/ "KILL" \in signalled

\* No message is sent twice.
WordInv == \A i, j \in 1..Len(toLauncher) : i # j => toLauncher[i] # toLauncher[j]

LEMMA EndStep ==
  ASSUME TypeOK, StageInv, EndInv, [Next]_vars
  PROVE  EndInv' /\ (ReaperGone => rpc' = rpc)
<1> USE DEF EndInv, ReaperGone, StageInv, LauncherGoes, launcherVars, reaperVars, ReaperEnds
<1>1. CASE TreeNext
  BY <1>1 DEF TreeNext, ProcForks, ProcDies, ProcReaps
<1>2. CASE LauncherNext
  <2>1. CASE Create \/ SpawnReaper \/ OpenPidfd \/ SendParentFd \/ LaunchReturns \/ LaunchHangsUp
    BY <2>1 DEF Create, SpawnReaper, OpenPidfd, SendParentFd, LaunchReturns, LaunchHangsUp
  <2>2. CASE CleanUpStarts \/ CleanUpAsks \/ CleanUpReturns
    BY <2>2 DEF CleanUpStarts, CleanUpAsks, CleanUpReturns
  <2>3. CASE StopReaper \/ ReaperStopped \/ CloseIpc \/ LauncherCrashes \/ LauncherDies
    BY <2>3 DEF StopReaper, ReaperStopped, CloseIpc, LauncherCrashes, LauncherDies
  <2>4. CASE KillReaper
    BY <2>4 DEF KillReaper
  <2>q. QED
    BY <1>2, <2>1, <2>2, <2>3, <2>4 DEF LauncherNext
<1>3. CASE ReaperNext
  <2>1. CASE Connect \/ ReceiveParentFd \/ LaunchCommand \/ LaunchFails \/ Settles
    BY <2>1 DEF Connect, ReceiveParentFd, LaunchCommand, LaunchFails, Settles
  <2>2. CASE SettlesBadly \/ Returns \/ Announce \/ PollReturns \/ HandleParent \/ HandleIpc
    BY <2>2 DEF SettlesBadly, Returns, Announce, PollReturns, HandleParent, HandleIpc
  <2>3. CASE HandleSigchld \/ ReapsZombies \/ TakesSignal
    BY <2>3 DEF HandleSigchld, ReapsZombies, TakesSignal
  <2>4. CASE CloseNext
    BY <2>4 DEF CloseNext, CloseRound, CloseReaps, CloseKills, CloseReapsAgain, Finishes
  <2>q. QED
    BY <1>3, <2>1, <2>2, <2>3, <2>4 DEF ReaperNext
<1>4. CASE OutsideSignal
  BY <1>4 DEF OutsideSignal
<1>6. CASE KillArrives
  BY <1>6 DEF KillArrives
<1>5. CASE UNCHANGED vars
  BY <1>5 DEF vars
<1>q. QED
  BY <1>1, <1>2, <1>3, <1>4, <1>5, <1>6 DEF Next, Stopped

LEMMA WordStep ==
  ASSUME TypeOK, StageInv, MessageInv, WordInv, [Next]_vars
  PROVE  WordInv'
<1>0. toLauncher \in Seq(ReaperMessageCode)
  BY DEF TypeOK
<1>1. CASE toLauncher' = toLauncher
  BY <1>0, <1>1 DEF WordInv
<1>2. CASE toLauncher # <<>> /\ toLauncher' = Tail(toLauncher)
  <2>1. \A i \in 1..Len(toLauncher') :
          toLauncher'[i] = toLauncher[i + 1] /\ i + 1 \in 1..Len(toLauncher)
    BY <1>0, <1>2, TailElements
  <2>q. QED
    BY <1>0, <2>1 DEF WordInv
<1>3. CASE LaunchFails \/ SettlesBadly \/ Announce
  <2>1. toLauncher = <<>>
    BY <1>3 DEF LaunchFails, SettlesBadly, Announce, MessageInv, Early
  <2>2. \/ toLauncher' = <<>>
        \/ toLauncher' = <<"INVALID_COMMAND">>
        \/ toLauncher' = <<"FINISHED_LAUNCH">>
    BY <1>3, <2>1 DEF LaunchFails, SettlesBadly, Announce, Tell
  <2>q. QED
    BY <2>2 DEF WordInv
<1>4. CASE Finishes
  <2>1. \/ toLauncher' = Append(toLauncher, "FINISHED_CLEANING_UP")
        \/ toLauncher' = toLauncher
    BY <1>4 DEF Finishes, Tell
  <2>2. \A i \in 1..Len(toLauncher) : toLauncher[i] # "FINISHED_CLEANING_UP"
    BY <1>4 DEF Finishes, MessageInv
  <2>3. CASE toLauncher' = Append(toLauncher, "FINISHED_CLEANING_UP")
    <3>1. /\ Len(toLauncher') = Len(toLauncher) + 1 /\ Len(toLauncher) \in Nat
          /\ toLauncher'[Len(toLauncher) + 1] = "FINISHED_CLEANING_UP"
          /\ \A i \in 1..Len(toLauncher) : toLauncher'[i] = toLauncher[i]
      BY <1>0, <2>3, AppendProperties, LenProperties DEF ReaperMessageCode
    <3>2. \A i \in 1..Len(toLauncher') : i = Len(toLauncher) + 1 \/ i \in 1..Len(toLauncher)
      BY <3>1
    <3>q. QED
      BY <2>2, <3>1, <3>2 DEF WordInv
  <2>q. QED
    BY <1>1, <2>1, <2>3
<1>5. CASE LaunchReturns \/ CleanUpStarts \/ CleanUpReturns
  BY <1>1, <1>2, <1>5 DEF LaunchReturns, CleanUpStarts, CleanUpReturns
<1>q. QED
  BY <1>1, <1>3, <1>4, <1>5, MessageFrame DEF MessageStep, SameMessages

ServiceInv == ReaperInv /\ EndInv /\ WordInv

LEMMA AlwaysServiceInv == Spec => []ServiceInv
<1>1. Init => ServiceInv
  BY ReaperInvInit DEF Init, ServiceInv, EndInv, WordInv
<1>2. ServiceInv /\ [Next]_vars => EndInv' /\ WordInv'
  BY EndStep, WordStep DEF ServiceInv, ReaperInv
<1>q. QED
  BY <1>1, <1>2, ReaperInvariant, PTL DEF Spec, ServiceInv

\* What sending and reading a message does to the words on their way.
LEMMA SameWords ==
  ASSUME toLauncher' = toLauncher
  PROVE  Words' = Words
BY DEF Words

LEMMA WordsRead ==
  ASSUME TypeOK, WordInv, toLauncher # <<>>, toLauncher' = Tail(toLauncher)
  PROVE  Head(toLauncher) \in Words /\ Words' = Words \ {Head(toLauncher)}
<1>1. toLauncher \in Seq(ReaperMessageCode)
  BY DEF TypeOK
<1>2. /\ Head(toLauncher) = toLauncher[1] /\ 1 \in 1..Len(toLauncher)
      /\ Len(toLauncher) \in Nat /\ DOMAIN toLauncher = 1..Len(toLauncher)
  BY <1>1, HeadIsFirst, LenProperties
<1>3. /\ Len(toLauncher') + 1 = Len(toLauncher) /\ Len(toLauncher') \in Nat
      /\ \A i \in 1..Len(toLauncher') : toLauncher'[i] = toLauncher[i + 1]
      /\ DOMAIN toLauncher' = 1..Len(toLauncher')
  BY <1>1, TailElements, TailType, LenProperties
<1>4. \A i \in 1..Len(toLauncher) : i # 1 => i - 1 \in 1..Len(toLauncher') /\ (i - 1) + 1 = i
  BY <1>3
<1>5. ASSUME NEW w \in Words, w # Head(toLauncher)
      PROVE  w \in Words'
  <2>1. PICK i \in 1..Len(toLauncher) : toLauncher[i] = w
    BY <1>2, <1>5 DEF Words
  <2>2. i - 1 \in 1..Len(toLauncher') /\ toLauncher'[i - 1] = w
    BY <1>2, <1>3, <1>4, <1>5, <2>1
  <2>q. QED
    BY <1>3, <2>2 DEF Words
<1>6. ASSUME NEW w \in Words'
      PROVE  w \in Words /\ w # Head(toLauncher)
  <2>1. PICK i \in 1..Len(toLauncher') : toLauncher'[i] = w
    BY <1>3, <1>6 DEF Words
  <2>2. i + 1 \in 1..Len(toLauncher) /\ toLauncher[i + 1] = w /\ i + 1 # 1
    BY <1>3, <2>1
  <2>3. toLauncher[i + 1] # toLauncher[1]
    BY <1>2, <2>2 DEF WordInv
  <2>q. QED
    BY <1>2, <2>2, <2>3 DEF Words
<1>q. QED
  BY <1>2, <1>5, <1>6 DEF Words

LEMMA WordsTold ==
  ASSUME TypeOK, NEW code \in ReaperMessageCode, Tell(code)
  PROVE  Words' \in {Words, Words \cup {code}}
<1>1. CASE toLauncher' = toLauncher
  BY <1>1, SameWords
<1>2. CASE toLauncher' = Append(toLauncher, code)
  <2>1. /\ DOMAIN toLauncher = 1..Len(toLauncher)
        /\ DOMAIN toLauncher' = 1..Len(toLauncher) \cup {Len(toLauncher) + 1}
        /\ toLauncher'[Len(toLauncher) + 1] = code
        /\ \A i \in 1..Len(toLauncher) : toLauncher'[i] = toLauncher[i]
        /\ Len(toLauncher) + 1 \notin 1..Len(toLauncher)
    BY <1>2, AppendProperties, LenProperties DEF TypeOK
  <2>q. QED
    BY <2>1 DEF Words
<1>q. QED
  BY <1>1, <1>2 DEF Tell

\* What may happen to the processes.
LEMMA WaitedReaped ==
  ASSUME NEW s, st' = Reaped(s, par)
  PROVE  Service!Waited(s)
<1> DEFINE Z == {p \in Procs : par[p] = 0}
<1>1. st' = [p \in Procs |-> IF p \in Z /\ s[p] = "zombie" THEN "gone" ELSE s[p]]
  BY DEF Reaped
<1>q. QED
  BY <1>1 DEF Service!Waited

LEMMA NobodyWaited ==
  ASSUME NEW s \in [Procs -> {"unborn", "alive", "zombie", "gone"}], st' = s
  PROVE  Service!Waited(s)
<1>1. {} \in SUBSET Procs
  OBVIOUS
<1>2. st' = [p \in Procs |-> IF p \in {} /\ s[p] = "zombie" THEN "gone" ELSE s[p]]
  OBVIOUS
<1>q. QED
  BY <1>1, <1>2, Zenon DEF Service!Waited

\* Only the destructor's last step dooms the reaper.
LEMMA TreeDooms == TreeNext => Doomed' = Doomed
BY DEF TreeNext, ProcForks, ProcDies, ProcReaps, reaperVars, Doomed

LEMMA LauncherDooms == LauncherNext /\ ~KillReaper => Doomed' = Doomed
BY DEF LauncherNext, Create, SpawnReaper, OpenPidfd, SendParentFd, LaunchReturns,
       LaunchHangsUp, CleanUpStarts, CleanUpAsks, CleanUpReturns, StopReaper,
       ReaperStopped, CloseIpc, LauncherCrashes, LauncherDies, reaperVars, Doomed

LEMMA ReaperDooms == ReaperNext \/ OutsideSignal \/ KillArrives => Doomed' = Doomed
BY DEF ReaperNext, Connect, ReceiveParentFd, LaunchCommand, LaunchFails, Settles,
       SettlesBadly, Returns, Announce, PollReturns, HandleParent, HandleIpc,
       HandleSigchld, ReapsZombies, TakesSignal, CloseNext, CloseRound, CloseReaps,
       CloseKills, CloseReapsAgain, Finishes, OutsideSignal, KillArrives, Doomed

LEMMA TreeServes ==
  ASSUME ServiceInv, TreeNext
  PROVE  Service!CommandGoesOn
<1> USE DEF ServiceInv, ReaperInv, TypeOK
<1>1. UNCHANGED <<lpc, result, rpc, toLauncher>>
  BY DEF TreeNext, ProcForks, ProcDies, ProcReaps, launcherVars, reaperVars, ipcVars
<1>2. UNCHANGED <<Phase, result, Doomed, Guard, Words>>
  BY <1>1, SameWords, TreeDooms DEF Phase, Guard
<1>3. CASE ProcForks
  <2>1. PICK p \in Procs : /\ st[p] = "alive" /\ born < MaxProcs
                           /\ st' = [st EXCEPT ![born + 1] = "alive"]
    BY <1>3 DEF ProcForks
  <2>2. born + 1 \in Procs /\ st[born + 1] = "unborn"
    BY <2>1, ConstantsAssumption DEF Procs, TreeInv
  <2>3. Service!Forks(p, born + 1)
    BY <2>1, <2>2 DEF Service!Forks
  <2>q. QED
    BY <1>2, <2>2, <2>3 DEF Service!CommandGoesOn, Service!launcherVars
<1>4. ASSUME NEW p \in Procs, ProcDies(p) PROVE Service!CommandGoesOn
  <2> DEFINE s == [st EXCEPT ![p] = "zombie"]
  <2>1. st[p] = "alive" /\ (st' = s \/ st' = Reaped(s, Adopt(p)))
    BY <1>4 DEF ProcDies
  <2>2. s \in [Procs -> {"unborn", "alive", "zombie", "gone"}]
    OBVIOUS
  <2>3. st' = s => Service!Waited(s)
    BY <2>2, NobodyWaited
  <2>4. st' = Reaped(s, Adopt(p)) => Service!Waited(s)
    <3> HIDE DEF s
    <3> DEFINE Z == {c \in Procs : Adopt(p)[c] = 0}
    <3>1. st' = Reaped(s, Adopt(p)) =>
            st' = [c \in Procs |-> IF c \in Z /\ s[c] = "zombie" THEN "gone" ELSE s[c]]
      BY DEF Reaped
    <3>q. QED
      BY <3>1 DEF Service!Waited
  <2>5. Service!Dies(p)
    BY <2>1, <2>3, <2>4 DEF Service!Dies
  <2>q. QED
    BY <1>2, <2>5 DEF Service!CommandGoesOn, Service!launcherVars
<1>5. CASE ProcReaps
  <2>1. PICK p \in Procs : st[p] = "zombie" /\ st' = [st EXCEPT ![p] = "gone"]
    BY <1>5 DEF ProcReaps
  <2>2. st' = [c \in Procs |-> IF c \in {p} /\ st[c] = "zombie" THEN "gone" ELSE st[c]]
    BY <2>1
  <2>3. Service!Waited(st)
    BY <2>2 DEF Service!Waited
  <2>q. QED
    BY <1>2, <2>3 DEF Service!CommandGoesOn, Service!launcherVars
<1>q. QED
  BY <1>3, <1>4, <1>5 DEF TreeNext

\* What a step that serves nobody leaves alone.
Seen == <<Phase, result, Doomed, Guard, Words, st>>

LEMMA SeenIsServed == UNCHANGED Seen => UNCHANGED Service!vars
BY DEF Seen, Service!vars, Service!launcherVars

\* The SIGKILL of the destructor is a step of the service, too.
LEMMA KillServes ==
  ASSUME ServiceInv, KillReaper
  PROVE  Service!Kills
<1>1. /\ lpc = "stopping" /\ lpc' = "closing" /\ ~ReaperGone /\ rpc # "off"
      /\ UNCHANGED <<result, rpc, toLauncher, st>> /\ Words' = Words
      /\ signalled' = signalled \cup {"KILL"}
  BY SameWords DEF KillReaper, LauncherGoes, ipcVars, treeVars
<1>2. Phase = "ending" /\ Phase' = "ending" /\ Guard' = Guard /\ Doomed'
  BY <1>1 DEF Phase, Guard, Doomed
<1>3. Service!Present
  BY <1>1 DEF ServiceInv, ReaperInv, TypeOK, Guard, ReaperGone, Service!Present
<1>4. Doomed' = TRUE
  BY <1>1 DEF Doomed
<1>q. QED
  BY <1>1, <1>2, <1>3, <1>4 DEF Service!Kills

LEMMA LauncherServes ==
  ASSUME ServiceInv, LauncherNext, ~KillReaper
  PROVE  Service!Next \/ UNCHANGED Seen
<1> USE DEF ServiceInv, ReaperInv, TypeOK, Phase, Guard, Seen, LauncherGoes, launcherVars,
            reaperVars, ipcVars, treeVars, Service!launcherVars
<1>0. /\ toLauncher' = toLauncher => Words' = Words
      /\ Doomed' = Doomed
  BY SameWords, LauncherDooms
<1>1. CASE Create
  BY <1>0, <1>1 DEF Create
<1>2. CASE SpawnReaper
  <2>1. Service!Launches
    BY <1>0, <1>2 DEF SpawnReaper, StageInv, Service!Launches
  <2>q. QED BY <2>1 DEF Service!Next
<1>15. CASE OpenPidfd
  <2>1. Service!Waits
    BY <1>0, <1>15 DEF OpenPidfd, Service!Waits
  <2>q. QED BY <2>1 DEF Service!Next
<1>3. CASE SendParentFd
  <2>1. CASE ReaperGone
    <3>1. Service!LaunchFails
      BY <1>0, <1>3, <2>1 DEF SendParentFd, ReaperGone, Service!LaunchFails, Service!Present
    <3>q. QED BY <3>1 DEF Service!Next
  <2>2. CASE ~ReaperGone
    BY <1>0, <1>3, <2>2 DEF SendParentFd
  <2>q. QED BY <2>1, <2>2
<1>4. CASE LaunchReturns
  <2>0. Service!Reads(Head(toLauncher))
    BY <1>4, WordsRead DEF LaunchReturns, Service!Reads
  <2>1. CASE LaunchSucceeded(Head(toLauncher))
    <3>1. Service!LaunchSucceeds
      BY <1>0, <1>4, <2>0, <2>1 DEF LaunchReturns, LaunchSucceeded, Service!LaunchSucceeds
    <3>q. QED BY <3>1 DEF Service!Next
  <2>2. CASE ~LaunchSucceeded(Head(toLauncher))
    <3>1. Head(toLauncher) \in {"INVALID_COMMAND", "FINISHED_CLEANING_UP"}
      BY <1>4, <2>2, HeadIsFirst, ElementOfSeq DEF LaunchReturns, LaunchSucceeded, ReaperMessageCode
    <3>2. Head(toLauncher) = "FINISHED_CLEANING_UP" => ~Service!Present
      BY <1>4, HeadIsFirst DEF LaunchReturns, MessageInv, Service!Present
    <3>3. Service!LaunchFails
      BY <1>0, <1>4, <2>0, <2>2, <3>1, <3>2 DEF LaunchReturns, Service!LaunchFails
    <3>q. QED BY <3>3 DEF Service!Next
  <2>q. QED BY <2>1, <2>2
<1>5. CASE LaunchHangsUp
  <2>1. Service!LaunchFails
    BY <1>0, <1>5 DEF LaunchHangsUp, MayHangUp, ReaperGone, Service!LaunchFails, Service!Present
  <2>q. QED BY <2>1 DEF Service!Next
<1>6. CASE CleanUpStarts
  <2>1. CASE toLauncher # <<>>
    <3>1. Service!CleanUpSays
      BY <1>0, <1>6, <2>1, WordsRead DEF CleanUpStarts, Service!CleanUpSays, Service!Reads
    <3>q. QED BY <3>1 DEF Service!Next
  <2>2. CASE toLauncher = <<>> /\ lpc' = "up"
    <3>1. Service!CleanUpSays
      BY <1>0, <1>6, <2>2 DEF CleanUpStarts, Service!CleanUpSays
    <3>q. QED BY <3>1 DEF Service!Next
  <2>3. CASE toLauncher = <<>> /\ lpc' # "up"
    BY <1>0, <1>6, <2>3 DEF CleanUpStarts
  <2>q. QED BY <2>1, <2>2, <2>3
<1>7. CASE CleanUpAsks
  <2>1. CASE result' = "false"
    <3>1. Service!CleanUpSays
      BY <1>0, <1>7, <2>1 DEF CleanUpAsks, Service!CleanUpSays
    <3>q. QED BY <3>1 DEF Service!Next
  <2>2. CASE result' # "false"
    BY <1>0, <1>7, <2>2 DEF CleanUpAsks
  <2>q. QED BY <2>1, <2>2
<1>8. CASE CleanUpReturns
  <2>1. CASE toLauncher # <<>>
    <3>1. Head(toLauncher) = "FINISHED_CLEANING_UP"
      BY <1>8, <2>1, HeadIsFirst DEF CleanUpReturns, MessageInv
    <3>2. Service!CleanUpSays
      BY <1>0, <1>8, <2>1, <3>1, WordsRead DEF CleanUpReturns, Service!CleanUpSays, Service!Reads
    <3>q. QED BY <3>2 DEF Service!Next
  <2>2. CASE toLauncher = <<>>
    <3>1. Service!CleanUpSays
      BY <1>0, <1>8, <2>2 DEF CleanUpReturns, OnTimeout, Service!CleanUpSays
    <3>q. QED BY <3>1 DEF Service!Next
  <2>q. QED BY <2>1, <2>2
<1>9. CASE StopReaper
  <2>1. Service!Stops \/ UNCHANGED Seen
    BY <1>0, <1>9 DEF StopReaper, Service!Stops
  <2>q. QED BY <2>1 DEF Service!Next
<1>10. CASE ReaperStopped
  BY <1>0, <1>10 DEF ReaperStopped
<1>11. CASE CloseIpc
  <2>1. Service!Destroyed
    BY <1>0, <1>11 DEF CloseIpc, EndInv, ReaperGone, Doomed, Service!Destroyed, Service!Present
  <2>q. QED BY <2>1 DEF Service!Next
<1>12. CASE LauncherCrashes
  <2>1. Service!Exits
    BY <1>0, <1>12 DEF LauncherCrashes, Service!Exits
  <2>q. QED BY <2>1 DEF Service!Next
<1>13. CASE LauncherDies
  <2>1. Service!Exits
    BY <1>0, <1>13 DEF LauncherDies, Service!Exits
  <2>q. QED BY <2>1 DEF Service!Next
<1>q. QED
  BY <1>1, <1>2, <1>3, <1>4, <1>5, <1>6, <1>7, <1>8, <1>9, <1>10, <1>11, <1>12, <1>13, <1>15
  DEF LauncherNext

\* The reaper's own steps: it takes the command on, fails to, reaps or ends.
LEMMA StartServes ==
  ASSUME ServiceInv,
         Connect \/ ReceiveParentFd \/ LaunchCommand \/ LaunchFails \/ Settles
         \/ SettlesBadly \/ Returns \/ Announce
  PROVE  Service!Next \/ UNCHANGED Seen
<1> USE DEF ServiceInv, ReaperInv, TypeOK, Phase, Guard, Seen, launcherVars, reaperVars,
            ipcVars, treeVars, Service!launcherVars
<1>0. /\ toLauncher' = toLauncher => Words' = Words
      /\ UNCHANGED <<lpc, result, Doomed>>
  BY SameWords, ReaperDooms DEF ReaperNext, Connect, ReceiveParentFd, LaunchCommand, LaunchFails, Settles,
                   SettlesBadly, Returns, Announce
<1>1. CASE (Connect \/ ReceiveParentFd \/ Announce) /\ rpc' = "aborted"
  <2>1. /\ rpc \in Early \ {"off"} /\ st' = Reaped(st, par)
        /\ toLauncher' = toLauncher
    BY <1>1 DEF Connect, ReceiveParentFd, Announce, ReaperEnds, Early, Tell
  <2>2. Service!Waited(st)
    BY <2>1, WaitedReaped
  <2>3. Service!Fails
    BY <1>0, <1>1, <2>1, <2>2 DEF Early, Service!Fails
  <2>q. QED BY <2>3 DEF Service!Next
<1>2. CASE (Connect \/ ReceiveParentFd) /\ rpc' # "aborted"
  BY <1>0, <1>2 DEF Connect, ReceiveParentFd, ReaperEnds
<1>3. CASE Announce /\ rpc' # "aborted"
  <2>1. rpc = "announce" /\ rpc' = "poll" /\ st' = st /\ Tell("FINISHED_LAUNCH")
    BY <1>3 DEF Announce, ReaperEnds
  <2>2. Service!Says("FINISHED_LAUNCH")
    BY <2>1, WordsTold DEF ReaperMessageCode, Service!Says
  <2>3. Service!Watches
    BY <1>0, <2>1, <2>2 DEF Service!Watches
  <2>q. QED BY <2>3 DEF Service!Next
<1>4. CASE LaunchCommand
  <2>1. /\ 1 \in Procs /\ \A p \in Procs : st[p] = "unborn"
        /\ st' = [st EXCEPT ![1] = "alive"]
    BY <1>4, ConstantsAssumption DEF LaunchCommand, Procs, TreeInv
  <2>2. Service!Starts(1)
    BY <1>4, <2>1 DEF LaunchCommand, Service!Starts
  <2>3. Service!CommandGoesOn
    BY <1>0, <1>4, <2>1, <2>2 DEF LaunchCommand, Service!CommandGoesOn
  <2>q. QED BY <2>3 DEF Service!Next
<1>5. CASE LaunchFails \/ SettlesBadly
  <2>1. /\ rpc \in {"launch", "settle"} /\ rpc' = "leaving" /\ Tell("INVALID_COMMAND")
    BY <1>5 DEF LaunchFails, SettlesBadly
  <2>2. Service!Says("INVALID_COMMAND")
    BY <2>1, WordsTold DEF ReaperMessageCode, Service!Says
  <2>3. Service!Waited(st)
    <3>1. CASE LaunchFails
      BY <3>1, NobodyWaited DEF LaunchFails
    <3>2. CASE SettlesBadly
      <4>1. st[1] = "zombie" /\ st' = [st EXCEPT ![1] = "gone"]
        BY <3>2 DEF SettlesBadly
      <4>2. st' = [p \in Procs |->
                     IF p \in {1} \cap Procs /\ st[p] = "zombie" THEN "gone" ELSE st[p]]
        BY <4>1
      <4>q. QED
        BY <4>2 DEF Service!Waited
    <3>q. QED BY <1>5, <3>1, <3>2
  <2>4. Service!Refuses
    BY <1>0, <2>1, <2>2, <2>3 DEF Service!Refuses
  <2>q. QED BY <2>4 DEF Service!Next
<1>7. CASE Returns
  <2>1. rpc = "leaving" /\ rpc' = "returned" /\ st' = Reaped(st, par) /\ toLauncher' = toLauncher
    BY <1>7 DEF Returns, ReaperEnds
  <2>2. Service!Waited(st)
    BY <2>1, WaitedReaped
  <2>3. Service!Fails
    BY <1>0, <2>1, <2>2 DEF Service!Fails
  <2>q. QED BY <2>3 DEF Service!Next
<1>6. CASE Settles
  <2>1. /\ rpc = "settle" /\ rpc' = "announce" /\ toLauncher' = toLauncher
        /\ st' = [st EXCEPT ![1] = IF @ = "zombie" THEN "gone" ELSE @]
    BY <1>6 DEF Settles
  <2>2. st' = [p \in Procs |-> IF p \in {1} \cap Procs /\ st[p] = "zombie" THEN "gone" ELSE st[p]]
    BY <2>1
  <2>3. Service!Waited(st)
    BY <2>2 DEF Service!Waited
  <2>4. Service!CommandGoesOn
    BY <1>0, <2>1, <2>3 DEF Service!CommandGoesOn
  <2>q. QED BY <2>4 DEF Service!Next
<1>q. QED
  BY <1>1, <1>2, <1>3, <1>4, <1>5, <1>6, <1>7

LEMMA LoopServes ==
  ASSUME ServiceInv,
         PollReturns \/ HandleParent \/ HandleIpc \/ HandleSigchld \/ ReapsZombies
         \/ TakesSignal
  PROVE  Service!Next \/ UNCHANGED Seen
<1> USE DEF ServiceInv, ReaperInv, TypeOK, Phase, Guard, Seen, launcherVars, reaperVars,
            ipcVars, treeVars, Service!launcherVars
<1>0. /\ UNCHANGED <<lpc, result, toLauncher, Doomed>>
      /\ Words' = Words
  BY SameWords, ReaperDooms DEF ReaperNext, PollReturns, HandleParent, HandleIpc, HandleSigchld, ReapsZombies, TakesSignal
<1>1. CASE PollReturns \/ HandleParent \/ HandleIpc \/ HandleSigchld
  BY <1>0, <1>1 DEF PollReturns, HandleParent, HandleIpc, HandleSigchld
<1>2. CASE ReapsZombies
  <2>1. Service!Waited(st)
    BY <1>2, WaitedReaped DEF ReapsZombies, WaitAll
  <2>2. Service!CommandGoesOn
    BY <1>0, <1>2, <2>1 DEF ReapsZombies, Service!CommandGoesOn
  <2>q. QED BY <2>2 DEF Service!Next
<1>3. CASE TakesSignal /\ rpc' = "killed"
  <2>1. Service!Waited(st)
    BY <1>3, WaitedReaped DEF TakesSignal, ReaperEnds
  <2>2. Service!Killed
    BY <1>0, <1>3, <2>1 DEF TakesSignal, Service!Killed, Service!Present
  <2>q. QED BY <2>2 DEF Service!Next
<1>4. CASE TakesSignal /\ rpc' # "killed"
  <2>1. /\ rpc \in Running /\ rpc' = "closing" /\ st' = st
    BY <1>4 DEF TakesSignal, ReaperEnds, Running
  <2>2. Service!Watches \/ Service!TurnsBack \/ UNCHANGED Seen
    BY <1>0, <2>1 DEF Running, Service!Watches, Service!TurnsBack, Service!Says
  <2>q. QED BY <2>2 DEF Service!Next
<1>q. QED
  BY <1>1, <1>2, <1>3, <1>4

LEMMA CloseServes ==
  ASSUME ServiceInv, CloseNext \/ OutsideSignal \/ KillArrives
  PROVE  Service!Next \/ UNCHANGED Seen
<1> USE DEF ServiceInv, ReaperInv, TypeOK, Phase, Guard, Seen, launcherVars, reaperVars,
            ipcVars, treeVars, Service!launcherVars
<1>0. /\ toLauncher' = toLauncher => Words' = Words
      /\ UNCHANGED <<lpc, result, Doomed>>
  BY SameWords, ReaperDooms DEF ReaperNext, CloseNext, CloseRound, CloseReaps, CloseKills,
                   CloseReapsAgain, Finishes, OutsideSignal, KillArrives
<1>1. CASE CloseRound \/ CloseKills
  BY <1>0, <1>1 DEF CloseRound, CloseKills
<1>2. CASE CloseReaps \/ CloseReapsAgain
  <2>1. Service!Waited(st)
    BY <1>2, WaitedReaped DEF CloseReaps, CloseReapsAgain, WaitAll
  <2>2. Service!CommandGoesOn
    BY <1>0, <1>2, <2>1 DEF CloseReaps, CloseReapsAgain, Service!CommandGoesOn
  <2>q. QED BY <2>2 DEF Service!Next
<1>3. CASE Finishes
  <2>1. /\ rpc = "finish" /\ rpc' \in {"exited", "unsent"} /\ st' = Reaped(st, par)
        /\ toLauncher' = toLauncher \/ Tell("FINISHED_CLEANING_UP")
    BY <1>3 DEF Finishes, ReaperEnds
  <2>2. \A p \in Procs : st[p] \in {"unborn", "gone"}
    BY <2>1 DEF GoneInv, Gone
  <2>3. st' = st
    BY <2>1, <2>2 DEF Reaped
  <2>4. Service!Says("FINISHED_CLEANING_UP")
    BY <1>0, <2>1, WordsTold DEF ReaperMessageCode, Service!Says
  <2>5. Service!Finishes
    BY <1>0, <2>1, <2>2, <2>3, <2>4 DEF Service!Finishes
  <2>q. QED BY <2>5 DEF Service!Next
<1>4. CASE OutsideSignal
  BY <1>0, <1>4 DEF OutsideSignal
<1>5. CASE KillArrives
  <2>1. Service!Waited(st)
    BY <1>5, WaitedReaped DEF KillArrives, ReaperEnds
  <2>2. Service!Killed
    BY <1>0, <1>5, <2>1
    DEF KillArrives, ReaperEnds, ReaperGone, Service!Killed, Service!Present
  <2>q. QED BY <2>2 DEF Service!Next
<1>q. QED
  BY <1>1, <1>2, <1>3, <1>4, <1>5 DEF CloseNext

\* ReaperServes: Reaper (reaper.cpp) and ReaperImpl (impl.cpp, cleanup.cpp) together
\* give a launcher what reaper.h:19-55 promises it, for any command, any number of
\* calls of clean_up() and any of the faults.
THEOREM ReaperServes == Spec => ServiceKept
<1>1. Init => Service!Init
  <2> SUFFICES ASSUME Init PROVE Service!Init
    OBVIOUS
  <2>1. Phase = "before" /\ Guard = "none"
    BY DEF Init, Phase, Guard
  <2>2. Words = {}
    BY DEF Init, Words
  <2>q. QED
    BY <2>1, <2>2 DEF Init, Doomed, Service!Init
<1>2. ServiceInv /\ [Next]_vars => [Service!Next]_(Service!vars)
  <2> SUFFICES ASSUME ServiceInv, [Next]_vars PROVE Service!Next \/ UNCHANGED Service!vars
    OBVIOUS
  <2>1. CASE TreeNext
    BY <2>1, TreeServes DEF Service!Next
  <2>2. CASE LauncherNext
    BY <2>2, LauncherServes, KillServes, SeenIsServed DEF Service!Next
  <2>3. CASE ReaperNext
    BY <2>3, StartServes, LoopServes, CloseServes, SeenIsServed DEF ReaperNext
  <2>4. CASE OutsideSignal \/ KillArrives
    BY <2>4, CloseServes, SeenIsServed
  <2>5. CASE UNCHANGED vars
    <3>1. UNCHANGED Seen
      BY <2>5, SameWords DEF vars, launcherVars, reaperVars, ipcVars, treeVars, Seen, Phase, Guard, Doomed
    <3>q. QED BY <3>1, SeenIsServed
  <2>q. QED
    BY <2>1, <2>2, <2>3, <2>4, <2>5 DEF Next, Stopped
<1>q. QED
  BY <1>1, <1>2, AlwaysServiceInv, PTL DEF Spec, ServiceKept, Service!Spec
=============================================================================
