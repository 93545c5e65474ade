---------------------------- MODULE WestonProofs ----------------------------
(***************************************************************************)
(* Proofs about Weston, for any number of calls of start_server and any    *)
(* finite set of foreign ports.                                            *)
(***************************************************************************)
EXTENDS Weston, FiniteSetTheorems, TLAPS

\* TypeOK but for what depends on how far a search can go.
States ==
  /\ pc \in [Backends -> {"spawn", "poll", "readX", "readW", "command", "up", "endCommand",
                          "retrying", "failing", "closing", "failed", "closed"}]
  /\ port \in [Backends -> Nat]
  /\ weston \in [Backends -> {"none", "ended"} \cup Living]
  /\ command \in [Backends -> {"none", "ended"} \cup Living]
  /\ server \in [Backends -> {"starting", "refused", "broken", "bound"}]
  /\ helper \in [Backends -> {"none", "forked", "started", "openedX", "openedW", "flushedW",
                              "exported", "gone"}]
  /\ guard \in [Backends -> BOOLEAN]

\* Which processes there can be at each place of start_server and the destructor.
LifeInv ==
  \A b \in Backends :
    /\ pc[b] = "spawn" => weston[b] \in {"none", "killed", "ended"} /\ server[b] # "bound"
    /\ pc[b] \in {"poll", "readX", "readW", "command", "up", "endCommand"} =>
         weston[b] \in {"runs", "ended"}
    /\ Launched(b) => server[b] = "bound"
    /\ pc[b] = "retrying" => server[b] \in {"refused", "broken"}
    /\ pc[b] \in {"failed", "closed"} => weston[b] \in {"none", "killed", "ended"}
    /\ pc[b] \notin {"up", "endCommand", "closing", "closed"} => command[b] = "none"
    /\ pc[b] \in {"closing", "closed"} => command[b] \in {"none", "killed", "ended"}
    /\ helper[b] # "none" => server[b] = "bound"

\* The Westons that failed for reasons of their own.
BreakInv ==
  /\ broken \subseteq Backends \X Nat /\ IsFiniteSet(broken)
  /\ Cardinality(broken) <= MaxBreaks

\* A port that was passed, or is about to be, is another's, or b's Weston failed
\* there by itself.
TakenByOther(b, p) ==
  p \in Foreign \/ \E c \in Backends \ {b} : server[c] = "bound" /\ port[c] = p
Lost(b, p) == TakenByOther(b, p) \/ <<b, p>> \in broken

SearchInv ==
  \A b \in Backends :
    /\ \A p \in Nat : p < port[b] => Lost(b, p)
    /\ server[b] \in {"refused", "broken"} /\ pc[b] \in {"poll", "retrying"} =>
         Lost(b, port[b])

\* One server, or its helper, has a port.
HoldInv ==
  \A b \in Backends :
    /\ server[b] = "bound" => port[b] \notin Foreign
    /\ \A c \in Backends : HoldsPort(b) /\ HoldsPort(c) /\ port[b] = port[c] => b = c

\* What a port's files hold while the helper of its server is on its way.
FilesInv ==
  /\ xFile \in [Ports -> Texts] /\ wFile \in [Ports -> Texts]
  /\ \A p \in Ports, b \in Backends : xFile[p] = b => helper[b] \in {"exported", "gone"}
  /\ \A b \in Backends :
       /\ helper[b] = "flushedW" => wFile[port[b]] = b
       /\ HoldsPort(b) /\ xFile[port[b]] = b => wFile[port[b]] = b

\* What start_server has read.
ReadInv ==
  /\ got \in [Backends -> [x : Found, w : Found]]
  /\ \A b \in Backends :
       /\ got[b].x = b => helper[b] \in {"exported", "gone"}
       /\ pc[b] = "readW" => wFile[port[b]] # "absent"
       /\ pc[b] = "readW" /\ HoldsPort(b) /\ got[b].x = b => wFile[port[b]] = b

WestonInv ==
  /\ States /\ LifeInv /\ BreakInv /\ SearchInv /\ HoldInv
  /\ FilesInv /\ ReadInv /\ DisplayComesWhole

-----------------------------------------------------------------------------
(* The steps of a backend, of its processes and of its helper.              *)

LEMMA LifeStep ==
  ASSUME States, LifeInv, NEW b \in Backends, BackendNext(b)
  PROVE  States' /\ LifeInv'
<1> USE DEF States, LifeInv, Launched, Goes, Living, WestonRuns, HelperLives, HasChild,
            launchVars, westonVars, helperVars, fileVars
<1>1. CASE SpawnWeston(b)
  BY <1>1 DEF SpawnWeston
<1>2. CASE SpawnFails(b)
  BY <1>2 DEF SpawnFails
<1>3. CASE SeesUnavailable(b)
  BY <1>3 DEF SeesUnavailable, EndsWeston, AfterTerm
<1>4. CASE LaunchFails(b)
  BY <1>4 DEF LaunchFails, EndsWeston, AfterTerm
<1>5. CASE LaunchReturns(b)
  BY <1>5 DEF LaunchReturns
<1>6. CASE FilesMissing(b)
  BY <1>6 DEF FilesMissing, EndsWeston, AfterTerm
<1>7. CASE ReadsX(b)
  BY <1>7 DEF ReadsX
<1>8. CASE ReadsW(b)
  BY <1>8 DEF ReadsW
<1>9. CASE LaunchesCommand(b)
  BY <1>9 DEF LaunchesCommand
<1>10. CASE CommandFails(b)
  BY <1>10 DEF CommandFails, AfterTerm
<1>11. CASE WestonEnded(b)
  BY <1>11 DEF WestonEnded, AfterWait, NextPort
<1>12. CASE CommandEnded(b)
  BY <1>12 DEF CommandEnded, AfterTerm, AfterWait
<1>13. CASE Close(b)
  BY <1>13 DEF Close, AfterTerm
<1>14. CASE Binds(b)
  BY <1>14 DEF Binds
<1>15. CASE RunsHelper(b)
  BY <1>15 DEF RunsHelper
<1>16. CASE WestonExits(b)
  BY <1>16 DEF WestonExits
<1>17. CASE CommandExits(b)
  BY <1>17 DEF CommandExits
<1>18. CASE Guards(b)
  BY <1>18 DEF Guards, HelperGoes
<1>19. CASE OpensX(b)
  BY <1>19 DEF OpensX, HelperGoes
<1>20. CASE OpensW(b)
  BY <1>20 DEF OpensW, HelperGoes
<1>21. CASE FlushesW(b)
  BY <1>21 DEF FlushesW, HelperGoes
<1>22. CASE FlushesX(b)
  BY <1>22 DEF FlushesX, HelperGoes
<1>23. CASE HelperDies(b)
  BY <1>23 DEF HelperDies
<1>24. CASE BackendBreaks(b)
  BY <1>24 DEF BackendBreaks
<1>q. QED
  BY <1>1, <1>2, <1>3, <1>4, <1>5, <1>6, <1>7, <1>8, <1>9, <1>10, <1>11, <1>12, <1>13,
     <1>14, <1>15, <1>16, <1>17, <1>18, <1>19, <1>20, <1>21, <1>22, <1>23, <1>24
     DEF BackendNext, StartProceeds, HelperProceeds

\* A backend whose Weston has bound its port keeps it bound and keeps the port.
\* What has failed stays recorded.
LEMMA BoundStays ==
  ASSUME States, LifeInv, NEW b \in Backends, BackendNext(b), NEW c \in Backends
  PROVE  /\ server[c] = "bound" => server'[c] = "bound" /\ port'[c] = port[c]
         /\ c # b => pc'[c] = pc[c] /\ port'[c] = port[c] /\ server'[c] = server[c]
         /\ broken \subseteq broken'
<1> USE DEF States, LifeInv, Goes, launchVars, westonVars, helperVars, fileVars
<1>1. CASE SpawnWeston(b)
  BY <1>1 DEF SpawnWeston
<1>2. CASE SpawnFails(b)
  BY <1>2 DEF SpawnFails
<1>3. CASE SeesUnavailable(b)
  BY <1>3 DEF SeesUnavailable, EndsWeston, AfterTerm
<1>4. CASE LaunchFails(b)
  BY <1>4 DEF LaunchFails, EndsWeston, AfterTerm
<1>5. CASE LaunchReturns(b)
  BY <1>5 DEF LaunchReturns
<1>6. CASE FilesMissing(b)
  BY <1>6 DEF FilesMissing, EndsWeston, AfterTerm
<1>7. CASE ReadsX(b)
  BY <1>7 DEF ReadsX
<1>8. CASE ReadsW(b)
  BY <1>8 DEF ReadsW
<1>9. CASE LaunchesCommand(b)
  BY <1>9 DEF LaunchesCommand
<1>10. CASE CommandFails(b)
  BY <1>10 DEF CommandFails, AfterTerm
<1>11. CASE WestonEnded(b)
  BY <1>11 DEF WestonEnded, AfterWait, NextPort
<1>12. CASE CommandEnded(b)
  BY <1>12 DEF CommandEnded, AfterTerm, AfterWait
<1>13. CASE Close(b)
  BY <1>13 DEF Close, AfterTerm
<1>14. CASE Binds(b)
  BY <1>14 DEF Binds
<1>15. CASE RunsHelper(b)
  BY <1>15 DEF RunsHelper
<1>16. CASE WestonExits(b)
  BY <1>16 DEF WestonExits
<1>17. CASE CommandExits(b)
  BY <1>17 DEF CommandExits
<1>18. CASE Guards(b)
  BY <1>18 DEF Guards, HelperGoes
<1>19. CASE OpensX(b)
  BY <1>19 DEF OpensX, HelperGoes
<1>20. CASE OpensW(b)
  BY <1>20 DEF OpensW, HelperGoes
<1>21. CASE FlushesW(b)
  BY <1>21 DEF FlushesW, HelperGoes
<1>22. CASE FlushesX(b)
  BY <1>22 DEF FlushesX, HelperGoes
<1>23. CASE HelperDies(b)
  BY <1>23 DEF HelperDies
<1>24. CASE BackendBreaks(b)
  BY <1>24 DEF BackendBreaks
<1>q. QED
  BY <1>1, <1>2, <1>3, <1>4, <1>5, <1>6, <1>7, <1>8, <1>9, <1>10, <1>11, <1>12, <1>13,
     <1>14, <1>15, <1>16, <1>17, <1>18, <1>19, <1>20, <1>21, <1>22, <1>23, <1>24
     DEF BackendNext, StartProceeds, HelperProceeds

\* Only Binds gains a port, and whoever holds one has held it since.
LEMMA HoldKept ==
  ASSUME States, LifeInv, NEW b \in Backends, BackendNext(b), NEW c \in Backends
  PROVE  /\ HoldsPort(c)' => HoldsPort(c) \/ (c = b /\ Binds(b))
         /\ server'[c] = "bound" => server[c] = "bound" \/ (c = b /\ Binds(b))
<1> USE DEF States, LifeInv, Goes, HoldsPort, WestonRuns, HelperLives, Living, launchVars,
            westonVars, helperVars, fileVars
<1>1. CASE SpawnWeston(b)
  BY <1>1 DEF SpawnWeston
<1>2. CASE SpawnFails(b)
  BY <1>2 DEF SpawnFails
<1>3. CASE SeesUnavailable(b)
  BY <1>3 DEF SeesUnavailable, EndsWeston, AfterTerm
<1>4. CASE LaunchFails(b)
  BY <1>4 DEF LaunchFails, EndsWeston, AfterTerm
<1>5. CASE LaunchReturns(b)
  BY <1>5 DEF LaunchReturns
<1>6. CASE FilesMissing(b)
  BY <1>6 DEF FilesMissing, EndsWeston, AfterTerm
<1>7. CASE ReadsX(b)
  BY <1>7 DEF ReadsX
<1>8. CASE ReadsW(b)
  BY <1>8 DEF ReadsW
<1>9. CASE LaunchesCommand(b)
  BY <1>9 DEF LaunchesCommand
<1>10. CASE CommandFails(b)
  BY <1>10 DEF CommandFails, AfterTerm
<1>11. CASE WestonEnded(b)
  BY <1>11 DEF WestonEnded, AfterWait, NextPort
<1>12. CASE CommandEnded(b)
  BY <1>12 DEF CommandEnded, AfterTerm, AfterWait
<1>13. CASE Close(b)
  BY <1>13 DEF Close, AfterTerm
<1>14. CASE Binds(b)
  BY <1>14 DEF Binds
<1>15. CASE RunsHelper(b)
  BY <1>15 DEF RunsHelper
<1>16. CASE WestonExits(b)
  BY <1>16 DEF WestonExits
<1>17. CASE CommandExits(b)
  BY <1>17 DEF CommandExits
<1>18. CASE Guards(b)
  BY <1>18 DEF Guards, HelperGoes
<1>19. CASE OpensX(b)
  BY <1>19 DEF OpensX, HelperGoes
<1>20. CASE OpensW(b)
  BY <1>20 DEF OpensW, HelperGoes
<1>21. CASE FlushesW(b)
  BY <1>21 DEF FlushesW, HelperGoes
<1>22. CASE FlushesX(b)
  BY <1>22 DEF FlushesX, HelperGoes
<1>23. CASE HelperDies(b)
  BY <1>23 DEF HelperDies
<1>24. CASE BackendBreaks(b)
  BY <1>24 DEF BackendBreaks
<1>q. QED
  BY <1>1, <1>2, <1>3, <1>4, <1>5, <1>6, <1>7, <1>8, <1>9, <1>10, <1>11, <1>12, <1>13,
     <1>14, <1>15, <1>16, <1>17, <1>18, <1>19, <1>20, <1>21, <1>22, <1>23, <1>24
     DEF BackendNext, StartProceeds, HelperProceeds

-----------------------------------------------------------------------------
(* The search for a port.                                                   *)

LEMMA OwnSearch ==
  ASSUME States, LifeInv, NEW b \in Backends, BackendNext(b)
  PROVE  \/ /\ port'[b] = port[b]
            /\ server'[b] \in {"refused", "broken"} /\ pc'[b] \in {"poll", "retrying"} =>
                 server[b] \in {"refused", "broken"} /\ pc[b] \in {"poll", "retrying"}
         \/ server[b] \in {"refused", "broken"} /\ pc[b] = "retrying" /\ pc'[b] = "spawn"
              /\ port'[b] = port[b] + 1
         \/ server[b] = "starting" /\ port'[b] = port[b]
              /\ (Taken(port[b]) \/ <<b, port[b]>> \in broken')
<1> USE DEF States, LifeInv, Goes, launchVars, westonVars, helperVars, fileVars
<1>1. CASE SpawnWeston(b)
  BY <1>1 DEF SpawnWeston
<1>2. CASE SpawnFails(b)
  BY <1>2 DEF SpawnFails
<1>3. CASE SeesUnavailable(b)
  BY <1>3 DEF SeesUnavailable, EndsWeston, AfterTerm
<1>4. CASE LaunchFails(b)
  BY <1>4 DEF LaunchFails, EndsWeston, AfterTerm
<1>5. CASE LaunchReturns(b)
  BY <1>5 DEF LaunchReturns
<1>6. CASE FilesMissing(b)
  BY <1>6 DEF FilesMissing, EndsWeston, AfterTerm
<1>7. CASE ReadsX(b)
  BY <1>7 DEF ReadsX
<1>8. CASE ReadsW(b)
  BY <1>8 DEF ReadsW
<1>9. CASE LaunchesCommand(b)
  BY <1>9 DEF LaunchesCommand
<1>10. CASE CommandFails(b)
  BY <1>10 DEF CommandFails, AfterTerm
<1>11. CASE WestonEnded(b)
  BY <1>11 DEF WestonEnded, AfterWait, NextPort
<1>12. CASE CommandEnded(b)
  BY <1>12 DEF CommandEnded, AfterTerm, AfterWait
<1>13. CASE Close(b)
  BY <1>13 DEF Close, AfterTerm
<1>14. CASE Binds(b)
  BY <1>14 DEF Binds
<1>15. CASE RunsHelper(b)
  BY <1>15 DEF RunsHelper
<1>16. CASE WestonExits(b)
  BY <1>16 DEF WestonExits
<1>17. CASE CommandExits(b)
  BY <1>17 DEF CommandExits
<1>18. CASE Guards(b)
  BY <1>18 DEF Guards, HelperGoes
<1>19. CASE OpensX(b)
  BY <1>19 DEF OpensX, HelperGoes
<1>20. CASE OpensW(b)
  BY <1>20 DEF OpensW, HelperGoes
<1>21. CASE FlushesW(b)
  BY <1>21 DEF FlushesW, HelperGoes
<1>22. CASE FlushesX(b)
  BY <1>22 DEF FlushesX, HelperGoes
<1>23. CASE HelperDies(b)
  BY <1>23 DEF HelperDies
<1>24. CASE BackendBreaks(b)
  BY <1>24 DEF BackendBreaks
<1>q. QED
  BY <1>1, <1>2, <1>3, <1>4, <1>5, <1>6, <1>7, <1>8, <1>9, <1>10, <1>11, <1>12, <1>13,
     <1>14, <1>15, <1>16, <1>17, <1>18, <1>19, <1>20, <1>21, <1>22, <1>23, <1>24
     DEF BackendNext, StartProceeds, HelperProceeds

LEMMA SearchStep ==
  ASSUME States, LifeInv, SearchInv, NEW b \in Backends, BackendNext(b)
  PROVE  SearchInv'
<1>1. \A c \in Backends, p \in Nat : Lost(c, p) => Lost(c, p)'
  BY BoundStays DEF Lost, TakenByOther
<1>2. \A c \in Backends : port[c] \in Nat
  BY DEF States
<1>3. SUFFICES ASSUME NEW c \in Backends
               PROVE  /\ \A p \in Nat : p < port'[c] => Lost(c, p)'
                      /\ /\ server'[c] \in {"refused", "broken"}
                         /\ pc'[c] \in {"poll", "retrying"}
                         => Lost(c, port[c])'
  BY Zenon DEF SearchInv
<1>4. CASE c # b
  <2>1. pc'[c] = pc[c] /\ port'[c] = port[c] /\ server'[c] = server[c]
    BY <1>4, BoundStays
  <2>2. Lost(c, port[c]) => Lost(c, port[c])'
    BY <1>1, <1>2, <2>1 DEF Lost, TakenByOther
  <2>q. QED
    BY <1>1, <2>1, <2>2 DEF SearchInv
<1>5. CASE c = b
  <2>1. Lost(b, port[b]) => \A p \in Nat : p = port[b] => Lost(b, p)'
    BY <1>1
  <2>2. \A p \in Nat : p < port[b] => Lost(b, p)'
    BY <1>1 DEF SearchInv
  <2>3. Taken(port[b]) /\ server[b] = "starting" => Lost(b, port[b])
    BY DEF Taken, HoldsPort, Lost, TakenByOther
  <2>4. port'[b] = port[b] /\ Lost(b, port[b]) => Lost(b, port[b])'
    BY <1>2, <2>1 DEF Lost, TakenByOther
  <2>5. server[b] \in {"refused", "broken"} /\ pc[b] \in {"poll", "retrying"} =>
          Lost(b, port[b])
    BY DEF SearchInv
  <2>6. CASE server[b] \in {"refused", "broken"} /\ pc[b] = "retrying" /\ pc'[b] = "spawn"
               /\ port'[b] = port[b] + 1
    <3>1. ASSUME NEW p \in Nat, p < port[b] + 1
          PROVE  p < port[b] \/ p = port[b]
      BY <3>1, <1>2
    <3>q. QED
      BY <1>5, <2>1, <2>2, <2>5, <2>6, <3>1
  <2>7. CASE /\ port'[b] = port[b]
             /\ server'[b] \in {"refused", "broken"} /\ pc'[b] \in {"poll", "retrying"} =>
                  server[b] \in {"refused", "broken"} /\ pc[b] \in {"poll", "retrying"}
    BY <1>5, <2>2, <2>4, <2>5, <2>7
  <2>8. CASE server[b] = "starting" /\ port'[b] = port[b]
               /\ (Taken(port[b]) \/ <<b, port[b]>> \in broken')
    <3>1. <<b, port[b]>> \in broken' /\ port'[b] = port[b] => Lost(b, port[b])'
      BY DEF Lost
    <3>q. QED
      BY <1>5, <2>2, <2>3, <2>4, <2>8, <3>1
  <2>q. QED
    BY <2>6, <2>7, <2>8, OwnSearch
<1>q. QED
  BY <1>4, <1>5

\* A record is made by BackendBreaks only, within its bound.
LEMMA BreakStep ==
  ASSUME States, BreakInv, NEW b \in Backends, BackendNext(b)
  PROVE  BreakInv'
<1>1. CASE BackendBreaks(b)
  <2>1. broken' = broken \cup {<<b, port[b]>>} /\ Cardinality(broken) < MaxBreaks
    BY <1>1 DEF BackendBreaks
  <2>2. /\ IsFiniteSet(broken \cup {<<b, port[b]>>})
        /\ \/ Cardinality(broken \cup {<<b, port[b]>>}) = Cardinality(broken)
           \/ Cardinality(broken \cup {<<b, port[b]>>}) = Cardinality(broken) + 1
    BY FS_AddElement DEF BreakInv
  <2>3. Cardinality(broken) \in Nat /\ MaxBreaks \in Nat
    BY ConstantsAssumption, FS_CardinalityType DEF BreakInv
  <2>4. broken' \subseteq Backends \X Nat
    BY <2>1 DEF BreakInv, States
  <2>q. QED
    BY <2>1, <2>2, <2>3, <2>4 DEF BreakInv
<1>2. CASE ~BackendBreaks(b)
  <2>1. broken' = broken
    BY <1>2, Zenon
       DEF BackendNext, StartProceeds, HelperProceeds, SpawnWeston, SpawnFails,
           SeesUnavailable, LaunchFails, LaunchReturns, FilesMissing, ReadsX, ReadsW,
           LaunchesCommand, CommandFails, WestonEnded, CommandEnded, Close, Binds,
           RunsHelper, WestonExits, CommandExits, Guards, OpensX, OpensW, FlushesW,
           FlushesX, HelperDies, HelperGoes, EndsWeston, westonVars
  <2>q. QED
    BY <2>1 DEF BreakInv
<1>q. QED
  BY <1>1, <1>2

\* The pigeonhole principle: of the ports below port[b], at most as many are
\* foreign as there are foreign ones, at most as many another backend's as there
\* are other backends, and at the others b's Weston failed by itself.
LEMMA SearchStops ==
  ASSUME States, BreakInv, SearchInv
  PROVE  SearchBounded
<1>1. SUFFICES ASSUME NEW b \in Backends
               PROVE  port[b] < Cardinality(Backends) + Cardinality(Foreign)
                                  + Cardinality(BrokenOf(b))
  BY DEF SearchBounded
<1> DEFINE Below == 0 .. (port[b] - 1)
           A == Below \cap Foreign
           B == {p \in Below \ Foreign : TakenByOther(b, p)}
           C == Below \ (A \cup B)
           T == {c \in Backends \ {b} : port[c] \in B}
<1>2. port[b] \in Nat
  BY DEF States
<1>3. IsFiniteSet(Below) /\ Cardinality(Below) = port[b]
  <2> DEFINE n == port[b]
  <2>1. n \in Nat /\ n - 1 \in Int /\ 0 \in Int
    BY <1>2
  <2> HIDE DEF n
  <2>2. /\ IsFiniteSet(0 .. (n - 1))
        /\ Cardinality(0 .. (n - 1)) = IF 0 > n - 1 THEN 0 ELSE (n - 1) - 0 + 1
    BY <2>1, FS_Interval
  <2>3. (IF 0 > n - 1 THEN 0 ELSE (n - 1) - 0 + 1) = n
    BY <2>1
  <2>q. QED
    BY <2>2, <2>3 DEF n
<1>4. IsFiniteSet(A) /\ Cardinality(A) <= Cardinality(Foreign)
  BY ConstantsAssumption, FS_Subset
<1>5. IsFiniteSet(T) /\ Cardinality(T) <= Cardinality(Backends) - 1
  <2>1. IsFiniteSet(Backends \ {b}) /\ Cardinality(Backends \ {b}) = Cardinality(Backends) - 1
    BY ConstantsAssumption, FS_RemoveElement
  <2>2. T \in SUBSET (Backends \ {b})
    OBVIOUS
  <2>q. QED
    BY <2>1, <2>2, FS_Subset
<1>6. IsFiniteSet(B) /\ Cardinality(B) <= Cardinality(T)
  <2> DEFINE f == [c \in T |-> port[c]]
  <2>1. \A p \in B : \E c \in T : f[c] = p
    <3>1. SUFFICES ASSUME NEW p \in B
                   PROVE  \E c \in T : port[c] = p
      OBVIOUS
    <3>2. p \notin Foreign /\ TakenByOther(b, p)
      OBVIOUS
    <3>3. PICK c \in Backends \ {b} : port[c] = p
      BY <3>2 DEF TakenByOther
    <3>q. QED
      BY <3>3
  <2>2. f \in [T -> B]
    OBVIOUS
  <2>3. f \in Surjection(T, B)
    BY <2>1, <2>2 DEF Surjection
  <2>q. QED
    BY <1>5, <2>3, FS_Surjection
<1>7. /\ IsFiniteSet(C) /\ IsFiniteSet(BrokenOf(b))
      /\ Cardinality(C) <= Cardinality(BrokenOf(b))
  <2> DEFINE g == [p \in C |-> <<b, p>>]
  <2>1. \A p \in C : <<b, p>> \in BrokenOf(b)
    <3>1. SUFFICES ASSUME NEW p \in C
                   PROVE  <<b, p>> \in BrokenOf(b)
      OBVIOUS
    <3>2. p \in Nat /\ p < port[b] /\ ~TakenByOther(b, p)
      BY <1>2 DEF TakenByOther
    <3>q. QED
      BY <3>2 DEF SearchInv, Lost, BrokenOf
  <2>2. g \in Injection(C, BrokenOf(b))
    <3>1. g \in [C -> BrokenOf(b)]
      BY <2>1
    <3>2. \A p, q \in C : <<b, p>> = <<b, q>> => p = q
      OBVIOUS
    <3>q. QED
      BY <3>1, <3>2 DEF Injection, IsInjective
  <2>3. IsFiniteSet(BrokenOf(b))
    BY FS_Subset DEF BreakInv, BrokenOf
  <2>q. QED
    BY <2>2, <2>3, FS_Injection
<1>8. Cardinality(Below) = Cardinality(A) + Cardinality(B) + Cardinality(C)
  <2>1. Cardinality(A \cup B) = Cardinality(A) + Cardinality(B) /\ IsFiniteSet(A \cup B)
    <3>1. A \cap B = {}
      OBVIOUS
    <3>2. Cardinality(A \cap B) = 0
      BY <3>1, FS_EmptySet
    <3>3. /\ Cardinality(A \cup B) = Cardinality(A) + Cardinality(B) - Cardinality(A \cap B)
          /\ IsFiniteSet(A \cup B)
      BY <1>4, <1>6, FS_Union
    <3>4. Cardinality(A) \in Nat /\ Cardinality(B) \in Nat
      BY <1>4, <1>6, FS_CardinalityType
    <3> HIDE DEF Below, A, B
    <3>q. QED
      BY <3>2, <3>3, <3>4
  <2>2. (A \cup B) \cap C = {} /\ (A \cup B) \cup C = Below
    OBVIOUS
  <2>3. Cardinality((A \cup B) \cap C) = 0
    BY <2>2, FS_EmptySet
  <2>4. Cardinality((A \cup B) \cup C) =
          Cardinality(A \cup B) + Cardinality(C) - Cardinality((A \cup B) \cap C)
    BY <1>7, <2>1, FS_Union
  <2>5. Cardinality(A) \in Nat /\ Cardinality(B) \in Nat /\ Cardinality(C) \in Nat
    BY <1>4, <1>6, <1>7, FS_CardinalityType
  <2>6. Cardinality((A \cup B) \cup C) = Cardinality(Below)
    BY <2>2
  <2> HIDE DEF Below, A, B, C
  <2>q. QED
    BY <2>1, <2>3, <2>4, <2>5, <2>6
<1>9. /\ Cardinality(A) \in Nat /\ Cardinality(B) \in Nat /\ Cardinality(C) \in Nat
      /\ Cardinality(T) \in Nat /\ Cardinality(BrokenOf(b)) \in Nat
      /\ Cardinality(Backends) \in Nat /\ Cardinality(Foreign) \in Nat
  BY <1>4, <1>5, <1>6, <1>7, FS_CardinalityType, ConstantsAssumption
<1> HIDE DEF Below, A, B, C, T
<1>q. QED
  BY <1>2, <1>3, <1>4, <1>5, <1>6, <1>7, <1>8, <1>9

\* The bound on the failures bounds the ports.
LEMMA PortsSuffice ==
  ASSUME States, BreakInv, SearchBounded
  PROVE  \A b \in Backends : port[b] \in Ports
<1>1. SUFFICES ASSUME NEW b \in Backends
               PROVE  port[b] < Cardinality(Backends) + Cardinality(Foreign) + MaxBreaks
  <2>1. Cardinality(Backends) \in Nat /\ Cardinality(Foreign) \in Nat /\ MaxBreaks \in Nat
    BY ConstantsAssumption, FS_CardinalityType
  <2>2. \A c \in Backends : port[c] \in Nat
    BY DEF States
  <2>q. QED
    BY <2>1, <2>2 DEF Ports
<1>2. /\ Cardinality(BrokenOf(b)) <= Cardinality(broken)
      /\ Cardinality(BrokenOf(b)) \in Nat /\ Cardinality(broken) \in Nat
  BY FS_Subset, FS_CardinalityType DEF BreakInv, BrokenOf
<1>3. /\ Cardinality(Backends) \in Nat /\ Cardinality(Foreign) \in Nat /\ MaxBreaks \in Nat
      /\ port[b] \in Nat
  BY ConstantsAssumption, FS_CardinalityType DEF States
<1>q. QED
  BY <1>2, <1>3 DEF SearchBounded, BreakInv

-----------------------------------------------------------------------------
(* Who has a port.                                                          *)

LEMMA HoldStep ==
  ASSUME States, LifeInv, HoldInv, NEW b \in Backends, BackendNext(b)
  PROVE  HoldInv'
<1>1. CASE Binds(b)
  <2>1. \A c \in Backends : server'[c] = "bound" \/ HoldsPort(c)' =>
          \/ (server[c] = "bound" /\ (HoldsPort(c)' => HoldsPort(c)))
          \/ (c = b /\ ~Taken(port[b]))
    BY <1>1 DEF Binds, HoldsPort, WestonRuns, HelperLives, States, launchVars, helperVars
  <2>2. \A c \in Backends : port'[c] = port[c]
    BY <1>1 DEF Binds, launchVars
  <2>q. QED
    BY <2>1, <2>2 DEF HoldInv, Taken
<1>2. CASE ~Binds(b)
  <2>1. \A c \in Backends : HoldsPort(c)' => HoldsPort(c)
    BY <1>2, HoldKept
  <2>2. \A c \in Backends : server'[c] = "bound" => server[c] = "bound"
    BY <1>2, HoldKept
  <2>3. \A c \in Backends : server'[c] = "bound" => port'[c] = port[c]
    BY <2>2, BoundStays
  <2>4. \A c \in Backends : HoldsPort(c)' => server'[c] = "bound"
    BY DEF HoldsPort
  <2>q. QED
    BY <2>1, <2>2, <2>3, <2>4 DEF HoldInv
<1>q. QED
  BY <1>1, <1>2

-----------------------------------------------------------------------------
(* The files and who reads them.                                            *)

\* The steps that are not the helper's leave the files alone, and the helper
\* but for starting it.
LEMMA OtherSteps ==
  ASSUME States, LifeInv, NEW b \in Backends, BackendNext(b), ~HelperProceeds(b)
  PROVE  /\ UNCHANGED fileVars
         /\ \A c \in Backends :
              helper'[c] = helper[c] \/ (helper[c] = "none" /\ helper'[c] = "forked")
<1> USE DEF States, Goes, launchVars, westonVars, helperVars, fileVars
<1>1. CASE SpawnWeston(b)
  BY <1>1 DEF SpawnWeston
<1>2. CASE SpawnFails(b)
  BY <1>2 DEF SpawnFails
<1>3. CASE SeesUnavailable(b)
  BY <1>3 DEF SeesUnavailable, EndsWeston, AfterTerm
<1>4. CASE LaunchFails(b)
  BY <1>4 DEF LaunchFails, EndsWeston, AfterTerm
<1>5. CASE LaunchReturns(b)
  BY <1>5 DEF LaunchReturns
<1>6. CASE FilesMissing(b)
  BY <1>6 DEF FilesMissing, EndsWeston, AfterTerm
<1>7. CASE ReadsX(b)
  BY <1>7 DEF ReadsX
<1>8. CASE ReadsW(b)
  BY <1>8 DEF ReadsW
<1>9. CASE LaunchesCommand(b)
  BY <1>9 DEF LaunchesCommand
<1>10. CASE CommandFails(b)
  BY <1>10 DEF CommandFails, AfterTerm
<1>11. CASE WestonEnded(b)
  BY <1>11 DEF WestonEnded, AfterWait, NextPort
<1>12. CASE CommandEnded(b)
  BY <1>12 DEF CommandEnded, AfterTerm, AfterWait
<1>13. CASE Close(b)
  BY <1>13 DEF Close, AfterTerm
<1>14. CASE Binds(b)
  BY <1>14 DEF Binds
<1>15. CASE RunsHelper(b)
  BY <1>15 DEF RunsHelper
<1>16. CASE WestonExits(b)
  BY <1>16 DEF WestonExits
<1>17. CASE CommandExits(b)
  BY <1>17 DEF CommandExits
<1>18. CASE BackendBreaks(b)
  BY <1>18 DEF BackendBreaks
<1>q. QED
  BY <1>1, <1>2, <1>3, <1>4, <1>5, <1>6, <1>7, <1>8, <1>9, <1>10, <1>11, <1>12, <1>13,
     <1>14, <1>15, <1>16, <1>17, <1>18
     DEF BackendNext, StartProceeds

\* A helper writes while it lives, into the files of a port nobody else has.
LEMMA OneWriter ==
  ASSUME States, LifeInv, HoldInv, NEW b \in Backends, HelperLives(b),
         NEW c \in Backends, HoldsPort(c), port[c] = port[b]
  PROVE  c = b
BY DEF LifeInv, HoldInv, HoldsPort, HelperLives

LEMMA FilesStep ==
  ASSUME States, LifeInv, \A c \in Backends : port[c] \in Ports, HoldInv, FilesInv,
         NEW b \in Backends, BackendNext(b)
  PROVE  FilesInv'
<1>1. \A c \in Backends : c \notin {"absent", "empty"}
  BY ConstantsAssumption
<1>2. \A c \in Backends : port[c] \in Ports /\ c \in Texts /\ "empty" \in Texts
  BY DEF Texts
<1>3. CASE ~HelperProceeds(b)
  <2>1. /\ xFile' = xFile /\ wFile' = wFile
        /\ \A c \in Backends :
             helper'[c] = helper[c] \/ (helper[c] = "none" /\ helper'[c] = "forked")
    BY <1>3, OtherSteps DEF fileVars
  <2>2. \A c \in Backends : helper'[c] = "flushedW" => port'[c] = port[c]
    BY <2>1, BoundStays DEF LifeInv
  <2>3. ASSUME NEW c \in Backends, HoldsPort(c)', xFile'[port'[c]] = c
        PROVE  wFile'[port'[c]] = c
    <3>1. CASE HoldsPort(c)
      <4>1. port'[c] = port[c]
        BY <3>1, BoundStays DEF HoldsPort
      <4>q. QED
        BY <2>1, <2>3, <3>1, <4>1 DEF FilesInv
    <3>2. CASE c = b /\ Binds(b)
      <4>1. helper[c] = "none" /\ port'[c] = port[c]
        BY <3>2 DEF Binds, LifeInv, launchVars, States
      <4>2. xFile[port[c]] # c
        BY <1>2, <4>1 DEF FilesInv
      <4>q. QED
        BY <2>1, <2>3, <4>1, <4>2
    <3>q. QED
      BY <2>3, <3>1, <3>2, HoldKept
  <2>q. QED
    BY <2>1, <2>2, <2>3 DEF FilesInv
<1>4. CASE HelperProceeds(b)
  <2> USE <1>1, <1>2, OneWriter
      DEF FilesInv, States, HelperGoes, HoldsPort, WestonRuns, HelperLives, launchVars, westonVars
  <2>0. \A c \in Backends : helper[c] = "flushedW" => HoldsPort(c)
    BY DEF LifeInv
  <2>1. CASE Guards(b)
    BY <2>1 DEF Guards, fileVars
  <2>2. CASE OpensX(b)
    BY <2>2 DEF OpensX
  <2>3. CASE OpensW(b)
    BY <2>0, <2>3 DEF OpensW
  <2>4. CASE FlushesW(b)
    BY <2>0, <2>4 DEF FlushesW
  <2>5. CASE FlushesX(b)
    BY <2>0, <2>5 DEF FlushesX
  <2>6. CASE HelperDies(b)
    BY <2>6 DEF HelperDies, fileVars
  <2>q. QED
    BY <1>4, <2>1, <2>2, <2>3, <2>4, <2>5, <2>6 DEF HelperProceeds
<1>q. QED
  BY <1>3, <1>4

LEMMA ReadStep ==
  ASSUME States, LifeInv, \A c \in Backends : port[c] \in Ports, HoldInv, FilesInv, ReadInv,
         DisplayComesWhole,
         NEW b \in Backends, BackendNext(b)
  PROVE  ReadInv' /\ DisplayComesWhole'
<1>1. \A c \in Backends : c \notin {"absent", "empty", "none"}
  BY ConstantsAssumption
<1>2. \A c \in Backends : port[c] \in Ports
  OBVIOUS
<1>3. \A c \in Backends : helper[c] \in {"exported", "gone"} =>
                           helper'[c] \in {"exported", "gone"}
  <2>1. CASE ~HelperProceeds(b)
    BY <2>1, OtherSteps
  <2>2. CASE HelperProceeds(b)
    BY <2>2 DEF HelperProceeds, HelperGoes, Guards, OpensX, OpensW, FlushesW, FlushesX,
                HelperDies, States
  <2>q. QED
    BY <2>1, <2>2
\* What c still has to read changes only under its own, unfinished helper.
<1>4. ASSUME NEW c \in Backends, pc[c] = "readW"
      PROVE  /\ port'[c] = port[c] /\ (HoldsPort(c)' => HoldsPort(c))
             /\ wFile'[port[c]] # "absent"
             /\ HoldsPort(c)' /\ got[c].x = c => wFile'[port[c]] = c
  <2>1. port'[c] = port[c] /\ server[c] = "bound"
    BY <1>4, BoundStays DEF LifeInv, Launched
  <2>2. HoldsPort(c)' => HoldsPort(c)
    BY <2>1, HoldKept DEF Binds
  <2>3. CASE wFile' = wFile
    BY <1>4, <2>1, <2>2, <2>3 DEF ReadInv
  <2>4. CASE OpensW(b) \/ FlushesW(b)
    <3>1. wFile' = [wFile EXCEPT ![port[b]] = "empty"] \/ wFile' = [wFile EXCEPT ![port[b]] = b]
      BY <2>4 DEF OpensW, FlushesW
    <3>2. helper[b] \in {"openedX", "openedW"}
      BY <2>4 DEF OpensW, FlushesW, HelperGoes
    <3>3. HoldsPort(c) /\ port[c] = port[b] => c = b
      BY <3>2, OneWriter DEF HelperLives
    <3>4. got[c].x = c => c # b
      BY <3>2 DEF ReadInv
    <3>5. wFile'[port[c]] # "absent"
      BY <1>1, <1>2, <1>4, <3>1 DEF ReadInv, FilesInv
    <3>6. port[c] # port[b] => wFile'[port[c]] = wFile[port[c]]
      BY <1>2, <3>1 DEF FilesInv
    <3>q. QED
      BY <1>4, <2>1, <2>2, <3>3, <3>4, <3>5, <3>6 DEF ReadInv
  <2>5. HelperProceeds(b) => wFile' = wFile \/ OpensW(b) \/ FlushesW(b)
    BY DEF HelperProceeds, Guards, OpensX, FlushesX, HelperDies, fileVars
  <2>6. ~HelperProceeds(b) => wFile' = wFile
    BY OtherSteps DEF fileVars
  <2>q. QED
    BY <2>3, <2>4, <2>5, <2>6
<1> USE <1>1, <1>2 DEF States, Goes, Found, Texts
<1>5. CASE ReadsX(b)
  <2>1. xFile[port[b]] \in Found /\ wFile[port[b]] # "absent"
    BY <1>5 DEF ReadsX, FilesInv
  <2>2. HoldsPort(b)' => HoldsPort(b)
    BY <1>5 DEF ReadsX, HoldsPort, WestonRuns, HelperLives, westonVars, helperVars
  <2>3. /\ got' = [got EXCEPT ![b].x = xFile[port[b]]] /\ pc' = [pc EXCEPT ![b] = "readW"]
        /\ wFile' = wFile /\ port' = port
    BY <1>5 DEF ReadsX, fileVars
  <2>4. got' \in [Backends -> [x : Found, w : Found]]
    BY <2>1, <2>3 DEF ReadInv
  <2>5. got'[b].x = xFile[port[b]] /\ \A c \in Backends : c # b => got'[c] = got[c]
    BY <2>3 DEF ReadInv
  <2>6. got'[b].x = b => helper'[b] \in {"exported", "gone"}
    BY <1>3, <2>5 DEF FilesInv
  <2>7. HoldsPort(b) /\ xFile[port[b]] = b => wFile[port[b]] = b
    BY DEF FilesInv
  <2>8. \A c \in Backends : c # b /\ HoldsPort(c)' => HoldsPort(c)
    BY HoldKept
  <2>q. QED
    BY <1>3, <1>4, <2>1, <2>2, <2>3, <2>4, <2>5, <2>6, <2>7, <2>8 DEF ReadInv, DisplayComesWhole
<1>6. CASE ReadsW(b)
  <2>1. pc[b] = "readW" /\ wFile[port[b]] \in Found
    BY <1>6 DEF ReadsW, FilesInv, ReadInv
  <2>2. /\ got' = [got EXCEPT ![b].w = wFile[port[b]]] /\ pc' = [pc EXCEPT ![b] = "command"]
        /\ wFile' = wFile /\ port' = port
    BY <1>6 DEF ReadsW, fileVars
  <2>3. got' \in [Backends -> [x : Found, w : Found]]
    BY <2>1, <2>2 DEF ReadInv
  <2>4. /\ got'[b].x = got[b].x /\ got'[b].w = wFile[port[b]]
        /\ \A c \in Backends : c # b => got'[c] = got[c]
    BY <2>2 DEF ReadInv
  <2>5. \A c \in Backends : c # b /\ HoldsPort(c)' => HoldsPort(c)
    BY HoldKept
  <2>q. QED
    BY <1>3, <1>4, <2>1, <2>2, <2>3, <2>4, <2>5 DEF ReadInv, DisplayComesWhole
<1>7. CASE ~ReadsX(b) /\ ~ReadsW(b)
  <2>1. \/ got' = got
        \/ got' = [got EXCEPT ![b] = NoVars] /\ pc'[b] \notin {"readW", "command"}
    <3> USE DEF Goes, NoVars, States, ReadInv, launchVars, westonVars, helperVars, fileVars
    <3>1. CASE SpawnWeston(b)
      BY <3>1 DEF SpawnWeston
    <3>2. CASE SpawnFails(b)
      BY <3>2 DEF SpawnFails
    <3>3. CASE SeesUnavailable(b)
      BY <3>3 DEF SeesUnavailable, EndsWeston, AfterTerm
    <3>4. CASE LaunchFails(b)
      BY <3>4 DEF LaunchFails, EndsWeston, AfterTerm
    <3>5. CASE LaunchReturns(b)
      BY <3>5 DEF LaunchReturns
    <3>6. CASE FilesMissing(b)
      BY <3>6 DEF FilesMissing, EndsWeston, AfterTerm
    <3>7. CASE LaunchesCommand(b)
      BY <3>7 DEF LaunchesCommand
    <3>8. CASE CommandFails(b)
      BY <3>8 DEF CommandFails, AfterTerm
    <3>9. CASE WestonEnded(b)
      BY <3>9 DEF WestonEnded, AfterWait, NextPort
    <3>10. CASE CommandEnded(b)
      BY <3>10 DEF CommandEnded, AfterTerm, AfterWait
    <3>11. CASE Close(b)
      BY <3>11 DEF Close, AfterTerm
    <3>12. CASE Binds(b)
      BY <3>12 DEF Binds
    <3>13. CASE RunsHelper(b)
      BY <3>13 DEF RunsHelper
    <3>14. CASE WestonExits(b)
      BY <3>14 DEF WestonExits
    <3>15. CASE CommandExits(b)
      BY <3>15 DEF CommandExits
    <3>16. CASE Guards(b)
      BY <3>16 DEF Guards, HelperGoes
    <3>17. CASE OpensX(b)
      BY <3>17 DEF OpensX, HelperGoes
    <3>18. CASE OpensW(b)
      BY <3>18 DEF OpensW, HelperGoes
    <3>19. CASE FlushesW(b)
      BY <3>19 DEF FlushesW, HelperGoes
    <3>20. CASE FlushesX(b)
      BY <3>20 DEF FlushesX, HelperGoes
    <3>21. CASE HelperDies(b)
      BY <3>21 DEF HelperDies
    <3>22. CASE BackendBreaks(b)
      BY <3>22 DEF BackendBreaks
    <3>q. QED
      BY <1>7, <3>1, <3>2, <3>3, <3>4, <3>5, <3>6, <3>7, <3>8, <3>9, <3>10, <3>11, <3>12,
         <3>13, <3>14, <3>15, <3>16, <3>17, <3>18, <3>19, <3>20, <3>21, <3>22
         DEF BackendNext, StartProceeds, HelperProceeds
  <2>2. \A c \in Backends : pc'[c] \in {"readW", "command"} => pc[c] = pc'[c]
    <3> USE DEF Goes, NoVars, States, ReadInv, launchVars, westonVars, helperVars, fileVars
    <3>1. CASE SpawnWeston(b)
      BY <3>1 DEF SpawnWeston
    <3>2. CASE SpawnFails(b)
      BY <3>2 DEF SpawnFails
    <3>3. CASE SeesUnavailable(b)
      BY <3>3 DEF SeesUnavailable, EndsWeston, AfterTerm
    <3>4. CASE LaunchFails(b)
      BY <3>4 DEF LaunchFails, EndsWeston, AfterTerm
    <3>5. CASE LaunchReturns(b)
      BY <3>5 DEF LaunchReturns
    <3>6. CASE FilesMissing(b)
      BY <3>6 DEF FilesMissing, EndsWeston, AfterTerm
    <3>7. CASE LaunchesCommand(b)
      BY <3>7 DEF LaunchesCommand
    <3>8. CASE CommandFails(b)
      BY <3>8 DEF CommandFails, AfterTerm
    <3>9. CASE WestonEnded(b)
      BY <3>9 DEF WestonEnded, AfterWait, NextPort
    <3>10. CASE CommandEnded(b)
      BY <3>10 DEF CommandEnded, AfterTerm, AfterWait
    <3>11. CASE Close(b)
      BY <3>11 DEF Close, AfterTerm
    <3>12. CASE Binds(b)
      BY <3>12 DEF Binds
    <3>13. CASE RunsHelper(b)
      BY <3>13 DEF RunsHelper
    <3>14. CASE WestonExits(b)
      BY <3>14 DEF WestonExits
    <3>15. CASE CommandExits(b)
      BY <3>15 DEF CommandExits
    <3>16. CASE Guards(b)
      BY <3>16 DEF Guards, HelperGoes
    <3>17. CASE OpensX(b)
      BY <3>17 DEF OpensX, HelperGoes
    <3>18. CASE OpensW(b)
      BY <3>18 DEF OpensW, HelperGoes
    <3>19. CASE FlushesW(b)
      BY <3>19 DEF FlushesW, HelperGoes
    <3>20. CASE FlushesX(b)
      BY <3>20 DEF FlushesX, HelperGoes
    <3>21. CASE HelperDies(b)
      BY <3>21 DEF HelperDies
    <3>22. CASE BackendBreaks(b)
      BY <3>22 DEF BackendBreaks
    <3>q. QED
      BY <1>7, <3>1, <3>2, <3>3, <3>4, <3>5, <3>6, <3>7, <3>8, <3>9, <3>10, <3>11, <3>12,
         <3>13, <3>14, <3>15, <3>16, <3>17, <3>18, <3>19, <3>20, <3>21, <3>22
         DEF BackendNext, StartProceeds, HelperProceeds
  <2>3. got' \in [Backends -> [x : Found, w : Found]]
    BY <2>1 DEF ReadInv, NoVars
  <2>4. \A c \in Backends : got'[c].x = c => got[c].x = c
    BY <2>1 DEF ReadInv, NoVars
  <2>5. \A c \in Backends : pc'[c] \in {"readW", "command"} => got'[c] = got[c]
    BY <2>1 DEF ReadInv
  <2>6. \A c \in Backends : pc'[c] = "command" /\ HoldsPort(c)' => HoldsPort(c)
    BY <2>2, HoldKept DEF LifeInv, Launched, Binds
  <2>q. QED
    BY <1>3, <1>4, <2>2, <2>3, <2>4, <2>5, <2>6 DEF ReadInv, DisplayComesWhole
<1>q. QED
  BY <1>5, <1>6, <1>7

-----------------------------------------------------------------------------
(* The theorems.                                                            *)

LEMMA InitInv == Init => WestonInv
<1> SUFFICES ASSUME Init PROVE WestonInv
  OBVIOUS
<1>1. States /\ LifeInv
  BY DEF Init, States, LifeInv, Launched
<1>2. SearchInv
  BY DEF Init, SearchInv
<1>b. BreakInv
  BY ConstantsAssumption, FS_EmptySet DEF Init, BreakInv
<1>3. HoldInv
  BY DEF Init, HoldInv, HoldsPort
<1>4. FilesInv
  BY ConstantsAssumption DEF Init, FilesInv, HoldsPort, Texts
<1>5. ReadInv /\ DisplayComesWhole
  BY ConstantsAssumption DEF Init, ReadInv, DisplayComesWhole, NoVars, Found
<1>q. QED
  BY <1>1, <1>2, <1>b, <1>3, <1>4, <1>5 DEF WestonInv

LEMMA StepInv == WestonInv /\ [Next]_vars => WestonInv'
<1>1. ASSUME WestonInv, NEW b \in Backends, BackendNext(b)
      PROVE  WestonInv'
  <2>1. /\ States /\ LifeInv /\ BreakInv /\ SearchInv /\ HoldInv
        /\ FilesInv /\ ReadInv /\ DisplayComesWhole
    BY <1>1 DEF WestonInv
  <2>2. States' /\ LifeInv'
    BY <1>1, <2>1, LifeStep
  <2>3. SearchInv' /\ BreakInv'
    BY <1>1, <2>1, SearchStep, BreakStep
  <2>4. \A c \in Backends : port[c] \in Ports
    BY <2>1, SearchStops, PortsSuffice
  <2>5. HoldInv' /\ FilesInv' /\ ReadInv' /\ DisplayComesWhole'
    BY <1>1, <2>1, <2>4, HoldStep, FilesStep, ReadStep
  <2>q. QED
    BY <2>2, <2>3, <2>5 DEF WestonInv
<1>2. ASSUME WestonInv, UNCHANGED vars
      PROVE  WestonInv'
  <2> USE <1>2 DEF vars, launchVars, westonVars, helperVars, fileVars
  <2>1. States' /\ LifeInv'
    BY DEF WestonInv, States, LifeInv, Launched
  <2>2. SearchInv' /\ BreakInv'
    BY DEF WestonInv, SearchInv, Lost, TakenByOther, BreakInv
  <2>3. HoldInv'
    BY DEF WestonInv, HoldInv, HoldsPort, WestonRuns, HelperLives
  <2>4. FilesInv' /\ ReadInv' /\ DisplayComesWhole'
    BY DEF WestonInv, FilesInv, ReadInv, DisplayComesWhole, HoldsPort, WestonRuns, HelperLives
  <2>q. QED
    BY <2>1, <2>2, <2>3, <2>4 DEF WestonInv
<1>q. QED
  BY <1>1, <1>2 DEF Next

LEMMA Invariant == Spec => []WestonInv
BY InitInv, StepInv, PTL DEF Spec

\* Type correctness.
THEOREM TypeCorrect == Spec => []TypeOK
<1>1. WestonInv => TypeOK
  BY DEF WestonInv, TypeOK, States, BreakInv, FilesInv, ReadInv
<1>q. QED
  BY <1>1, Invariant, PTL

\* However many backends search at once, each passes at most one port for each
\* foreign one, for each other backend and for each of its Westons that failed for
\* a reason of its own (weston_backend.cpp:19, launch_weston.cpp:61).
THEOREM SearchEnds == Spec => []SearchBounded
<1>1. WestonInv => SearchBounded
  BY SearchStops DEF WestonInv
<1>q. QED
  BY <1>1, Invariant, PTL

\* Who connects to port() reaches this backend's Weston (weston_backend.cpp:48).
THEOREM PortBelongs == Spec => []PortIsOurs
<1>1. WestonInv => PortIsOurs
  BY DEF WestonInv, LifeInv, HoldInv, PortIsOurs, HoldsPort
<1>q. QED
  BY <1>1, Invariant, PTL

\* The two display variables are never this server's and another's
\* (display_vars.cpp:22-41, :43-68).
THEOREM DisplaysPaired == Spec => []DisplayComesWhole
<1>1. WestonInv => DisplayComesWhole
  BY DEF WestonInv
<1>q. QED
  BY <1>1, Invariant, PTL

\* No path out of start_server, and no destructor, leaves a process behind
\* (weston_backend.cpp:27-46).
THEOREM NothingLeftBehind == Spec => []NothingLeft
<1>1. WestonInv => NothingLeft
  BY DEF WestonInv, LifeInv, NothingLeft, Living
<1>q. QED
  BY <1>1, Invariant, PTL

\* The command is never left without its server by its own backend
\* (weston_backend.h:25-26).
THEOREM CommandHasServer == Spec => []CommandInsideServer
<1>1. WestonInv => CommandInsideServer
  BY DEF WestonInv, LifeInv, States, Living, CommandInsideServer
<1>q. QED
  BY <1>1, Invariant, PTL
=============================================================================
