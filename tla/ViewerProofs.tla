---------------------------- MODULE ViewerProofs ----------------------------
(***************************************************************************)
(* Proofs about Viewer, for any number of calls of open().                 *)
(***************************************************************************)
EXTENDS Viewer, FiniteSetTheorems, TLAPS

Accepted == {v \in Viewers : app[v] \notin {"new", "refused"}}

\* The opens num_open stands for: the refused ones, and the viewers whose
\* thread has not given its count back.
Counting ==
  {v \in Viewers : app[v] = "refused"}
    \cup {v \in Accepted : thread[v] \notin {"flag", "done"}}

States ==
  /\ mutex \in Viewers \cup {Nobody}
  /\ quit \in BOOLEAN
  /\ app \in [Viewers -> {"new", "counted", "open", "refused", "closing", "closed",
                          "destroyed"}]
  /\ thread \in [Viewers -> {"none", "started", "initing", "test", "events", "frame",
                             "show", "destroying", "quitting", "uncount", "flag", "done"}]
  /\ exitLoop \in [Viewers -> BOOLEAN] /\ wasClosed \in [Viewers -> BOOLEAN]
  /\ refs \subseteq Viewers
  /\ proc \in {"running", "exited"}

\* A thread runs from open() until close() has joined it, inside the time the
\* viewer holds the client, and was_closed_ is the last thing it sets.
ThreadInv ==
  \A v \in Viewers :
    /\ thread[v] = "none" <=> app[v] \in {"new", "counted", "refused"}
    /\ app[v] \in {"closed", "destroyed"} => thread[v] = "done"
    /\ app[v] \in {"open", "closing", "closed"} => v \in refs
    /\ wasClosed[v] => thread[v] = "done"

\* num_open is exact, and without allow_unsafe at most one viewer is between
\* its open() and its num_open -= 1.
CountInv ==
  /\ numOpen = Cardinality(Counting)
  /\ ~AllowUnsafe => \A v, w \in Counting \cap Accepted : v = w

ViewerInv == States /\ ThreadInv /\ CountInv

-----------------------------------------------------------------------------
(* Facts used below.                                                        *)

LEMMA ViewersFinite ==
  ASSUME NEW S \in SUBSET Viewers
  PROVE  IsFiniteSet(S) /\ Cardinality(S) \in Nat
BY ConstantsAssumption, FS_Subset, FS_CardinalityType

\* A step that moves no viewer in or out of Counting keeps CountInv.
LEMMA CountUnmoved ==
  ASSUME CountInv, UNCHANGED numOpen, Counting' = Counting,
         Accepted' \cap Counting \subseteq Accepted
  PROVE  CountInv'
BY Zenon DEF CountInv

\* Every step of a viewer or of its caller keeps States and ThreadInv.
LEMMA ThreadStep ==
  ASSUME States, ThreadInv, NEW v \in Viewers,
         AppNext(v) \/ ThreadProceeds(v) \/ Fails(v)
  PROVE  States' /\ ThreadInv'
<1> USE DEF States, ThreadInv, AppGoes, ThreadGoes
<1>1. CASE AppNext(v)
  <2>1. CASE OpenCounts(v)
    BY <2>1 DEF OpenCounts
  <2>2. CASE OpenRefused(v)
    BY <2>2 DEF OpenRefused
  <2>3. CASE CloseAsks(v)
    BY <2>3 DEF CloseAsks
  <2>4. CASE OpenStarts(v)
    BY <2>4 DEF OpenStarts
  <2>5. CASE CloseReturns(v)
    BY <2>5 DEF CloseReturns, Joined
  <2>6. CASE Destroy(v)
    BY <2>6 DEF Destroy
  <2>q. QED
    BY <1>1, <2>1, <2>2, <2>3, <2>4, <2>5, <2>6 DEF AppNext, CloseProceeds
<1>2. CASE ThreadProceeds(v)
  <2>1. CASE InitLocks(v)
    BY <2>1 DEF InitLocks
  <2>2. CASE InitReturns(v)
    BY <2>2 DEF InitReturns
  <2>3. CASE LoopTests(v)
    BY <2>3 DEF LoopTests
  <2>4. CASE PollsEvents(v)
    BY <2>4 DEF PollsEvents
  <2>5. CASE GetsFrame(v)
    BY <2>5 DEF GetsFrame
  <2>6. CASE ShowsFrame(v)
    BY <2>6 DEF ShowsFrame
  <2>7. CASE DestroysWindow(v)
    BY <2>7 DEF DestroysWindow
  <2>8. CASE QuitReturns(v)
    BY <2>8 DEF QuitReturns
  <2>9. CASE GivesCountBack(v)
    BY <2>9 DEF GivesCountBack
  <2>10. CASE SaysClosed(v)
    BY <2>10 DEF SaysClosed
  <2>q. QED
    BY <1>2, <2>1, <2>2, <2>3, <2>4, <2>5, <2>6, <2>7, <2>8, <2>9, <2>10 DEF ThreadProceeds
<1>3. CASE Fails(v)
  BY <1>3 DEF Fails
<1>q. QED
  BY <1>1, <1>2, <1>3

\* ... and CountInv.
LEMMA CountStep ==
  ASSUME ViewerInv, NEW v \in Viewers,
         AppNext(v) \/ ThreadProceeds(v) \/ Fails(v)
  PROVE  CountInv'
<1>0. States /\ ThreadInv /\ CountInv
  BY DEF ViewerInv
<1>1. CASE OpenCounts(v)
  <2>1. Counting' = Counting \cup {v} /\ v \notin Counting
    BY <1>0, <1>1 DEF OpenCounts, Counting, Accepted, States, ThreadInv, AppGoes
  <2>2. Counting \in SUBSET Viewers
    BY DEF Counting, Accepted
  <2>3. numOpen' = Cardinality(Counting')
    BY <1>0, <1>1, <2>1, <2>2, ViewersFinite, FS_AddElement DEF OpenCounts, CountInv
  <2>4. ~AllowUnsafe => Counting = {}
    BY <1>0, <1>1, <2>2, ViewersFinite, FS_EmptySet DEF OpenCounts, Accepts, CountInv
  <2>q. QED
    BY <2>1, <2>3, <2>4 DEF CountInv
<1>2. CASE OpenRefused(v)
  <2>1. Counting' = Counting \cup {v} /\ v \notin Counting
    BY <1>0, <1>2 DEF OpenRefused, Counting, Accepted, States, ThreadInv, AppGoes
  <2>2. Counting \in SUBSET Viewers
    BY DEF Counting, Accepted
  <2>3. numOpen' = Cardinality(Counting')
    BY <1>0, <1>2, <2>1, <2>2, ViewersFinite, FS_AddElement DEF OpenRefused, CountInv
  <2>4. Accepted' \cap Counting' \subseteq Accepted \cap Counting
    BY <1>0, <1>2, <2>1 DEF OpenRefused, Counting, Accepted, States, AppGoes
  <2>q. QED
    BY <1>0, <2>3, <2>4, Zenon DEF CountInv
<1>3. CASE GivesCountBack(v)
  <2>1. Counting' = Counting \ {v} /\ v \in Counting
    BY <1>0, <1>3 DEF GivesCountBack, Counting, Accepted, States, ThreadInv, ThreadGoes
  <2>2. Counting \in SUBSET Viewers
    BY DEF Counting, Accepted
  <2>3. numOpen' = Cardinality(Counting')
    BY <1>0, <1>3, <2>1, <2>2, ViewersFinite, FS_RemoveElement DEF GivesCountBack, CountInv
  <2>4. Accepted' \cap Counting' \subseteq Accepted \cap Counting
    BY <1>0, <1>3, <2>1 DEF GivesCountBack, Accepted
  <2>q. QED
    BY <1>0, <2>3, <2>4, Zenon DEF CountInv
<1>4. ASSUME ~OpenCounts(v), ~OpenRefused(v), ~GivesCountBack(v)
      PROVE  UNCHANGED numOpen /\ Counting' = Counting
             /\ Accepted' \cap Counting \subseteq Accepted
  <2>1. CASE CloseAsks(v)
    BY <1>0, <2>1 DEF CloseAsks, Counting, Accepted, States, ThreadInv, AppGoes, ThreadGoes
  <2>2. CASE OpenStarts(v)
    BY <1>0, <2>2 DEF OpenStarts, Counting, Accepted, States, ThreadInv, AppGoes, ThreadGoes
  <2>3. CASE CloseReturns(v)
    BY <1>0, <2>3
       DEF CloseReturns, Joined, Counting, Accepted, States, ThreadInv, AppGoes, ThreadGoes
  <2>4. CASE Destroy(v)
    BY <1>0, <2>4 DEF Destroy, Counting, Accepted, States, ThreadInv, AppGoes, ThreadGoes
  <2>5. CASE InitLocks(v)
    BY <1>0, <2>5 DEF InitLocks, Counting, Accepted, States, ThreadInv, AppGoes, ThreadGoes
  <2>6. CASE InitReturns(v)
    BY <1>0, <2>6 DEF InitReturns, Counting, Accepted, States, ThreadInv, AppGoes, ThreadGoes
  <2>7. CASE LoopTests(v)
    BY <1>0, <2>7 DEF LoopTests, Counting, Accepted, States, ThreadInv, AppGoes, ThreadGoes
  <2>8. CASE PollsEvents(v)
    BY <1>0, <2>8 DEF PollsEvents, Counting, Accepted, States, ThreadInv, AppGoes, ThreadGoes
  <2>9. CASE GetsFrame(v)
    BY <1>0, <2>9 DEF GetsFrame, Counting, Accepted, States, ThreadInv, AppGoes, ThreadGoes
  <2>10. CASE ShowsFrame(v)
    BY <1>0, <2>10 DEF ShowsFrame, Counting, Accepted, States, ThreadInv, AppGoes, ThreadGoes
  <2>11. CASE DestroysWindow(v)
    BY <1>0, <2>11 DEF DestroysWindow, Counting, Accepted, States, ThreadInv, AppGoes, ThreadGoes
  <2>12. CASE QuitReturns(v)
    BY <1>0, <2>12 DEF QuitReturns, Counting, Accepted, States, ThreadInv, AppGoes, ThreadGoes
  <2>13. CASE SaysClosed(v)
    BY <1>0, <2>13 DEF SaysClosed, Counting, Accepted, States, ThreadInv, AppGoes, ThreadGoes
  <2>14. CASE Fails(v)
    BY <1>0, <2>14 DEF Fails, Counting, Accepted, States, ThreadInv, AppGoes, ThreadGoes
  <2>q. QED
    BY <1>4, <2>1, <2>2, <2>3, <2>4, <2>5, <2>6, <2>7, <2>8, <2>9, <2>10, <2>11, <2>12, <2>13, <2>14
       DEF AppNext, CloseProceeds, ThreadProceeds
<1>q. QED
  BY <1>0, <1>1, <1>2, <1>3, <1>4, CountUnmoved

\* The user's step and stuttering move no viewer.
LEMMA OtherStep ==
  ASSUME ViewerInv, UserCloses \/ UNCHANGED vars
  PROVE  ViewerInv'
<1>1. States'
  BY DEF ViewerInv, States, UserCloses, vars
<1>2. ThreadInv'
  BY DEF ViewerInv, ThreadInv, UserCloses, vars
<1>3. UNCHANGED numOpen /\ Counting' = Counting /\ Accepted' = Accepted
  BY DEF Counting, Accepted, UserCloses, vars
<1>q. QED
  BY <1>1, <1>2, <1>3, CountUnmoved DEF ViewerInv

LEMMA ViewerInvInit == Init => ViewerInv
<1> SUFFICES ASSUME Init PROVE ViewerInv
  OBVIOUS
<1>1. States /\ ThreadInv
  BY DEF Init, States, ThreadInv
<1>2. Counting = {}
  BY DEF Init, Counting, Accepted
<1>q. QED
  BY <1>1, <1>2, FS_EmptySet DEF ViewerInv, CountInv, Init

\* ViewerInv holds throughout.
THEOREM ViewerInvariant == Spec => []ViewerInv
<1>1. ViewerInv /\ [Next]_vars => ViewerInv'
  <2> SUFFICES ASSUME ViewerInv, [Next]_vars PROVE ViewerInv'
    OBVIOUS
  <2>1. CASE \E v \in Viewers : AppNext(v) \/ ThreadProceeds(v) \/ Fails(v)
    BY <2>1, ThreadStep, CountStep DEF ViewerInv
  <2>2. CASE UserCloses \/ UNCHANGED vars
    BY <2>2, OtherStep
  <2>q. QED
    BY <2>1, <2>2 DEF Next, Step, Stopped
<1>q. QED
  BY <1>1, ViewerInvInit, PTL DEF Spec

-----------------------------------------------------------------------------
(* The properties.                                                          *)

\* Every variable stays in its type; num_open is never negative.
THEOREM TypeCorrect == Spec => []TypeOK
<1>1. ViewerInv => TypeOK
  <2> SUFFICES ASSUME ViewerInv PROVE TypeOK
    OBVIOUS
  <2>1. Counting \in SUBSET Viewers
    BY DEF Counting, Accepted
  <2>2. numOpen \in Nat
    BY <2>1, ViewersFinite DEF ViewerInv, CountInv
  <2>q. QED
    BY <2>2 DEF ViewerInv, States, TypeOK
<1>q. QED
  BY <1>1, ViewerInvariant, PTL

\* A viewer's thread only asks a client that is alive for a frame.
THEOREM ThreadKeepsClient == Spec => []ThreadHoldsClient
<1>1. ViewerInv => ThreadHoldsClient
  BY DEF ViewerInv, States, ThreadInv, ThreadHoldsClient
<1>q. QED
  BY <1>1, ViewerInvariant, PTL

\* num_open counts no viewer that has said it was closed.
THEOREM CountGivenBack == Spec => []ClosedGivesPlace
<1>1. ViewerInv => ClosedGivesPlace
  <2> SUFFICES ASSUME ViewerInv PROVE ClosedGivesPlace
    OBVIOUS
  <2> DEFINE R == {v \in Viewers : app[v] = "refused"}
             O == {v \in Viewers : app[v] \notin {"new", "refused"} /\ ~wasClosed[v]}
  <2>1. R \in SUBSET Viewers /\ O \in SUBSET Viewers /\ Counting \in SUBSET Viewers
        /\ R \cap O = {}
    BY DEF Counting, Accepted
  <2>2. Counting \subseteq R \cup O
    BY DEF ViewerInv, States, ThreadInv, Counting, Accepted
  <2> HIDE DEF R, O
  <2>3. Cardinality(R \cup O) = Cardinality(R) + Cardinality(O)
    <3>1. IsFiniteSet(R) /\ IsFiniteSet(O) /\ Cardinality(R) \in Nat /\ Cardinality(O) \in Nat
      BY <2>1, ViewersFinite
    <3>2. Cardinality(R \cup O) = Cardinality(R) + Cardinality(O) - Cardinality(R \cap O)
      BY <3>1, FS_Union
    <3>q. QED
      BY <2>1, <3>1, <3>2, FS_EmptySet
  <2>4. Cardinality(Counting) <= Cardinality(R \cup O)
    <3>1. R \cup O \in SUBSET Viewers
      BY <2>1
    <3>2. IsFiniteSet(R \cup O)
      BY <3>1, ViewersFinite
    <3>q. QED
      BY <2>2, <3>2, FS_Subset
  <2>5. numOpen <= Cardinality(R) + Cardinality(O)
    BY <2>3, <2>4 DEF ViewerInv, CountInv
  <2>q. QED
    BY <2>5 DEF ClosedGivesPlace, R, O
<1>q. QED
  BY <1>1, ViewerInvariant, PTL

\* Without allow_unsafe, SDL_Init and SDL_Quit of two viewers never overlap,
\* although SDL_Quit is not under sdl_init_mu: num_open keeps them apart.
THEOREM SdlCallsApart ==
  ASSUME ~AllowUnsafe
  PROVE  Spec => []InitAndQuitApart
<1>1. ViewerInv => InitAndQuitApart
  BY DEF ViewerInv, ThreadInv, States, CountInv, Counting, Accepted, InitAndQuitApart
<1>q. QED
  BY <1>1, ViewerInvariant, PTL
=============================================================================
