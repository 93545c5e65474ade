---------------------------- MODULE ClientProofs ----------------------------
(***************************************************************************)
(* Proofs about Client, for any number of callers, buffers and sizes.      *)
(***************************************************************************)
EXTENDS Client, FiniteSetTheorems, SequenceTheorems, TLAPS

-----------------------------------------------------------------------------
(* Type correctness.  num_open stays a natural number because it counts     *)
(* this client while it is open, and a queued input source belongs to a     *)
(* thread that makes input calls.                                           *)

InputCallers == \A u \in Users : call[u] = "input" => u \in InputUsers

TypeInv == TypeOK /\ OpenCountRestored /\ InputCallers

LEMMA TypeInit == Init => TypeInv
<1> SUFFICES ASSUME Init PROVE TypeInv
  OBVIOUS
<1>1. /\ initialized \in BOOLEAN /\ exit \in BOOLEAN /\ exited \in BOOLEAN
      /\ wakeup \in BOOLEAN /\ cptr \in BOOLEAN
  BY Zenon DEF Init
<1> QED
  BY <1>1, ConstantsAssumption DEF Init, TypeInv, TypeOK, OpenCountRestored, InputCallers

LEMMA TypeNext == TypeInv /\ [Next]_vars => TypeInv'
<1> SUFFICES ASSUME TypeInv, [Next]_vars PROVE TypeInv'
  OBVIOUS
<1> USE ConstantsAssumption DEF TypeInv, TypeOK, OpenCountRestored, InputCallers,
                               ownerVars, flagVars, ctxVars, netVars, fbVars, userVars
<1>1. CASE StartConnect BY <1>1 DEF StartConnect
<1>2. CASE ConnectRejected BY <1>2 DEF ConnectRejected
<1>3. CASE ConnectReturns BY <1>3 DEF ConnectReturns
<1>4. CASE ConnectTimesOut BY <1>4 DEF ConnectTimesOut
<1>5. CASE BeginDestroy BY <1>5 DEF BeginDestroy
<1>6. CASE DestroyReadsConn BY <1>6 DEF DestroyReadsConn
<1>7. CASE DestroyShutdown
  <2>1. CASE conn = "freed" BY <1>7, <2>1 DEF DestroyShutdown
  <2>2. CASE conn # "freed" BY <1>7, <2>2 DEF DestroyShutdown
  <2> QED BY <2>1, <2>2
<1>8. CASE DestroyWakes BY <1>8 DEF DestroyWakes
<1>9. CASE DestroyReturns BY <1>9 DEF DestroyReturns, Joined
<1>10. CASE LoopStarts BY <1>10 DEF LoopStarts
<1>11. CASE LoopIterates BY <1>11 DEF LoopIterates
<1>12. CASE LoopWakes
  <2>1. wakeup' \in BOOLEAN BY <1>12, Zenon DEF LoopWakes
  <2> QED BY <1>12, <2>1 DEF LoopWakes
<1>13. CASE LoopIterationEnds BY <1>13 DEF LoopIterationEnds
<1>14. CASE HandleInitialized BY <1>14 DEF HandleInitialized, Dispatch, Resize, Malloc, Ask, AskAfterResize
<1>15. CASE HandleClosed BY <1>15 DEF HandleClosed, Dispatch
<1>16. CASE HandleUpdate
  <2>1. down' \in Seq(Message)
    BY <1>16 DEF HandleUpdate
  <2>2. pending # <<>> => Head(pending) \in Users /\ Tail(pending) \in Seq(FrameUsers)
    OBVIOUS
  <2>3. CASE pending = <<>>
    BY <1>16, <2>1, <2>3 DEF HandleUpdate, Dispatch, FbUpdate
  <2>4. CASE pending # <<>>
    <3>1. PICK b \in Buffers \ heap :
            /\ frame' = [frame EXCEPT ![Head(pending)] = fb]
            /\ pending' = Tail(pending)
            /\ fb' = b /\ heap' = heap \cup {b}
      BY <1>16, <2>4 DEF HandleUpdate, FbUpdate, MoveFrame, Malloc
    <3>2. /\ frame' \in [Users -> Buffers \cup {NoBuf}] /\ pending' \in Seq(FrameUsers)
          /\ fb' \in Buffers /\ heap' \subseteq Buffers
      BY <2>2, <2>4, <3>1
    <3> QED BY <1>16, <2>1, <3>2 DEF HandleUpdate, Dispatch
  <2> QED BY <2>3, <2>4
<1>17. CASE HandleResize
  <2>1. down' \in Seq(Message) /\ Head(down) \in Message
    BY <1>17 DEF HandleResize
  <2>2. Head(down).size \in Sizes
    BY <2>1 DEF Message
  <2>3. asked' \in Nat
    BY <1>17 DEF HandleResize, Resize, Ask, AskAfterResize
  <2>4. fb' \in Buffers \cup {NoBuf} /\ fbSize' \in Sizes /\ heap' \subseteq Buffers
    BY <1>17, <2>2 DEF HandleResize, Resize, Malloc
  <2>5. loop' = "ran" /\ ctx' = ctx /\ wakeup' \in BOOLEAN
    BY <1>17 DEF HandleResize, Dispatch
  <2> QED BY <1>17, <2>1, <2>3, <2>4, <2>5 DEF HandleResize
<1>18. CASE RunFrameSource BY <1>18 DEF RunFrameSource, Dispatch, RequestFrame, Ask
<1>19. CASE RunInputSource
  <2>1. Head(inputSources) \in InputUsers /\ inputSources' \in Seq(InputUsers)
    BY <1>19 DEF RunInputSource
  <2>2. sent' \in Seq(Event)
    <3> DEFINE e == [user |-> Head(inputSources), no |-> issued[Head(inputSources)]]
    <3>1. e \in Event
      BY <2>1 DEF Event
    <3>2. sent' = Append(sent, e) \/ sent' = sent
      BY <1>19 DEF RunInputSource, DoInput
    <3> HIDE DEF e
    <3>3. e \in Event => Append(sent, e) \in Seq(Event)
      BY AppendProperties
    <3> QED BY <3>1, <3>2, <3>3
  <2>3. /\ pc' \in [Users -> {"idle", "invoke", "direct", "waiting", "answered"}]
        /\ proc' \in {"running", "fatal", "crashed"}
    BY <1>19, <2>1 DEF RunInputSource, DoInput
  <2>4. loop' = "ran" /\ ctx' = ctx /\ wakeup' \in BOOLEAN
    BY <1>19 DEF RunInputSource, Dispatch
  <2>5. UNCHANGED <<ownerVars, flagVars, frameSources, cptr, conn, asked, down, desk, told,
                    resizes, fbVars, call, issued, calls, pending, frame>>
    BY <1>19 DEF RunInputSource
  <2> QED BY <2>1, <2>2, <2>3, <2>4, <2>5
<1>20. CASE LoopLeaves BY <1>20 DEF LoopLeaves
<1>21. CASE LoopUnrefs BY <1>21 DEF LoopUnrefs
<1>22. CASE LoopReleases
  <2>1. cptr' \in BOOLEAN BY <1>22, Zenon DEF LoopReleases
  <2> QED BY <1>22, <2>1 DEF LoopReleases
<1>23. CASE LoopExits BY <1>23 DEF LoopExits
<1>24. ASSUME NEW u \in FrameUsers, GetFrame(u) PROVE TypeInv'
  <2>1. pending' \in Seq(FrameUsers)
    BY <1>24 DEF GetFrame
  <2>2. heap' \subseteq Buffers /\ frame' \in [Users -> Buffers \cup {NoBuf}]
    BY <1>24 DEF GetFrame, DropFrame
  <2> QED BY <1>24, <2>1, <2>2 DEF GetFrame
<1>25. ASSUME NEW u \in InputUsers, SendInput(u) PROVE TypeInv'
  BY <1>25 DEF SendInput
<1>26. ASSUME NEW u \in Users, InvokeTakesContext(u) PROVE TypeInv'
  BY <1>26 DEF InvokeTakesContext
<1>27. ASSUME NEW u \in Users, InvokeRuns(u) PROVE TypeInv'
  <2>1. sent' \in Seq(Event)
    <3> DEFINE e == [user |-> u, no |-> issued[u]]
    <3>1. call[u] = "input" => e \in Event
      BY DEF Event
    <3>2. (call[u] = "input" /\ sent' = Append(sent, e)) \/ sent' = sent
      BY <1>27 DEF InvokeRuns, DoInput
    <3> HIDE DEF e
    <3>3. e \in Event => Append(sent, e) \in Seq(Event)
      BY AppendProperties
    <3> QED BY <3>1, <3>2, <3>3
  <2>2. /\ pc' \in [Users -> {"idle", "invoke", "direct", "waiting", "answered"}]
        /\ proc' \in {"running", "fatal", "crashed"}
    BY <1>27 DEF InvokeRuns, DoInput
  <2>3. asked' \in Nat
    BY <1>27 DEF InvokeRuns, RequestFrame, Ask
  <2> QED BY <1>27, <2>1, <2>2, <2>3 DEF InvokeRuns
<1>28. ASSUME NEW u \in Users, InvokeQueues(u) PROVE TypeInv'
  <2>1. inputSources' \in Seq(InputUsers)
    <3>1. CASE call[u] = "frame" BY <1>28, <3>1 DEF InvokeQueues
    <3>2. CASE call[u] = "input"
      <4>1. u \in InputUsers BY <3>2
      <4>2. inputSources' = Append(inputSources, u) BY <1>28, <3>2 DEF InvokeQueues
      <4> QED BY <4>1, <4>2
    <3> QED BY <3>1, <3>2, AppendProperties
  <2>2. /\ pc' \in [Users -> {"idle", "invoke", "direct", "waiting", "answered"}]
        /\ frameSources' \in Nat /\ wakeup' \in BOOLEAN
    BY <1>28 DEF InvokeQueues, AfterQueueing
  <2>3. UNCHANGED <<ownerVars, flagVars, loop, ctx, netVars, fbVars, call, issued, calls,
                    pending, frame, proc>>
    BY <1>28 DEF InvokeQueues
  <2> QED BY <2>1, <2>2, <2>3
<1>29. ASSUME NEW u \in Users, Return(u) PROVE TypeInv'
  BY <1>29 DEF Return
<1>30. ASSUME NEW u \in Users, GetFrameTimesOut(u) PROVE TypeInv'
  BY <1>30 DEF GetFrameTimesOut
<1>31. CASE ServerUpdates BY <1>31 DEF ServerUpdates, Answerable, Message
<1>32. CASE ServerTellsSize BY <1>32 DEF ServerTellsSize, Message
<1>33. CASE DesktopResizes BY <1>33 DEF DesktopResizes
<1>34. CASE ServerHangsUp BY <1>34 DEF ServerHangsUp
<1>35. CASE UNCHANGED vars BY <1>35 DEF vars
<1> QED
  BY <1>1, <1>2, <1>3, <1>4, <1>5, <1>6, <1>7, <1>8, <1>9, <1>10, <1>11, <1>12, <1>13,
     <1>14, <1>15, <1>16, <1>17, <1>18, <1>19, <1>20, <1>21, <1>22, <1>23, <1>24, <1>25,
     <1>26, <1>27, <1>28, <1>29, <1>30, <1>31, <1>32, <1>33, <1>34, <1>35
  DEF Next, Stopped, OwnerNext, LoopNext, UserNext, CallProceeds, ServerNext, ServerAnswers

\* The state stays in its types, whatever the callers, the loop, the owner and
\* the server do and in whatever order.
THEOREM TypeCorrect == Spec => []TypeOK
<1>1. TypeInv => TypeOK
  BY DEF TypeInv
<1> QED BY <1>1, TypeInit, TypeNext, PTL DEF Spec

\* num_open counts this client exactly from connect to its destructor, also
\* when connect fails or is rejected.
THEOREM CountBalanced == Spec => []OpenCountRestored
<1>1. TypeInv => OpenCountRestored
  BY DEF TypeInv
<1> QED BY <1>1, TypeInit, TypeNext, PTL DEF Spec

-----------------------------------------------------------------------------
(* The life of the loop thread.  A context that is held is held by the loop  *)
(* in an iteration or by a caller in a callback, callers are only in a call  *)
(* while the client is open, and the thread clears up before it ends.        *)

\* A queued input source is that of a caller who waits for it.
SourcesWait ==
  /\ \A i \in DOMAIN inputSources :
       InInput(inputSources[i]) /\ pc[inputSources[i]] = "waiting"
  /\ \A i, j \in DOMAIN inputSources : i # j => inputSources[i] # inputSources[j]

LifeInv ==
  /\ SourcesWait
  /\ LoopInsideObject
  /\ owner = "new" => loop = "none"
  /\ loop = "none" => fb = NoBuf
  /\ loop \in {"none", "setup"} => conn = "none" /\ ~cptr /\ owner # "shutting"
  /\ loop \in {"released", "done"} => fb = NoBuf /\ ~cptr
  /\ ctx = "loop" => loop \in {"poll", "ran"}
  /\ ctx = "user" => \E u \in Users : pc[u] = "direct"
  /\ \A u \in Users : pc[u] # "idle" => owner = "open"

LEMMA LifeInit == Init => LifeInv
BY DEF Init, LifeInv, LoopInsideObject, SourcesWait

LEMMA LifeNext == TypeInv /\ LifeInv /\ [Next]_vars => LifeInv'
<1> SUFFICES ASSUME TypeInv, LifeInv, [Next]_vars PROVE LifeInv'
  OBVIOUS
<1> USE ConstantsAssumption DEF LifeInv, LoopInsideObject, SourcesWait, InInput, ownerVars, flagVars, ctxVars,
                                netVars, fbVars, userVars
<1>0. /\ pc \in [Users -> {"idle", "invoke", "direct", "waiting", "answered"}]
      /\ call \in [Users -> {"frame", "input"}] /\ inputSources \in Seq(InputUsers)
      /\ ctx \in {"free", "loop", "user"}
  BY DEF TypeInv, TypeOK
<1>1. CASE StartConnect BY <1>1 DEF StartConnect
<1>2. CASE ConnectRejected BY <1>2 DEF ConnectRejected
<1>3. CASE ConnectReturns BY <1>3 DEF ConnectReturns
<1>4. CASE ConnectTimesOut BY <1>4 DEF ConnectTimesOut
<1>5. CASE BeginDestroy BY <1>5 DEF BeginDestroy
<1>6. CASE DestroyReadsConn BY <1>6 DEF DestroyReadsConn
<1>7. CASE DestroyShutdown BY <1>7 DEF DestroyShutdown
<1>8. CASE DestroyWakes BY <1>8 DEF DestroyWakes
<1>9. CASE DestroyReturns BY <1>0, <1>9 DEF DestroyReturns, Joined
<1>10. CASE LoopStarts BY <1>10 DEF LoopStarts
<1>11. CASE LoopIterates BY <1>11 DEF LoopIterates
<1>12. CASE LoopWakes BY <1>12 DEF LoopWakes
<1>13. CASE LoopIterationEnds BY <1>13 DEF LoopIterationEnds
<1>14. CASE HandleInitialized
  BY <1>14 DEF HandleInitialized, Dispatch, Resize, Ask, AskAfterResize
<1>15. CASE HandleClosed BY <1>15 DEF HandleClosed, Dispatch
<1>16. CASE HandleUpdate BY <1>16 DEF HandleUpdate, Dispatch, FbUpdate, MoveFrame, Malloc
<1>17. CASE HandleResize BY <1>17 DEF HandleResize, Dispatch, Resize, Ask, AskAfterResize
<1>18. CASE RunFrameSource BY <1>18 DEF RunFrameSource, Dispatch, RequestFrame, Ask
<1>19. CASE RunInputSource
  BY <1>0, <1>19 DEF RunInputSource, Dispatch, DoInput
<1>20. CASE LoopLeaves BY <1>20 DEF LoopLeaves
<1>21. CASE LoopUnrefs BY <1>21 DEF LoopUnrefs
<1>22. CASE LoopReleases BY <1>22 DEF LoopReleases
<1>23. CASE LoopExits BY <1>23 DEF LoopExits
<1>24. ASSUME NEW u \in FrameUsers, GetFrame(u) PROVE LifeInv'
  BY <1>0, <1>24 DEF GetFrame
<1>25. ASSUME NEW u \in InputUsers, SendInput(u) PROVE LifeInv'
  BY <1>0, <1>25 DEF SendInput
<1>26. ASSUME NEW u \in Users, InvokeTakesContext(u) PROVE LifeInv'
  BY <1>0, <1>26 DEF InvokeTakesContext
<1>27. ASSUME NEW u \in Users, InvokeRuns(u) PROVE LifeInv'
  BY <1>0, <1>27 DEF InvokeRuns, DoInput
<1>28. ASSUME NEW u \in Users, InvokeQueues(u) PROVE LifeInv'
  <2>1. CASE call[u] = "frame"
    BY <1>0, <1>28, <2>1 DEF InvokeQueues, AfterQueueing
  <2>2. CASE call[u] = "input"
    <3>1. /\ inputSources' = Append(inputSources, u)
          /\ pc' = [pc EXCEPT ![u] = "waiting"] /\ call' = call
      BY <1>28, <2>2 DEF InvokeQueues, AfterQueueing
    <3>2. \A i \in DOMAIN inputSources : inputSources[i] # u /\ inputSources'[i] = inputSources[i]
      BY <1>0, <1>28, <3>1 DEF InvokeQueues
    <3>3. SourcesWait'
      BY <1>0, <2>2, <3>1, <3>2
    <3> QED BY <1>0, <1>28, <3>1, <3>3 DEF InvokeQueues
  <2> QED BY <1>0, <2>1, <2>2
<1>29. ASSUME NEW u \in Users, Return(u) PROVE LifeInv'
  BY <1>0, <1>29 DEF Return
<1>30. ASSUME NEW u \in Users, GetFrameTimesOut(u) PROVE LifeInv'
  BY <1>30 DEF GetFrameTimesOut
<1>31. CASE ServerUpdates BY <1>31 DEF ServerUpdates, Answerable
<1>32. CASE ServerTellsSize BY <1>32 DEF ServerTellsSize
<1>33. CASE DesktopResizes BY <1>33 DEF DesktopResizes
<1>34. CASE ServerHangsUp BY <1>34 DEF ServerHangsUp
<1>35. CASE UNCHANGED vars BY <1>35 DEF vars
<1> QED
  BY <1>1, <1>2, <1>3, <1>4, <1>5, <1>6, <1>7, <1>8, <1>9, <1>10, <1>11, <1>12, <1>13,
     <1>14, <1>15, <1>16, <1>17, <1>18, <1>19, <1>20, <1>21, <1>22, <1>23, <1>24,
     <1>25, <1>26, <1>27, <1>28, <1>29, <1>30, <1>31, <1>32, <1>33, <1>34, <1>35
  DEF Next, Stopped, OwnerNext, LoopNext, UserNext, CallProceeds, ServerNext, ServerAnswers

\* The loop thread never outlives the client, and a destroyed client leaves
\* neither framebuffer nor connection behind.
THEOREM LoopJoined == Spec => []LoopInsideObject
<1>1. LifeInv => LoopInsideObject
  BY DEF LifeInv
<1> QED BY <1>1, TypeInit, TypeNext, LifeInit, LifeNext, PTL DEF Spec

\* The destructor has set exit_ once it waits, and exit_ stays set.
ExitInv == owner \in {"exiting", "shutting", "waking", "waiting", "destroyed"} => exit

LEMMA WakeupNext == TypeInv /\ LifeInv /\ ExitInv /\ WakeupNotLost /\ [Next]_vars
                      => ExitInv' /\ WakeupNotLost'
<1> SUFFICES ASSUME TypeInv, LifeInv, ExitInv, WakeupNotLost, [Next]_vars
             PROVE  ExitInv' /\ WakeupNotLost'
  OBVIOUS
<1> USE DEF ExitInv, WakeupNotLost, Pending, ownerVars, flagVars, ctxVars, netVars, fbVars, userVars
<1>0. /\ exit \in BOOLEAN /\ wakeup \in BOOLEAN /\ frameSources \in Nat
      /\ inputSources \in Seq(InputUsers)
      /\ owner = "waiting" => \A u \in Users : pc[u] = "idle"
  BY DEF TypeInv, TypeOK, LifeInv
\* Nothing of what ends an iteration is taken away.
<1>1. ASSUME owner' = owner \/ owner' # "waiting", loop' = loop \/ loop' # "poll",
             UNCHANGED <<frameSources, inputSources, down>>,
             exit' = exit \/ exit', owner' = owner \/ exit' \/ owner' \in {"starting", "rejected", "open", "failed"},
             wakeup => wakeup', conn' = conn \/ conn' = "dropped" \/ owner # "waiting"
      PROVE  ExitInv' /\ WakeupNotLost'
  BY <1>0, <1>1
<1>2. CASE StartConnect \/ ConnectRejected \/ ConnectReturns \/ ConnectTimesOut
  BY <1>0, <1>2 DEF StartConnect, ConnectRejected, ConnectReturns, ConnectTimesOut
<1>3. CASE BeginDestroy \/ DestroyReadsConn \/ DestroyReturns
  BY <1>0, <1>3 DEF BeginDestroy, DestroyReadsConn, DestroyReturns
<1>4. CASE DestroyShutdown
  BY <1>0, <1>4 DEF DestroyShutdown
<1>5. CASE DestroyWakes
  BY <1>0, <1>5 DEF DestroyWakes
<1>6. CASE LoopIterates
  BY <1>0, <1>6 DEF LoopIterates
<1>7. CASE LoopStarts \/ LoopWakes \/ LoopIterationEnds \/ LoopLeaves
  BY <1>0, <1>7 DEF LoopStarts, LoopWakes, LoopIterationEnds, LoopLeaves
<1>8. CASE LoopUnrefs \/ LoopReleases \/ LoopExits
  BY <1>0, <1>8 DEF LoopUnrefs, LoopReleases, LoopExits
<1>9. CASE HandleInitialized \/ HandleClosed \/ HandleUpdate \/ HandleResize \/ RunFrameSource \/ RunInputSource
  <2>1. loop' = "ran" /\ owner' = owner /\ exit' = exit
    BY <1>9 DEF HandleInitialized, HandleClosed, HandleUpdate, HandleResize, RunFrameSource,
                RunInputSource, Dispatch
  <2> QED BY <1>0, <2>1
<1>10. ASSUME NEW u \in Users, owner = "waiting"
       PROVE  ~(InvokeTakesContext(u) \/ InvokeRuns(u) \/ InvokeQueues(u) \/ Return(u) \/ GetFrameTimesOut(u))
  BY <1>0, <1>10 DEF InvokeTakesContext, InvokeRuns, InvokeQueues, Return, GetFrameTimesOut
<1>11. ASSUME NEW u \in Users,
              InvokeTakesContext(u) \/ InvokeRuns(u) \/ InvokeQueues(u) \/ Return(u) \/ GetFrameTimesOut(u)
       PROVE  ExitInv' /\ WakeupNotLost'
  <2>1. UNCHANGED <<owner, exit>>
    BY <1>11 DEF InvokeTakesContext, InvokeRuns, InvokeQueues, Return, GetFrameTimesOut
  <2> QED BY <1>10, <1>11, <2>1
<1>12. ASSUME NEW u \in Users, GetFrame(u) \/ SendInput(u) PROVE ExitInv' /\ WakeupNotLost'
  BY <1>0, <1>12 DEF GetFrame, SendInput
<1>13. CASE ServerUpdates \/ ServerTellsSize
  <2>1. down' # <<>> /\ UNCHANGED <<owner, exit>>
    BY <1>13 DEF ServerUpdates, ServerTellsSize, TypeInv, TypeOK
  <2> QED BY <1>0, <2>1
<1>14. CASE DesktopResizes \/ ServerHangsUp
  BY <1>0, <1>14 DEF DesktopResizes, ServerHangsUp
<1>15. CASE UNCHANGED vars
  BY <1>0, <1>15 DEF vars
<1> QED
  BY ConstantsAssumption, <1>2, <1>3, <1>4, <1>5, <1>6, <1>7, <1>8, <1>9, <1>11, <1>12, <1>13, <1>14, <1>15
  DEF Next, Stopped, OwnerNext, LoopNext, UserNext, CallProceeds, ServerNext, ServerAnswers

\* The wakeup of the destructor reaches a loop thread that would otherwise poll for
\* good, wherever that thread is when it is sent (client.cpp:123-138, 246).
THEOREM LoopIsWoken == Spec => []WakeupNotLost
<1>1. Init => ExitInv /\ WakeupNotLost
  BY DEF Init, ExitInv, WakeupNotLost
<1> QED BY <1>1, TypeInit, TypeNext, LifeInit, LifeNext, WakeupNext, PTL DEF Spec

-----------------------------------------------------------------------------
(* The ownership of pixel buffers.                                           *)

\* Each promise in pending_requests_ is that of a caller who waits for it and
\* has no frame yet, and no caller has two.
PromisesWait ==
  /\ \A i \in DOMAIN pending :
       InGetFrame(pending[i]) /\ frame[pending[i]] = NoBuf
  /\ \A i, j \in DOMAIN pending : i # j => pending[i] # pending[j]

\* libgvnc can deliver an update only while there is a framebuffer.
FramebufferInstalled ==
  /\ Writable => fb # NoBuf
  /\ loop \in {"unreffed", "released", "done"} => conn = "freed"

OwnershipInv == BuffersOwned /\ PromisesWait /\ FramebufferInstalled

LEMMA OwnershipInit == Init => OwnershipInv
BY DEF Init, OwnershipInv, BuffersOwned, PromisesWait, FramebufferInstalled, Writable

LEMMA OwnershipNext == TypeInv /\ LifeInv /\ OwnershipInv /\ [Next]_vars => OwnershipInv'
<1> SUFFICES ASSUME TypeInv, LifeInv, OwnershipInv, [Next]_vars PROVE OwnershipInv'
  OBVIOUS
<1> USE ConstantsAssumption DEF OwnershipInv, BuffersOwned, PromisesWait, InGetFrame,
                                FramebufferInstalled, Writable, ownerVars, flagVars,
                                ctxVars, netVars, fbVars, userVars
<1>0. /\ pc \in [Users -> {"idle", "invoke", "direct", "waiting", "answered"}]
      /\ call \in [Users -> {"frame", "input"}] /\ pending \in Seq(FrameUsers)
      /\ frame \in [Users -> Buffers \cup {NoBuf}] /\ fb \in Buffers \cup {NoBuf}
      /\ heap \subseteq Buffers
  BY DEF TypeInv, TypeOK
<1>1. CASE StartConnect BY <1>1 DEF StartConnect
<1>2. CASE ConnectRejected BY <1>2 DEF ConnectRejected
<1>3. CASE ConnectReturns BY <1>3 DEF ConnectReturns
<1>4. CASE ConnectTimesOut BY <1>4 DEF ConnectTimesOut
<1>5. CASE BeginDestroy BY <1>5 DEF BeginDestroy
<1>6. CASE DestroyReadsConn BY <1>6 DEF DestroyReadsConn
<1>7. CASE DestroyShutdown BY <1>7 DEF DestroyShutdown
<1>8. CASE DestroyWakes BY <1>8 DEF DestroyWakes
<1>9. CASE DestroyReturns BY <1>9 DEF DestroyReturns
<1>10. CASE LoopStarts BY <1>10 DEF LoopStarts
<1>11. CASE LoopIterates BY <1>11 DEF LoopIterates
<1>12. CASE LoopWakes BY <1>12 DEF LoopWakes
<1>13. CASE LoopIterationEnds BY <1>13 DEF LoopIterationEnds
<1>14. CASE HandleInitialized
  <2>1. CASE SameSize(desk)
    BY <1>0, <1>14, <2>1 DEF HandleInitialized, Dispatch, Resize, SameSize
  <2>2. CASE ~SameSize(desk)
    <3>1. PICK b \in Buffers \ (heap \ {fb}) : fb' = b /\ heap' = (heap \ {fb}) \cup {b}
      BY <1>14, <2>2 DEF HandleInitialized, Resize, Malloc
    <3> QED BY <1>0, <1>14, <3>1 DEF HandleInitialized, Dispatch
  <2> QED BY <2>1, <2>2
<1>15. CASE HandleClosed BY <1>15 DEF HandleClosed, Dispatch
<1>16. CASE HandleUpdate
  <2>1. CASE pending = <<>>
    BY <1>0, <1>16, <2>1 DEF HandleUpdate, Dispatch, FbUpdate
  <2>2. CASE pending # <<>>
    <3> DEFINE h == Head(pending)
    <3>1. PICK b \in Buffers \ heap :
            /\ frame' = [frame EXCEPT ![h] = fb] /\ pending' = Tail(pending)
            /\ fb' = b /\ heap' = heap \cup {b}
      BY <1>16, <2>2 DEF HandleUpdate, FbUpdate, MoveFrame, Malloc
    <3>2. h = pending[1] /\ h \in Users /\ frame[h] = NoBuf /\ fb # NoBuf /\ fb \in heap
      BY <1>0, <1>16, <2>2 DEF HandleUpdate
    <3>3. BuffersOwned'
      BY <1>0, <3>1, <3>2
    <3>4. PromisesWait'
      <4>1. \A i \in DOMAIN pending' :
              i + 1 \in DOMAIN pending /\ pending'[i] = pending[i + 1] /\ pending'[i] # h
        BY <1>0, <2>2, <3>1, <3>2
      <4>2. /\ call' = call /\ pc' = pc
            /\ \A u \in Users : u # h => frame'[u] = frame[u]
            /\ \A i \in DOMAIN pending : pending[i] \in Users
        BY <1>0, <1>16, <3>1, <3>2, ConstantsAssumption DEF HandleUpdate
      <4>3. \A i \in DOMAIN pending' :
              /\ call'[pending'[i]] = "frame" /\ pc'[pending'[i]] # "idle"
              /\ frame'[pending'[i]] = NoBuf
        BY <4>1, <4>2
      <4>4. \A i, j \in DOMAIN pending' : i # j => pending'[i] # pending'[j]
        <5>1. \A i, j \in DOMAIN pending' : i # j => i + 1 # j + 1
          BY <1>0, <3>1
        <5> QED BY <4>1, <5>1
      <4> QED BY <4>3, <4>4
    <3> QED BY <1>0, <1>16, <3>1, <3>3, <3>4 DEF HandleUpdate, Dispatch
  <2> QED BY <2>1, <2>2
<1>17. CASE HandleResize
  BY <1>0, <1>17 DEF HandleResize, Dispatch, Resize, Malloc, Ask, AskAfterResize
<1>18. CASE RunFrameSource BY <1>18 DEF RunFrameSource, Dispatch, RequestFrame, Ask
<1>19. CASE RunInputSource
  BY <1>0, <1>19 DEF RunInputSource, Dispatch, DoInput
<1>20. CASE LoopLeaves BY <1>20 DEF LoopLeaves
<1>21. CASE LoopUnrefs BY <1>21 DEF LoopUnrefs
<1>22. CASE LoopReleases
  BY <1>0, <1>22 DEF LoopReleases
<1>23. CASE LoopExits BY <1>23 DEF LoopExits
<1>24. ASSUME NEW u \in FrameUsers, GetFrame(u) PROVE OwnershipInv'
  BY <1>0, <1>24 DEF GetFrame, DropFrame
<1>25. ASSUME NEW u \in InputUsers, SendInput(u) PROVE OwnershipInv'
  BY <1>0, <1>25 DEF SendInput
<1>26. ASSUME NEW u \in Users, InvokeTakesContext(u) PROVE OwnershipInv'
  BY <1>0, <1>26 DEF InvokeTakesContext
<1>27. ASSUME NEW u \in Users, InvokeRuns(u) PROVE OwnershipInv'
  BY <1>0, <1>27 DEF InvokeRuns, RequestFrame, Ask, DoInput
<1>28. ASSUME NEW u \in Users, InvokeQueues(u) PROVE OwnershipInv'
  BY <1>0, <1>28 DEF InvokeQueues, AfterQueueing
<1>29. ASSUME NEW u \in Users, Return(u) PROVE OwnershipInv'
  BY <1>0, <1>29 DEF Return
<1>30. ASSUME NEW u \in Users, GetFrameTimesOut(u) PROVE OwnershipInv'
  BY <1>30 DEF GetFrameTimesOut
<1>31. CASE ServerUpdates BY <1>31 DEF ServerUpdates, Answerable
<1>32. CASE ServerTellsSize BY <1>32 DEF ServerTellsSize
<1>33. CASE DesktopResizes BY <1>33 DEF DesktopResizes
<1>34. CASE ServerHangsUp BY <1>34 DEF ServerHangsUp
<1>35. CASE UNCHANGED vars BY <1>35 DEF vars
<1> QED
  BY <1>1, <1>2, <1>3, <1>4, <1>5, <1>6, <1>7, <1>8, <1>9, <1>10, <1>11, <1>12, <1>13,
     <1>14, <1>15, <1>16, <1>17, <1>18, <1>19, <1>20, <1>21, <1>22, <1>23, <1>24,
     <1>25, <1>26, <1>27, <1>28, <1>29, <1>30, <1>31, <1>32, <1>33, <1>34, <1>35
  DEF Next, Stopped, OwnerNext, LoopNext, UserNext, CallProceeds, ServerNext, ServerAnswers

\* Each pixel buffer has one owner, the framebuffer or one caller's frame, and
\* none leaks.
THEOREM BuffersHaveOwners == Spec => []BuffersOwned
<1>1. OwnershipInv => BuffersOwned
  BY DEF OwnershipInv
<1> QED
  BY <1>1, TypeInit, TypeNext, LifeInit, LifeNext, OwnershipInit, OwnershipNext, PTL DEF Spec

-----------------------------------------------------------------------------
(* The sizes in flight.                                                      *)

\* The size the framebuffer has when message i arrives.
SizeBefore(i) == IF i = 1 THEN fbSize ELSE down[i - 1].size

\* An update does not change the size, a resize always does, and the server
\* remembers the size it told last.
SizesInv ==
  /\ ~Writable => down = <<>>
  /\ Writable =>
       /\ \A i \in DOMAIN down :
            (down[i].size = SizeBefore(i)) <=> (down[i].kind = "update")
       /\ told = SizeBefore(Len(down) + 1)

\* A sequence that is not empty has one element or more than one.
LEMMA OneOrMore == \A n \in Nat : n > 0 => n = 1 \/ n > 1
OBVIOUS

LEMMA SizesInit == Init => SizesInv
BY DEF Init, SizesInv, Writable

LEMMA SizesNext == TypeInv /\ LifeInv /\ SizesInv /\ [Next]_vars => SizesInv'
<1> SUFFICES ASSUME TypeInv, LifeInv, SizesInv, [Next]_vars PROVE SizesInv'
  OBVIOUS
<1> USE ConstantsAssumption DEF SizesInv, SizeBefore, Writable, ownerVars, flagVars,
                                ctxVars, netVars, fbVars, userVars
<1>0. /\ down \in Seq(Message) /\ desk \in Sizes /\ told \in Sizes
      /\ conn \in {"none", "opening", "ready", "dropped", "closed", "freed"}
  BY DEF TypeInv, TypeOK
<1>1. CASE StartConnect BY <1>1 DEF StartConnect
<1>2. CASE ConnectRejected BY <1>2 DEF ConnectRejected
<1>3. CASE ConnectReturns BY <1>3 DEF ConnectReturns
<1>4. CASE ConnectTimesOut BY <1>4 DEF ConnectTimesOut
<1>5. CASE BeginDestroy BY <1>5 DEF BeginDestroy
<1>6. CASE DestroyReadsConn BY <1>6 DEF DestroyReadsConn
<1>7. CASE DestroyShutdown BY <1>7 DEF DestroyShutdown
<1>8. CASE DestroyWakes BY <1>8 DEF DestroyWakes
<1>9. CASE DestroyReturns BY <1>9 DEF DestroyReturns
<1>10. CASE LoopStarts BY <1>10 DEF LoopStarts, LifeInv
<1>11. CASE LoopIterates BY <1>11 DEF LoopIterates
<1>12. CASE LoopWakes BY <1>12 DEF LoopWakes
<1>13. CASE LoopIterationEnds BY <1>13 DEF LoopIterationEnds
<1>14. CASE HandleInitialized
  <2>1. down = <<>> /\ down' = <<>> /\ told' = desk
    BY <1>14 DEF HandleInitialized
  <2>2. fbSize' = desk
    BY <1>14 DEF HandleInitialized, Resize, SameSize
  <2> QED BY <1>14, <2>1, <2>2 DEF HandleInitialized
<1>15. CASE HandleClosed BY <1>15 DEF HandleClosed, Dispatch
<1>16. CASE HandleUpdate
  <2>1. /\ down' = Tail(down) /\ down # <<>> /\ down[1].size = fbSize
        /\ fbSize' = fbSize /\ told' = told /\ conn' = conn
    BY <1>0, <1>16 DEF HandleUpdate
  <2>2. Len(down') = Len(down) - 1 /\ \A i \in DOMAIN down' : down'[i] = down[i + 1]
    BY <1>0, <2>1
  <2>3. \A i \in DOMAIN down' : SizeBefore(i)' = SizeBefore(i + 1)
    BY <1>0, <1>16, <2>1, <2>2 DEF HandleUpdate
  <2>4. (told = SizeBefore(Len(down) + 1))'
    <3>1. Len(down) \in Nat /\ Len(down) > 0 /\ told = down[Len(down)].size
      BY <1>0, <1>16, <2>1 DEF HandleUpdate
    <3>2. CASE Len(down) = 1 BY <2>1, <2>2, <3>1, <3>2
    <3>3. CASE Len(down) > 1 BY <1>0, <2>1, <2>2, <3>1, <3>3
    <3>4. Len(down) = 1 \/ Len(down) > 1 BY <3>1, OneOrMore, Zenon
    <3> QED BY <3>2, <3>3, <3>4, Zenon
  <2>5. \A i \in DOMAIN down' :
          (down'[i].size = SizeBefore(i)') <=> (down'[i].kind = "update")
    <3>1. \A i \in DOMAIN down' : i + 1 \in DOMAIN down
      BY <1>0, <2>1
    <3> HIDE DEF SizeBefore
    <3> QED BY <1>16, <2>2, <2>3, <3>1 DEF HandleUpdate
  <2> HIDE DEF SizeBefore
  <2> QED BY <1>16, <2>1, <2>4, <2>5 DEF HandleUpdate
<1>17. CASE HandleResize
  <2>1. /\ down' = Tail(down) /\ down # <<>> /\ told' = told /\ conn' = conn
        /\ down[1].size # fbSize
    BY <1>0, <1>17 DEF HandleResize
  <2>2. fbSize' = down[1].size
    BY <1>0, <1>17, <2>1 DEF HandleResize, Resize, SameSize
  <2>3. Len(down') = Len(down) - 1 /\ \A i \in DOMAIN down' : down'[i] = down[i + 1]
    BY <1>0, <2>1
  <2>4. \A i \in DOMAIN down' : SizeBefore(i)' = SizeBefore(i + 1)
    BY <1>0, <1>17, <2>1, <2>2, <2>3 DEF HandleResize
  <2>5. (told = SizeBefore(Len(down) + 1))'
    <3>1. Len(down) \in Nat /\ Len(down) > 0 /\ told = down[Len(down)].size
      BY <1>0, <1>17, <2>1 DEF HandleResize
    <3>2. CASE Len(down) = 1 BY <2>1, <2>2, <2>3, <3>1, <3>2
    <3>3. CASE Len(down) > 1 BY <1>0, <2>1, <2>3, <3>1, <3>3
    <3>4. Len(down) = 1 \/ Len(down) > 1 BY <3>1, OneOrMore, Zenon
    <3> QED BY <3>2, <3>3, <3>4, Zenon
  <2>6. \A i \in DOMAIN down' :
          (down'[i].size = SizeBefore(i)') <=> (down'[i].kind = "update")
    <3>1. \A i \in DOMAIN down' : i + 1 \in DOMAIN down
      BY <1>0, <2>1
    <3> HIDE DEF SizeBefore
    <3> QED BY <1>17, <2>3, <2>4, <3>1 DEF HandleResize
  <2> HIDE DEF SizeBefore
  <2> QED BY <1>17, <2>1, <2>5, <2>6 DEF HandleResize
<1>18. CASE RunFrameSource BY <1>18 DEF RunFrameSource, Dispatch, RequestFrame, Ask
<1>19. CASE RunInputSource BY <1>19 DEF RunInputSource, Dispatch, DoInput
<1>20. CASE LoopLeaves BY <1>20 DEF LoopLeaves
<1>21. CASE LoopUnrefs BY <1>21 DEF LoopUnrefs
<1>22. CASE LoopReleases BY <1>22 DEF LoopReleases
<1>23. CASE LoopExits BY <1>23 DEF LoopExits
<1>24. ASSUME NEW u \in FrameUsers, GetFrame(u) PROVE SizesInv'
  BY <1>24 DEF GetFrame, DropFrame
<1>25. ASSUME NEW u \in InputUsers, SendInput(u) PROVE SizesInv'
  BY <1>25 DEF SendInput
<1>26. ASSUME NEW u \in Users, InvokeTakesContext(u) PROVE SizesInv'
  BY <1>26 DEF InvokeTakesContext
<1>27. ASSUME NEW u \in Users, InvokeRuns(u) PROVE SizesInv'
  BY <1>27 DEF InvokeRuns, RequestFrame, Ask, DoInput
<1>28. ASSUME NEW u \in Users, InvokeQueues(u) PROVE SizesInv'
  BY <1>28 DEF InvokeQueues, AfterQueueing
<1>29. ASSUME NEW u \in Users, Return(u) PROVE SizesInv'
  BY <1>29 DEF Return
<1>30. ASSUME NEW u \in Users, GetFrameTimesOut(u) PROVE SizesInv'
  BY <1>30 DEF GetFrameTimesOut
<1>31. CASE ServerUpdates
  <2> DEFINE m == [kind |-> "update", size |-> desk]
  <2>1. down' = Append(down, m) /\ m.kind = "update" /\ m.size = desk
    BY <1>31 DEF ServerUpdates
  <2> HIDE DEF m
  <2>2. /\ Len(down') = Len(down) + 1 /\ down'[Len(down) + 1] = m
        /\ \A i \in 1..Len(down) : down'[i] = down[i]
    BY <1>0, <2>1
  <2> QED BY <1>0, <1>31, <2>1, <2>2 DEF ServerUpdates
<1>32. CASE ServerTellsSize
  <2> DEFINE m == [kind |-> "resize", size |-> desk]
  <2>1. down' = Append(down, m) /\ m.kind = "resize" /\ m.size = desk
    BY <1>32 DEF ServerTellsSize
  <2> HIDE DEF m
  <2>2. /\ Len(down') = Len(down) + 1 /\ down'[Len(down) + 1] = m
        /\ \A i \in 1..Len(down) : down'[i] = down[i]
    BY <1>0, <2>1
  <2> QED BY <1>0, <1>32, <2>1, <2>2 DEF ServerTellsSize
<1>33. CASE DesktopResizes BY <1>33 DEF DesktopResizes
<1>34. CASE ServerHangsUp BY <1>34 DEF ServerHangsUp
<1>35. CASE UNCHANGED vars BY <1>35 DEF vars
<1> QED
  BY <1>1, <1>2, <1>3, <1>4, <1>5, <1>6, <1>7, <1>8, <1>9, <1>10, <1>11, <1>12, <1>13,
     <1>14, <1>15, <1>16, <1>17, <1>18, <1>19, <1>20, <1>21, <1>22, <1>23, <1>24,
     <1>25, <1>26, <1>27, <1>28, <1>29, <1>30, <1>31, <1>32, <1>33, <1>34, <1>35
  DEF Next, Stopped, OwnerNext, LoopNext, UserNext, CallProceeds, ServerNext, ServerAnswers

\* An update is only painted into a framebuffer of the size it was drawn for.
THEOREM UpdatesHaveRoom == Spec => []UpdatesFit
<1>1. TypeInv /\ SizesInv => UpdatesFit
  BY DEF SizesInv, UpdatesFit, SizeBefore, TypeInv, TypeOK
<1> QED BY <1>1, TypeInit, TypeNext, LifeInit, LifeNext, SizesInit, SizesNext, PTL DEF Spec
=============================================================================
