-------------------------- MODULE ClientCallProofs --------------------------
(***************************************************************************)
(* Proofs about the calls of Client: get_frame is always answered while    *)
(* nothing outside fails, and input events arrive once and in order.       *)
(***************************************************************************)
EXTENDS ClientProofs

-----------------------------------------------------------------------------
(* The promises have answers on their way.                                   *)

\* The callers whose request is not yet queued or written.
Invoking == {u \in Users : call[u] = "frame" /\ pc[u] \in {"invoke", "direct"}}

AnswersUnderWay ==
  conn = "ready" =>
    Len(pending) <= asked + Len(down) + frameSources + Cardinality(Invoking)

CallersPending ==
  \A u \in Users : InGetFrame(u) /\ frame[u] = NoBuf =>
    \E i \in DOMAIN pending : pending[i] = u

ConnectedWhileOpen ==
  /\ exit <=> owner \in {"exiting", "shutting", "waking", "waiting", "destroyed"}
  /\ loop \in {"leaving", "unreffed", "released", "done"} => exit
  /\ owner = "open" => initialized
  /\ initialized /\ ~exit => conn = "ready"
  /\ conn \in {"opening", "ready"} \/ exit \/ loop \in {"none", "setup"}
  /\ conn # "dropped"

LEMMA ConnectedNext ==
  ASSUME Faults \subseteq {"coalesce"}
  PROVE  TypeInv /\ LifeInv /\ ConnectedWhileOpen /\ [Next]_vars => ConnectedWhileOpen'
<1> SUFFICES ASSUME TypeInv, LifeInv, ConnectedWhileOpen, [Next]_vars PROVE ConnectedWhileOpen'
  OBVIOUS
<1> USE DEF ConnectedWhileOpen, ownerVars, flagVars, ctxVars, netVars, fbVars, userVars
<1>0. /\ initialized \in BOOLEAN /\ exit \in BOOLEAN
      /\ \A u \in Users : pc[u] # "idle" => owner = "open"
      /\ owner = "new" => loop = "none"
      /\ loop \in {"none", "setup"} => conn = "none" /\ ~cptr /\ owner # "shutting"
  BY DEF TypeInv, TypeOK, LifeInv
<1>1. CASE StartConnect
  BY <1>0, <1>1 DEF StartConnect
<1>2. CASE ConnectRejected
  BY <1>0, <1>2 DEF ConnectRejected
<1>3. CASE ConnectReturns
  BY <1>0, <1>3 DEF ConnectReturns
<1>4. CASE ConnectTimesOut
  BY <1>0, <1>4 DEF ConnectTimesOut
<1>5. CASE BeginDestroy
  BY <1>0, <1>5 DEF BeginDestroy
<1>6. CASE DestroyReadsConn
  BY <1>0, <1>6 DEF DestroyReadsConn
<1>7. CASE DestroyShutdown
  BY <1>0, <1>7 DEF DestroyShutdown
<1>8. CASE DestroyWakes
  BY <1>0, <1>8 DEF DestroyWakes
<1>9. CASE DestroyReturns
  BY <1>0, <1>9 DEF DestroyReturns
<1>10. CASE LoopStarts
  BY <1>0, <1>10 DEF LoopStarts
<1>11. CASE LoopIterates
  BY <1>0, <1>11 DEF LoopIterates
<1>12. CASE LoopWakes
  BY <1>0, <1>12 DEF LoopWakes
<1>13. CASE LoopIterationEnds
  BY <1>0, <1>13 DEF LoopIterationEnds
<1>14. CASE HandleInitialized
  BY <1>0, <1>14 DEF HandleInitialized, Dispatch, Resize, Ask, AskAfterResize
<1>15. CASE HandleClosed
  BY <1>0, <1>15 DEF HandleClosed, Dispatch
<1>16. CASE HandleUpdate
  BY <1>0, <1>16 DEF HandleUpdate, Dispatch, FbUpdate, MoveFrame, Malloc
<1>17. CASE HandleResize
  BY <1>0, <1>17 DEF HandleResize, Dispatch, Resize, Ask, AskAfterResize
<1>18. CASE RunFrameSource
  BY <1>0, <1>18 DEF RunFrameSource, Dispatch, RequestFrame, Ask
<1>19. CASE RunInputSource
  BY <1>0, <1>19 DEF RunInputSource, Dispatch, DoInput
<1>20. CASE LoopLeaves
  BY <1>0, <1>20 DEF LoopLeaves
<1>21. CASE LoopUnrefs
  BY <1>0, <1>21 DEF LoopUnrefs
<1>22. CASE LoopReleases
  BY <1>0, <1>22 DEF LoopReleases
<1>23. CASE LoopExits
  BY <1>0, <1>23 DEF LoopExits
<1>24. ASSUME NEW u \in FrameUsers, GetFrame(u) PROVE ConnectedWhileOpen'
  BY <1>0, <1>24 DEF GetFrame, DropFrame
<1>25. ASSUME NEW u \in InputUsers, SendInput(u) PROVE ConnectedWhileOpen'
  BY <1>0, <1>25 DEF SendInput
<1>26. ASSUME NEW u \in Users, InvokeTakesContext(u) PROVE ConnectedWhileOpen'
  BY <1>0, <1>26 DEF InvokeTakesContext
<1>27. ASSUME NEW u \in Users, InvokeRuns(u) PROVE ConnectedWhileOpen'
  BY <1>0, <1>27 DEF InvokeRuns, RequestFrame, Ask, DoInput
<1>28. ASSUME NEW u \in Users, InvokeQueues(u) PROVE ConnectedWhileOpen'
  BY <1>0, <1>28 DEF InvokeQueues, AfterQueueing
<1>29. ASSUME NEW u \in Users, Return(u) PROVE ConnectedWhileOpen'
  BY <1>0, <1>29 DEF Return
<1>30. ASSUME NEW u \in Users, GetFrameTimesOut(u) PROVE ConnectedWhileOpen'
  BY <1>0, <1>30 DEF GetFrameTimesOut
<1>31. CASE ServerUpdates
  BY <1>0, <1>31 DEF ServerUpdates, Answerable
<1>32. CASE ServerTellsSize
  BY <1>0, <1>32 DEF ServerTellsSize
<1>33. CASE DesktopResizes
  BY <1>0, <1>33 DEF DesktopResizes
<1>34. CASE ServerHangsUp
  BY <1>0, <1>34 DEF ServerHangsUp
<1>35. CASE UNCHANGED vars BY <1>35 DEF vars
<1> QED
  BY <1>1, <1>2, <1>3, <1>4, <1>5, <1>6, <1>7, <1>8, <1>9, <1>10, <1>11, <1>12, <1>13,
     <1>14, <1>15, <1>16, <1>17, <1>18, <1>19, <1>20, <1>21, <1>22, <1>23, <1>24,
     <1>25, <1>26, <1>27, <1>28, <1>29, <1>30, <1>31, <1>32, <1>33, <1>34, <1>35
  DEF Next, Stopped, OwnerNext, LoopNext, UserNext, CallProceeds, ServerNext, ServerAnswers

LEMMA PendingNext == TypeInv /\ LifeInv /\ OwnershipInv /\ CallersPending /\ [Next]_vars
                       => CallersPending'
<1> SUFFICES ASSUME TypeInv, LifeInv, OwnershipInv, CallersPending, [Next]_vars
             PROVE  CallersPending'
  OBVIOUS
<1> USE ConstantsAssumption DEF CallersPending, InGetFrame, ownerVars, flagVars, ctxVars,
                                netVars, fbVars, userVars
<1>0. /\ pc \in [Users -> {"idle", "invoke", "direct", "waiting", "answered"}]
      /\ call \in [Users -> {"frame", "input"}] /\ pending \in Seq(FrameUsers)
      /\ frame \in [Users -> Buffers \cup {NoBuf}] /\ inputSources \in Seq(InputUsers)
      /\ \A i \in DOMAIN inputSources :
           inputSources[i] \in Users /\ InInput(inputSources[i])
      /\ Writable => fb # NoBuf
  BY DEF TypeInv, TypeOK, LifeInv, SourcesWait, OwnershipInv, FramebufferInstalled
<1>1. CASE StartConnect BY <1>1 DEF StartConnect
<1>2. CASE ConnectRejected BY <1>2 DEF ConnectRejected
<1>3. CASE ConnectReturns BY <1>3 DEF ConnectReturns
<1>4. CASE ConnectTimesOut BY <1>4 DEF ConnectTimesOut
<1>5. CASE BeginDestroy BY <1>5 DEF BeginDestroy
<1>6. CASE DestroyReadsConn BY <1>6 DEF DestroyReadsConn
<1>7. CASE DestroyShutdown BY <1>7 DEF DestroyShutdown
<1>8. CASE DestroyWakes BY <1>8 DEF DestroyWakes
<1>9. CASE DestroyReturns BY <1>9 DEF DestroyReturns
<1>10. CASE LoopStarts BY <1>10 DEF LoopStarts
<1>11. CASE LoopIterates BY <1>11 DEF LoopIterates
<1>12. CASE LoopWakes BY <1>12 DEF LoopWakes
<1>13. CASE LoopIterationEnds BY <1>13 DEF LoopIterationEnds
<1>14. CASE HandleInitialized
  BY <1>14 DEF HandleInitialized, Dispatch, Resize, Ask, AskAfterResize
<1>15. CASE HandleClosed BY <1>15 DEF HandleClosed, Dispatch
<1>16. CASE HandleUpdate
  <2>1. CASE pending = <<>>
    BY <1>0, <1>16, <2>1 DEF HandleUpdate, FbUpdate
  <2>2. CASE pending # <<>>
    <3>1. /\ frame' = [frame EXCEPT ![pending[1]] = fb] /\ fb # NoBuf
          /\ pending' = Tail(pending) /\ pc' = pc /\ call' = call
      BY <1>0, <1>16, <2>2 DEF HandleUpdate, FbUpdate, MoveFrame, Malloc
    <3>2. \A i \in DOMAIN pending : i # 1 => i - 1 \in DOMAIN pending' /\ pending'[i - 1] = pending[i]
      BY <1>0, <2>2, <3>1
    <3>3. pending[1] \in Users
      BY <1>0, <2>2
    <3>4. \A u \in Users \ {pending[1]} : frame'[u] = frame[u]
      BY <1>0, <3>1
    <3>5. frame'[pending[1]] # NoBuf
      BY <1>0, <3>1, <3>3
    <3> QED BY <3>1, <3>2, <3>4, <3>5
  <2> QED BY <2>1, <2>2
<1>17. CASE HandleResize BY <1>17 DEF HandleResize, Dispatch, Resize, Ask, AskAfterResize
<1>18. CASE RunFrameSource BY <1>18 DEF RunFrameSource, Dispatch, RequestFrame, Ask
<1>19. CASE RunInputSource
  <2>1. inputSources # <<>> /\ Head(inputSources) = inputSources[1] /\ 1 \in DOMAIN inputSources
    BY <1>0, <1>19 DEF RunInputSource
  <2>2. call[Head(inputSources)] # "frame"
    BY <1>0, <2>1 DEF InInput
  <2>3. /\ frame' = frame /\ pending' = pending /\ call' = call
        /\ \A u \in Users : u # Head(inputSources) => pc'[u] = pc[u]
    BY <1>0, <1>19 DEF RunInputSource, DoInput
  <2> QED BY <2>2, <2>3
<1>20. CASE LoopLeaves BY <1>20 DEF LoopLeaves
<1>21. CASE LoopUnrefs BY <1>21 DEF LoopUnrefs
<1>22. CASE LoopReleases BY <1>22 DEF LoopReleases
<1>23. CASE LoopExits BY <1>23 DEF LoopExits
<1>24. ASSUME NEW u \in FrameUsers, GetFrame(u) PROVE CallersPending'
  <2>1. /\ pending' = Append(pending, u) /\ pc' = [pc EXCEPT ![u] = "invoke"]
        /\ call' = [call EXCEPT ![u] = "frame"] /\ frame' = [frame EXCEPT ![u] = NoBuf]
    BY <1>24 DEF GetFrame
  <2>2. /\ Len(pending) + 1 \in DOMAIN pending' /\ pending'[Len(pending) + 1] = u
        /\ \A i \in DOMAIN pending : i \in DOMAIN pending' /\ pending'[i] = pending[i]
    BY <1>0, <2>1
  <2> QED BY <1>0, <2>1, <2>2
<1>25. ASSUME NEW u \in InputUsers, SendInput(u) PROVE CallersPending'
  BY <1>0, <1>25 DEF SendInput
<1>26. ASSUME NEW u \in Users, InvokeTakesContext(u) PROVE CallersPending'
  BY <1>0, <1>26 DEF InvokeTakesContext
<1>27. ASSUME NEW u \in Users, InvokeRuns(u) PROVE CallersPending'
  BY <1>0, <1>27 DEF InvokeRuns, RequestFrame, Ask, DoInput
<1>28. ASSUME NEW u \in Users, InvokeQueues(u) PROVE CallersPending'
  BY <1>0, <1>28 DEF InvokeQueues, AfterQueueing
<1>29. ASSUME NEW u \in Users, Return(u) PROVE CallersPending'
  BY <1>0, <1>29 DEF Return
<1>30. ASSUME NEW u \in Users, GetFrameTimesOut(u) PROVE CallersPending'
  BY <1>30 DEF GetFrameTimesOut
<1>31. CASE ServerUpdates BY <1>31 DEF ServerUpdates, Answerable
<1>32. CASE ServerTellsSize BY <1>32 DEF ServerTellsSize
<1>33. CASE DesktopResizes BY <1>33 DEF DesktopResizes
<1>34. CASE ServerHangsUp BY <1>34 DEF ServerHangsUp
<1>35. CASE UNCHANGED vars BY <1>35 DEF vars
<1> QED
  BY <1>1, <1>2, <1>3, <1>4, <1>5, <1>6, <1>7, <1>8, <1>9, <1>10, <1>11, <1>12, <1>13,
     <1>14, <1>15, <1>16, <1>17, <1>18, <1>19, <1>20, <1>21, <1>22, <1>23, <1>24,
     <1>25, <1>26, <1>27, <1>28, <1>29, <1>30, <1>31, <1>32, <1>33, <1>34, <1>35
  DEF Next, Stopped, OwnerNext, LoopNext, UserNext, CallProceeds, ServerNext, ServerAnswers

LEMMA InvokingFinite ==
  /\ IsFiniteSet(Invoking) /\ Cardinality(Invoking) \in Nat
BY ConstantsAssumption, FS_Subset, FS_CardinalityType DEF Invoking

LEMMA AnswersNext ==
  ASSUME Faults = {}
  PROVE  TypeInv /\ LifeInv /\ OwnershipInv /\ SizesInv /\ ConnectedWhileOpen
           /\ AnswersUnderWay /\ [Next]_vars => AnswersUnderWay'
<1> SUFFICES ASSUME TypeInv, LifeInv, OwnershipInv, SizesInv, ConnectedWhileOpen,
                    AnswersUnderWay, [Next]_vars
             PROVE  AnswersUnderWay'
  OBVIOUS
<1> USE DEF AnswersUnderWay, ownerVars, flagVars, ctxVars, netVars, fbVars, userVars
<1>0. /\ pc \in [Users -> {"idle", "invoke", "direct", "waiting", "answered"}]
      /\ call \in [Users -> {"frame", "input"}] /\ pending \in Seq(FrameUsers)
      /\ down \in Seq(Message) /\ asked \in Nat /\ frameSources \in Nat
      /\ Len(pending) \in Nat /\ Len(down) \in Nat
      /\ FrameUsers \subseteq Users /\ InputUsers \subseteq Users
  BY ConstantsAssumption DEF TypeInv, TypeOK
<1>c. Cardinality(Invoking) \in Nat /\ Cardinality(Invoking)' \in Nat
  <2>1. Cardinality(Invoking) \in Nat BY InvokingFinite
  <2>2. Cardinality(Invoking)' \in Nat
    BY ConstantsAssumption, FS_Subset, FS_CardinalityType DEF Invoking
  <2> QED BY <2>1, <2>2
<1>i. UNCHANGED <<pc, call>> => Invoking' = Invoking
  BY DEF Invoking
<1>1. CASE StartConnect
  BY <1>0, <1>c, <1>i, <1>1 DEF StartConnect
<1>2. CASE ConnectRejected
  BY <1>0, <1>c, <1>i, <1>2 DEF ConnectRejected
<1>3. CASE ConnectReturns
  BY <1>0, <1>c, <1>i, <1>3 DEF ConnectReturns
<1>4. CASE ConnectTimesOut
  BY <1>0, <1>c, <1>i, <1>4 DEF ConnectTimesOut
<1>5. CASE BeginDestroy
  BY <1>0, <1>c, <1>i, <1>5 DEF BeginDestroy
<1>6. CASE DestroyReadsConn
  BY <1>0, <1>c, <1>i, <1>6 DEF DestroyReadsConn
<1>7. CASE DestroyShutdown
  BY <1>0, <1>c, <1>i, <1>7 DEF DestroyShutdown
<1>8. CASE DestroyWakes
  BY <1>0, <1>c, <1>i, <1>8 DEF DestroyWakes
<1>9. CASE DestroyReturns
  BY <1>0, <1>c, <1>i, <1>9 DEF DestroyReturns
<1>10. CASE LoopStarts
  BY <1>0, <1>c, <1>i, <1>10 DEF LoopStarts
<1>11. CASE LoopIterates
  BY <1>0, <1>c, <1>i, <1>11 DEF LoopIterates
<1>12. CASE LoopWakes
  BY <1>0, <1>c, <1>i, <1>12 DEF LoopWakes
<1>13. CASE LoopIterationEnds
  BY <1>0, <1>c, <1>i, <1>13 DEF LoopIterationEnds
<1>14. CASE HandleInitialized
  <2>1. pending = <<>>
    BY <1>0, <1>14 DEF HandleInitialized, ConnectedWhileOpen, LifeInv, OwnershipInv,
                      PromisesWait, InGetFrame
  <2>2. pending' = pending /\ down' = down /\ asked' \in Nat /\ frameSources' = frameSources
    BY <1>0, <1>14 DEF HandleInitialized, Resize, Ask, AskAfterResize
  <2> QED BY <1>0, <1>c, <2>1, <2>2
<1>15. CASE HandleClosed
  BY <1>0, <1>c, <1>i, <1>15 DEF HandleClosed, Dispatch
<1>16. CASE HandleUpdate
  <2>1. Len(down') = Len(down) - 1 /\ conn' = conn /\ asked' = asked
    BY <1>0, <1>16 DEF HandleUpdate
  <2>2. pending = <<>> \/ Len(pending') = Len(pending) - 1
    BY <1>0, <1>16 DEF HandleUpdate, FbUpdate, MoveFrame, Malloc
  <2>3. pending = <<>> => pending' = <<>>
    BY <1>16 DEF HandleUpdate, FbUpdate
  <2> QED BY <1>0, <1>c, <1>i, <1>16, <2>1, <2>2, <2>3 DEF HandleUpdate
<1>17. CASE HandleResize
  <2>1. Len(down') = Len(down) - 1 /\ conn' = conn /\ ~SameSize(Head(down).size)
    BY <1>0, <1>17 DEF HandleResize, SizesInv, SizeBefore, SameSize
  <2>2. conn = "ready" => asked' = asked + 1
    BY <1>0, <1>17, <2>1 DEF HandleResize, Resize, Ask, AskAfterResize
  <2> QED BY <1>0, <1>c, <1>i, <1>17, <2>1, <2>2 DEF HandleResize
<1>18. CASE RunFrameSource
  BY <1>0, <1>c, <1>i, <1>18 DEF RunFrameSource, Dispatch, RequestFrame, Ask
<1>19. CASE RunInputSource
  <2>1. 1 \in DOMAIN inputSources /\ Head(inputSources) = inputSources[1]
    BY <1>19 DEF RunInputSource, TypeInv, TypeOK
  <2>2. Invoking' = Invoking
    BY <1>0, <1>19, <2>1 DEF RunInputSource, DoInput, Invoking, LifeInv, SourcesWait, InInput
  <2> QED BY <1>0, <2>2, <1>19 DEF RunInputSource
<1>20. CASE LoopLeaves
  BY <1>0, <1>c, <1>i, <1>20 DEF LoopLeaves
<1>21. CASE LoopUnrefs
  BY <1>0, <1>c, <1>i, <1>21 DEF LoopUnrefs
<1>22. CASE LoopReleases
  BY <1>0, <1>c, <1>i, <1>22 DEF LoopReleases
<1>23. CASE LoopExits
  BY <1>0, <1>c, <1>i, <1>23 DEF LoopExits
<1>24. ASSUME NEW u \in FrameUsers, GetFrame(u) PROVE AnswersUnderWay'
  <2>1. Invoking' = Invoking \cup {u} /\ u \notin Invoking
    BY <1>0, <1>24 DEF GetFrame, Invoking
  <2>2. Cardinality(Invoking') = Cardinality(Invoking) + 1
    BY <2>1, InvokingFinite, FS_AddElement
  <2>3. Len(pending') = Len(pending) + 1
    BY <1>0, <1>24 DEF GetFrame
  <2> QED BY <1>0, <1>c, <1>24, <2>2, <2>3 DEF GetFrame
<1>25. ASSUME NEW u \in InputUsers, SendInput(u) PROVE AnswersUnderWay'
  <2>1. Invoking' = Invoking
    BY <1>0, <1>25 DEF SendInput, Invoking
  <2> QED BY <1>0, <2>1, <1>25 DEF SendInput
<1>26. ASSUME NEW u \in Users, InvokeTakesContext(u) PROVE AnswersUnderWay'
  <2>1. Invoking' = Invoking
    BY <1>0, <1>26 DEF InvokeTakesContext, Invoking
  <2> QED BY <1>0, <2>1, <1>26 DEF InvokeTakesContext
<1>27. ASSUME NEW u \in Users, InvokeRuns(u) PROVE AnswersUnderWay'
  <2>1. CASE call[u] = "frame"
    <3>1. Invoking' = Invoking \ {u} /\ u \in Invoking
      BY <1>0, <1>27, <2>1 DEF InvokeRuns, Invoking
    <3>2. Cardinality(Invoking') = Cardinality(Invoking) - 1
      BY <3>1, InvokingFinite, FS_RemoveElement
    <3> QED BY <1>0, <1>c, <1>27, <2>1, <3>2 DEF InvokeRuns, RequestFrame, Ask
  <2>2. CASE call[u] # "frame"
    <3>1. Invoking' = Invoking
      BY <1>0, <1>27, <2>2 DEF InvokeRuns, DoInput, Invoking
    <3> QED BY <1>0, <1>27, <2>2, <3>1 DEF InvokeRuns
  <2> QED BY <2>1, <2>2
<1>28. ASSUME NEW u \in Users, InvokeQueues(u) PROVE AnswersUnderWay'
  <2>1. CASE call[u] = "frame"
    <3>1. Invoking' = Invoking \ {u} /\ u \in Invoking
      BY <1>0, <1>28, <2>1 DEF InvokeQueues, AfterQueueing, Invoking
    <3>2. Cardinality(Invoking') = Cardinality(Invoking) - 1
      BY <3>1, InvokingFinite, FS_RemoveElement
    <3> QED BY <1>0, <1>c, <1>28, <2>1, <3>2 DEF InvokeQueues
  <2>2. CASE call[u] # "frame"
    <3>1. Invoking' = Invoking
      BY <1>0, <1>28, <2>2 DEF InvokeQueues, AfterQueueing, Invoking
    <3> QED BY <1>0, <1>28, <2>2, <3>1 DEF InvokeQueues
  <2> QED BY <2>1, <2>2
<1>29. ASSUME NEW u \in Users, Return(u) PROVE AnswersUnderWay'
  <2>1. Invoking' = Invoking
    BY <1>0, <1>29 DEF Return, Invoking
  <2> QED BY <1>0, <2>1, <1>29 DEF Return
<1>30. ASSUME NEW u \in Users, GetFrameTimesOut(u) PROVE AnswersUnderWay'
  BY <1>0, <1>c, <1>i, <1>30 DEF GetFrameTimesOut
<1>31. CASE ServerUpdates
  <2>1. Len(down') = Len(down) + 1 /\ asked' = asked - 1
    BY <1>0, <1>31 DEF ServerUpdates, Answerable
  <2> QED BY <1>0, <1>c, <1>i, <1>31, <2>1 DEF ServerUpdates
<1>32. CASE ServerTellsSize
  <2>1. Len(down') = Len(down) + 1 /\ asked' = asked - 1
    BY <1>0, <1>32 DEF ServerTellsSize, Answerable
  <2> QED BY <1>0, <1>c, <1>i, <1>32, <2>1 DEF ServerTellsSize
<1>33. CASE DesktopResizes
  BY <1>0, <1>c, <1>i, <1>33 DEF DesktopResizes
<1>34. CASE ServerHangsUp
  BY <1>0, <1>c, <1>i, <1>34 DEF ServerHangsUp
<1>35. CASE UNCHANGED vars BY <1>i, <1>35 DEF vars
<1> QED
  BY <1>1, <1>2, <1>3, <1>4, <1>5, <1>6, <1>7, <1>8, <1>9, <1>10, <1>11, <1>12, <1>13,
     <1>14, <1>15, <1>16, <1>17, <1>18, <1>19, <1>20, <1>21, <1>22, <1>23, <1>24,
     <1>25, <1>26, <1>27, <1>28, <1>29, <1>30, <1>31, <1>32, <1>33, <1>34, <1>35
  DEF Next, Stopped, OwnerNext, LoopNext, UserNext, CallProceeds, ServerNext, ServerAnswers

\* A caller of get_frame that is alone needs one answer, however many requests it
\* answers: while its promise is due there is a message, a request or a source.
AnswerComing ==
  conn = "ready" /\ pending # <<>> =>
    asked + Len(down) + frameSources > 0 \/ Invoking # {}

LEMMA AnswersCome == TypeInv /\ AnswersUnderWay => AnswerComing
<1> SUFFICES ASSUME TypeInv, AnswersUnderWay, conn = "ready", pending # <<>>, Invoking = {}
             PROVE  asked + Len(down) + frameSources > 0
  BY DEF AnswerComing
<1>1. Cardinality(Invoking) = 0
  BY FS_EmptySet
<1>2. Len(pending) > 0 /\ Len(pending) \in Nat
  BY DEF TypeInv, TypeOK
<1>3. asked \in Nat /\ frameSources \in Nat /\ Len(down) \in Nat
  BY DEF TypeInv, TypeOK
<1> QED BY <1>1, <1>2, <1>3 DEF AnswersUnderWay

LEMMA AnswerComingNext ==
  ASSUME \A u, v \in FrameUsers : u = v
  PROVE  TypeInv /\ LifeInv /\ OwnershipInv /\ SizesInv /\ AnswerComing /\ [Next]_vars
           => AnswerComing'
<1> SUFFICES ASSUME TypeInv, LifeInv, OwnershipInv, SizesInv, AnswerComing, [Next]_vars
             PROVE  AnswerComing'
  OBVIOUS
<1> USE DEF AnswerComing, ownerVars, flagVars, ctxVars, netVars, fbVars, userVars
<1>0. /\ pc \in [Users -> {"idle", "invoke", "direct", "waiting", "answered"}]
      /\ call \in [Users -> {"frame", "input"}] /\ pending \in Seq(FrameUsers)
      /\ down \in Seq(Message) /\ asked \in Nat /\ frameSources \in Nat
      /\ Len(pending) \in Nat /\ Len(down) \in Nat
      /\ FrameUsers \subseteq Users /\ InputUsers \subseteq Users
  BY ConstantsAssumption DEF TypeInv, TypeOK
<1>i. UNCHANGED <<pc, call>> => Invoking' = Invoking
  BY DEF Invoking
<1>l. Len(pending) <= 1
  <2>1. \A i, j \in DOMAIN pending : i # j => pending[i] # pending[j]
    BY DEF OwnershipInv, PromisesWait
  <2> QED BY <1>0, <2>1
<1>1. CASE StartConnect BY <1>0, <1>i, <1>1 DEF StartConnect
<1>2. CASE ConnectRejected BY <1>0, <1>i, <1>2 DEF ConnectRejected
<1>3. CASE ConnectReturns BY <1>0, <1>i, <1>3 DEF ConnectReturns
<1>4. CASE ConnectTimesOut BY <1>0, <1>i, <1>4 DEF ConnectTimesOut
<1>5. CASE BeginDestroy BY <1>0, <1>i, <1>5 DEF BeginDestroy
<1>6. CASE DestroyReadsConn BY <1>0, <1>i, <1>6 DEF DestroyReadsConn
<1>7. CASE DestroyShutdown BY <1>0, <1>i, <1>7 DEF DestroyShutdown
<1>8. CASE DestroyWakes BY <1>0, <1>i, <1>8 DEF DestroyWakes
<1>9. CASE DestroyReturns BY <1>0, <1>i, <1>9 DEF DestroyReturns
<1>10. CASE LoopStarts BY <1>0, <1>i, <1>10 DEF LoopStarts
<1>11. CASE LoopIterates BY <1>0, <1>i, <1>11 DEF LoopIterates
<1>12. CASE LoopWakes BY <1>0, <1>i, <1>12 DEF LoopWakes
<1>13. CASE LoopIterationEnds BY <1>0, <1>i, <1>13 DEF LoopIterationEnds
<1>14. CASE HandleInitialized
  <2>1. conn' = "ready" /\ asked' > 0 /\ frameSources' = frameSources /\ down' = down
    BY <1>0, <1>14 DEF HandleInitialized, Resize, Ask, AskAfterResize
  <2>2. asked' \in Nat
    BY <1>0, <1>14 DEF HandleInitialized, Resize, Ask, AskAfterResize
  <2> QED BY <1>0, <2>1, <2>2
<1>15. CASE HandleClosed BY <1>0, <1>i, <1>15 DEF HandleClosed, Dispatch
<1>16. CASE HandleUpdate
  <2>1. pending' = <<>>
    BY <1>0, <1>l, <1>16 DEF HandleUpdate, FbUpdate, MoveFrame, Malloc
  <2> QED BY <2>1
<1>17. CASE HandleResize
  <2>1. Len(down') = Len(down) - 1 /\ conn' = conn /\ ~SameSize(Head(down).size)
    BY <1>0, <1>17 DEF HandleResize, SizesInv, SizeBefore, SameSize
  <2>2. conn = "ready" => asked' = asked + 1
    BY <1>0, <1>17, <2>1 DEF HandleResize, Resize, Ask, AskAfterResize
  <2>3. Len(down') \in Nat /\ frameSources' = frameSources
    BY <1>0, <1>17 DEF HandleResize
  <2> QED BY <1>0, <2>1, <2>2, <2>3
<1>18. CASE RunFrameSource BY <1>0, <1>i, <1>18 DEF RunFrameSource, Dispatch, RequestFrame, Ask
<1>19. CASE RunInputSource
  <2>1. 1 \in DOMAIN inputSources /\ Head(inputSources) = inputSources[1]
    BY <1>19 DEF RunInputSource, TypeInv, TypeOK
  <2>2. Invoking' = Invoking
    BY <1>0, <1>19, <2>1 DEF RunInputSource, DoInput, Invoking, LifeInv, SourcesWait, InInput
  <2> QED BY <1>0, <2>2, <1>19 DEF RunInputSource
<1>20. CASE LoopLeaves BY <1>0, <1>i, <1>20 DEF LoopLeaves
<1>21. CASE LoopUnrefs BY <1>0, <1>i, <1>21 DEF LoopUnrefs
<1>22. CASE LoopReleases BY <1>0, <1>i, <1>22 DEF LoopReleases
<1>23. CASE LoopExits BY <1>0, <1>i, <1>23 DEF LoopExits
<1>24. ASSUME NEW u \in FrameUsers, GetFrame(u) PROVE AnswerComing'
  <2>1. u \in Invoking'
    BY <1>0, <1>24 DEF GetFrame, Invoking
  <2> QED BY <2>1
<1>25. ASSUME NEW u \in InputUsers, SendInput(u) PROVE AnswerComing'
  <2>1. Invoking' = Invoking
    BY <1>0, <1>25 DEF SendInput, Invoking
  <2> QED BY <1>0, <2>1, <1>25 DEF SendInput
<1>26. ASSUME NEW u \in Users, InvokeTakesContext(u) PROVE AnswerComing'
  <2>1. Invoking' = Invoking
    BY <1>0, <1>26 DEF InvokeTakesContext, Invoking
  <2> QED BY <1>0, <2>1, <1>26 DEF InvokeTakesContext
<1>27. ASSUME NEW u \in Users, InvokeRuns(u) PROVE AnswerComing'
  <2>1. CASE call[u] = "frame"
    BY <1>0, <1>27, <2>1 DEF InvokeRuns, RequestFrame, Ask
  <2>2. CASE call[u] # "frame"
    <3>1. Invoking' = Invoking
      BY <1>0, <1>27, <2>2 DEF InvokeRuns, DoInput, Invoking
    <3> QED BY <1>0, <1>27, <2>2, <3>1 DEF InvokeRuns
  <2> QED BY <2>1, <2>2
<1>28. ASSUME NEW u \in Users, InvokeQueues(u) PROVE AnswerComing'
  <2>1. CASE call[u] = "frame"
    BY <1>0, <1>28, <2>1 DEF InvokeQueues
  <2>2. CASE call[u] # "frame"
    <3>1. Invoking' = Invoking
      BY <1>0, <1>28, <2>2 DEF InvokeQueues, AfterQueueing, Invoking
    <3> QED BY <1>0, <1>28, <2>2, <3>1 DEF InvokeQueues
  <2> QED BY <2>1, <2>2
<1>29. ASSUME NEW u \in Users, Return(u) PROVE AnswerComing'
  <2>1. Invoking' = Invoking
    BY <1>0, <1>29 DEF Return, Invoking
  <2> QED BY <1>0, <2>1, <1>29 DEF Return
<1>30. ASSUME NEW u \in Users, GetFrameTimesOut(u) PROVE AnswerComing'
  BY <1>0, <1>i, <1>30 DEF GetFrameTimesOut
<1>31. CASE ServerUpdates
  <2>1. Len(down') = Len(down) + 1 /\ asked' \in Nat /\ frameSources' = frameSources
    BY <1>0, <1>31 DEF ServerUpdates, Answerable
  <2> QED BY <1>0, <2>1
<1>32. CASE ServerTellsSize
  <2>1. Len(down') = Len(down) + 1 /\ asked' \in Nat /\ frameSources' = frameSources
    BY <1>0, <1>32 DEF ServerTellsSize
  <2> QED BY <1>0, <2>1
<1>33. CASE DesktopResizes BY <1>0, <1>i, <1>33 DEF DesktopResizes
<1>34. CASE ServerHangsUp BY <1>0, <1>i, <1>34 DEF ServerHangsUp
<1>35. CASE UNCHANGED vars BY <1>i, <1>35 DEF vars
<1> QED
  BY <1>1, <1>2, <1>3, <1>4, <1>5, <1>6, <1>7, <1>8, <1>9, <1>10, <1>11, <1>12, <1>13,
     <1>14, <1>15, <1>16, <1>17, <1>18, <1>19, <1>20, <1>21, <1>22, <1>23, <1>24,
     <1>25, <1>26, <1>27, <1>28, <1>29, <1>30, <1>31, <1>32, <1>33, <1>34, <1>35
  DEF Next, Stopped, OwnerNext, LoopNext, UserNext, CallProceeds, ServerNext, ServerAnswers

LEMMA NoGiveUpNext ==
  ASSUME Faults \subseteq {"coalesce"}
  PROVE  TypeInv /\ LifeInv /\ ConnectedWhileOpen /\ CallersPending /\ AnswerComing
           /\ NeverGivesUp /\ [Next]_vars => NeverGivesUp'
<1> SUFFICES ASSUME TypeInv, LifeInv, ConnectedWhileOpen, CallersPending, AnswerComing,
                    NeverGivesUp, [Next]_vars
             PROVE  NeverGivesUp'
  OBVIOUS
<1> USE DEF NeverGivesUp, ownerVars, flagVars, ctxVars, netVars, fbVars, userVars
<1>0. /\ pc \in [Users -> {"idle", "invoke", "direct", "waiting", "answered"}]
      /\ pending \in Seq(FrameUsers) /\ inputSources \in Seq(InputUsers)
      /\ InputUsers \subseteq Users
  BY ConstantsAssumption DEF TypeInv, TypeOK
<1>r. \A u \in Users : pc[u] # "idle" => conn = "ready"
  BY DEF LifeInv, ConnectedWhileOpen
<1>1. CASE StartConnect BY <1>1 DEF StartConnect
<1>2. CASE ConnectRejected BY <1>2 DEF ConnectRejected
<1>3. CASE ConnectReturns BY <1>3 DEF ConnectReturns
<1>4. CASE ConnectTimesOut BY <1>4 DEF ConnectTimesOut
<1>5. CASE BeginDestroy BY <1>5 DEF BeginDestroy
<1>6. CASE DestroyReadsConn BY <1>6 DEF DestroyReadsConn
<1>7. CASE DestroyShutdown BY <1>7 DEF DestroyShutdown
<1>8. CASE DestroyWakes BY <1>8 DEF DestroyWakes
<1>9. CASE DestroyReturns BY <1>9 DEF DestroyReturns
<1>10. CASE LoopStarts BY <1>10 DEF LoopStarts
<1>11. CASE LoopIterates BY <1>11 DEF LoopIterates
<1>12. CASE LoopWakes BY <1>12 DEF LoopWakes
<1>13. CASE LoopIterationEnds BY <1>13 DEF LoopIterationEnds
<1>14. CASE HandleInitialized
  BY <1>14 DEF HandleInitialized, Dispatch, Resize, Ask, AskAfterResize
<1>15. CASE HandleClosed BY <1>15 DEF HandleClosed, Dispatch
<1>16. CASE HandleUpdate BY <1>16 DEF HandleUpdate, Dispatch, FbUpdate, MoveFrame, Malloc
<1>17. CASE HandleResize BY <1>17 DEF HandleResize, Dispatch, Resize, Ask, AskAfterResize
<1>18. CASE RunFrameSource BY <1>18 DEF RunFrameSource, Dispatch, RequestFrame, Ask
<1>19. CASE RunInputSource
  <2>1. 1 \in DOMAIN inputSources /\ Head(inputSources) = inputSources[1]
    BY <1>0, <1>19 DEF RunInputSource
  <2>2. pc[Head(inputSources)] # "idle" /\ Head(inputSources) \in Users
    BY <1>0, <2>1 DEF LifeInv, SourcesWait, InInput
  <2> QED BY <1>r, <2>2, <1>19 DEF RunInputSource, DoInput, Writable
<1>20. CASE LoopLeaves BY <1>20 DEF LoopLeaves
<1>21. CASE LoopUnrefs BY <1>21 DEF LoopUnrefs
<1>22. CASE LoopReleases BY <1>22 DEF LoopReleases
<1>23. CASE LoopExits BY <1>23 DEF LoopExits
<1>24. ASSUME NEW u \in FrameUsers, GetFrame(u) PROVE NeverGivesUp'
  BY <1>24 DEF GetFrame, DropFrame
<1>25. ASSUME NEW u \in InputUsers, SendInput(u) PROVE NeverGivesUp'
  BY <1>25 DEF SendInput
<1>26. ASSUME NEW u \in Users, InvokeTakesContext(u) PROVE NeverGivesUp'
  BY <1>26 DEF InvokeTakesContext
<1>27. ASSUME NEW u \in Users, InvokeRuns(u) PROVE NeverGivesUp'
  BY <1>r, <1>27 DEF InvokeRuns, DoInput, Writable
<1>28. ASSUME NEW u \in Users, InvokeQueues(u) PROVE NeverGivesUp'
  BY <1>28 DEF InvokeQueues, AfterQueueing
<1>29. ASSUME NEW u \in Users, Return(u) PROVE NeverGivesUp'
  BY <1>29 DEF Return
<1>30. ASSUME NEW u \in Users, GetFrameTimesOut(u) PROVE NeverGivesUp'
  <2>1. /\ asked = 0 /\ down = <<>> /\ frameSources = 0
        /\ \A v \in Users : pc[v] \notin {"invoke", "direct"}
    BY <1>30 DEF GetFrameTimesOut, TimerFires, Settled
  <2>2. Invoking = {}
    BY <2>1 DEF Invoking
  <2>3. conn = "ready"
    BY <1>r, <1>30 DEF GetFrameTimesOut
  <2>4. pending = <<>>
    BY <2>1, <2>2, <2>3 DEF AnswerComing
  <2>5. PICK i \in DOMAIN pending : pending[i] = u
    BY <1>30 DEF GetFrameTimesOut, CallersPending, InGetFrame
  <2> QED BY <1>0, <2>4, <2>5
<1>31. CASE ServerUpdates BY <1>31 DEF ServerUpdates, Answerable
<1>32. CASE ServerTellsSize BY <1>32 DEF ServerTellsSize
<1>33. CASE DesktopResizes BY <1>33 DEF DesktopResizes
<1>34. CASE ServerHangsUp BY <1>34 DEF ServerHangsUp
<1>35. CASE UNCHANGED vars BY <1>35 DEF vars
<1> QED
  BY <1>1, <1>2, <1>3, <1>4, <1>5, <1>6, <1>7, <1>8, <1>9, <1>10, <1>11, <1>12, <1>13,
     <1>14, <1>15, <1>16, <1>17, <1>18, <1>19, <1>20, <1>21, <1>22, <1>23, <1>24,
     <1>25, <1>26, <1>27, <1>28, <1>29, <1>30, <1>31, <1>32, <1>33, <1>34, <1>35
  DEF Next, Stopped, OwnerNext, LoopNext, UserNext, CallProceeds, ServerNext, ServerAnswers

\* As long as the server answers each request and keeps the connection, and
\* answers come in time, no call makes the client give up, for any number of
\* callers, of calls and of resizes.
THEOREM CallsAnswered == ASSUME Faults = {} PROVE Spec => []NeverGivesUp
<1> DEFINE Inv == /\ TypeInv /\ LifeInv /\ OwnershipInv /\ SizesInv
                  /\ ConnectedWhileOpen /\ CallersPending /\ AnswersUnderWay /\ NeverGivesUp
<1>1. Init => ConnectedWhileOpen /\ CallersPending /\ AnswersUnderWay /\ NeverGivesUp
  BY DEF Init, ConnectedWhileOpen, CallersPending, InGetFrame, AnswersUnderWay, NeverGivesUp
<1>2. Init => Inv
  BY <1>1, TypeInit, LifeInit, OwnershipInit, SizesInit
<1>3. Inv /\ [Next]_vars => Inv'
  BY TypeNext, LifeNext, OwnershipNext, SizesNext, ConnectedNext, PendingNext, AnswersNext,
     AnswersCome, NoGiveUpNext
<1> QED BY <1>2, <1>3, PTL DEF Spec

\* A server may answer several requests with one update, and an update serves one
\* promise only (fb_update, client.cpp:211-220).  A caller of get_frame that is alone
\* is answered all the same, whatever others send as input and however often the
\* desktop is resized: a second caller is what it takes to give up on a frame.
THEOREM LoneCallerAnswered ==
  ASSUME Faults \subseteq {"coalesce"}, \A u, v \in FrameUsers : u = v
  PROVE  Spec => []NeverGivesUp
<1> DEFINE Inv == /\ TypeInv /\ LifeInv /\ OwnershipInv /\ SizesInv
                  /\ ConnectedWhileOpen /\ CallersPending /\ AnswerComing /\ NeverGivesUp
<1>1. Init => ConnectedWhileOpen /\ CallersPending /\ AnswerComing /\ NeverGivesUp
  BY DEF Init, ConnectedWhileOpen, CallersPending, InGetFrame, AnswerComing, NeverGivesUp
<1>2. Init => Inv
  BY <1>1, TypeInit, LifeInit, OwnershipInit, SizesInit
<1>3. Inv /\ [Next]_vars => Inv'
  BY TypeNext, LifeNext, OwnershipNext, SizesNext, ConnectedNext, PendingNext,
     AnswerComingNext, NoGiveUpNext
<1> QED BY <1>2, <1>3, PTL DEF Spec

-----------------------------------------------------------------------------
(* Input events.                                                             *)

\* Everything a caller of an input function has issued has been written, but
\* for the event of a call in progress.
Written(u) == IF InInput(u) /\ pc[u] # "answered" THEN issued[u] - 1 ELSE issued[u]

SentInv ==
  /\ \A i, j \in DOMAIN sent :
       i < j /\ sent[i].user = sent[j].user => sent[i].no < sent[j].no
  /\ \A i \in DOMAIN sent : sent[i].no <= Written(sent[i].user)
  /\ \A u \in InputUsers, n \in Nat : 1 <= n /\ n <= Written(u) =>
       \E i \in DOMAIN sent : sent[i] = [user |-> u, no |-> n]
  /\ \A u \in Users : InInput(u) => issued[u] > 0
  /\ \A u \in Users : pc[u] = "answered" => call[u] = "input"

CallTypes == /\ pc \in [Users -> {"idle", "invoke", "direct", "waiting", "answered"}]
             /\ call \in [Users -> {"frame", "input"}] /\ issued \in [Users -> Nat]
             /\ sent \in Seq(Event) /\ InputUsers \subseteq Users
             /\ \A u \in Users : call[u] = "input" => u \in InputUsers

LEMMA CallsTyped == TypeInv => CallTypes
BY ConstantsAssumption DEF TypeInv, TypeOK, InputCallers, CallTypes

\* What writing the event of a call in progress does to the record.
LEMMA EventWritten ==
  ASSUME CallTypes, SentInv, NEW u \in Users, InInput(u), pc[u] # "answered",
         sent' = Append(sent, [user |-> u, no |-> issued[u]]),
         issued' = issued, call' = call, pc' = [pc EXCEPT ![u] = "answered"]
  PROVE  SentInv'
<1> USE DEF CallTypes, InInput
<1> DEFINE e == [user |-> u, no |-> issued[u]]
<1>1. e \in Event /\ e.user = u /\ e.no = issued[u] /\ issued[u] \in Nat /\ issued[u] > 0
  BY DEF Event, SentInv
<1>2. /\ Len(sent) \in Nat /\ Len(sent') = Len(sent) + 1 /\ sent'[Len(sent) + 1] = e
      /\ \A i \in DOMAIN sent : i \in DOMAIN sent' /\ sent'[i] = sent[i] /\ sent[i] \in Event
  OBVIOUS
<1>3. /\ Written(u) = issued[u] - 1 /\ Written(u)' = issued[u]
      /\ \A v \in Users \ {u} : Written(v)' = Written(v)
  BY DEF Written
<1>4. \A i \in DOMAIN sent : sent[i].user \in InputUsers /\ sent[i].no \in Nat
  BY <1>2 DEF Event
<1>5. \A i \in DOMAIN sent : sent[i].user = u => sent[i].no < issued[u]
  BY <1>1, <1>3, <1>4 DEF SentInv
<1> HIDE DEF e
<1>6. \A i, j \in DOMAIN sent' :
        i < j /\ sent'[i].user = sent'[j].user => sent'[i].no < sent'[j].no
  BY <1>1, <1>2, <1>5 DEF SentInv
<1>7. (\A i \in DOMAIN sent : sent[i].no <= Written(sent[i].user))'
  <2> SUFFICES ASSUME NEW i \in DOMAIN sent' PROVE (sent[i].no <= Written(sent[i].user))'
    OBVIOUS
  <2>1. CASE i = Len(sent) + 1
    BY <1>1, <1>2, <1>3, <2>1
  <2>2. CASE i # Len(sent) + 1
    <3>1. i \in DOMAIN sent
      BY <1>2, <2>2
    <3>2. CASE sent[i].user = u
      BY <1>1, <1>2, <1>3, <1>4, <1>5, <3>1, <3>2
    <3>3. CASE sent[i].user # u
      BY <1>2, <1>3, <1>4, <3>1, <3>3 DEF SentInv
    <3> QED BY <3>2, <3>3
  <2> QED BY <2>1, <2>2
<1>8. ASSUME NEW v \in InputUsers, NEW n \in Nat, 1 <= n, n <= Written(v)'
      PROVE  \E i \in DOMAIN sent' : sent'[i] = [user |-> v, no |-> n]
  <2>1. CASE v = u /\ n = issued[u]
    BY <1>2, <2>1 DEF e
  <2>2. CASE ~(v = u /\ n = issued[u])
    <3>1. n <= Written(v)
      BY <1>1, <1>3, <1>8, <2>2
    <3>2. PICK i \in DOMAIN sent : sent[i] = [user |-> v, no |-> n]
      BY <1>8, <3>1 DEF SentInv
    <3> QED BY <1>2, <3>2
  <2> QED BY <2>1, <2>2
<1>9. (\A v \in Users : InInput(v) => issued[v] > 0)'
  BY DEF SentInv
<1>10. (\A v \in Users : pc[v] = "answered" => call[v] = "input")'
  BY DEF SentInv
<1> QED BY <1>6, <1>7, <1>8, <1>9, <1>10 DEF SentInv

LEMMA NothingWritten ==
  ASSUME CallTypes, SentInv, sent' = sent, \A u \in Users : Written(u)' = Written(u),
         (\A u \in Users : InInput(u) => issued[u] > 0)',
         (\A u \in Users : pc[u] = "answered" => call[u] = "input")'
  PROVE  SentInv'
<1>1. \A i \in DOMAIN sent : sent[i].user \in Users
  <2>1. \A i \in DOMAIN sent : sent[i] \in Event
    BY DEF CallTypes
  <2> QED BY <2>1 DEF CallTypes, Event
<1> QED BY <1>1 DEF SentInv, CallTypes

LEMMA SentNext == TypeInv /\ LifeInv /\ SentInv /\ [Next]_vars => SentInv'
<1> SUFFICES ASSUME TypeInv, LifeInv, SentInv, [Next]_vars PROVE SentInv'
  OBVIOUS
<1> USE DEF ownerVars, flagVars, ctxVars, netVars, fbVars, userVars
<1>0. CallTypes
  BY CallsTyped
<1>i. ASSUME UNCHANGED <<sent, pc, call, issued>> PROVE SentInv'
  BY <1>i DEF SentInv, Written, InInput
<1>1. CASE StartConnect
  BY <1>i, <1>1 DEF StartConnect
<1>2. CASE ConnectRejected
  BY <1>i, <1>2 DEF ConnectRejected
<1>3. CASE ConnectReturns
  BY <1>i, <1>3 DEF ConnectReturns
<1>4. CASE ConnectTimesOut
  BY <1>i, <1>4 DEF ConnectTimesOut
<1>5. CASE BeginDestroy
  BY <1>i, <1>5 DEF BeginDestroy
<1>6. CASE DestroyReadsConn
  BY <1>i, <1>6 DEF DestroyReadsConn
<1>7. CASE DestroyShutdown
  BY <1>i, <1>7 DEF DestroyShutdown
<1>8. CASE DestroyWakes
  BY <1>i, <1>8 DEF DestroyWakes
<1>9. CASE DestroyReturns
  BY <1>i, <1>9 DEF DestroyReturns
<1>10. CASE LoopStarts
  BY <1>i, <1>10 DEF LoopStarts
<1>11. CASE LoopIterates
  BY <1>i, <1>11 DEF LoopIterates
<1>12. CASE LoopWakes
  BY <1>i, <1>12 DEF LoopWakes
<1>13. CASE LoopIterationEnds
  BY <1>i, <1>13 DEF LoopIterationEnds
<1>14. CASE HandleInitialized
  BY <1>i, <1>14 DEF HandleInitialized
<1>15. CASE HandleClosed
  BY <1>i, <1>15 DEF HandleClosed
<1>16. CASE HandleUpdate
  BY <1>i, <1>16 DEF HandleUpdate
<1>17. CASE HandleResize
  BY <1>i, <1>17 DEF HandleResize
<1>18. CASE RunFrameSource
  BY <1>i, <1>18 DEF RunFrameSource
<1>19. CASE RunInputSource
  <2> DEFINE u == Head(inputSources)
  <2>1. u \in Users /\ InInput(u) /\ pc[u] = "waiting"
    BY ConstantsAssumption, <1>19 DEF RunInputSource, TypeInv, TypeOK, LifeInv, SourcesWait
  <2>2. CASE Writable
    BY <1>0, <2>1, <2>2, EventWritten, <1>19 DEF RunInputSource, DoInput
  <2>3. CASE ~Writable
    BY <1>i, <2>3, <1>19 DEF RunInputSource, DoInput
  <2> QED BY <2>2, <2>3
<1>20. CASE LoopLeaves
  BY <1>i, <1>20 DEF LoopLeaves
<1>21. CASE LoopUnrefs
  BY <1>i, <1>21 DEF LoopUnrefs
<1>22. CASE LoopReleases
  BY <1>i, <1>22 DEF LoopReleases
<1>23. CASE LoopExits
  BY <1>i, <1>23 DEF LoopExits
<1>24. ASSUME NEW u \in FrameUsers, GetFrame(u) PROVE SentInv'
  <2>1. \A v \in Users : Written(v)' = Written(v)
    BY <1>0, <1>24 DEF GetFrame, Written, InInput, CallTypes, SentInv
  <2> QED BY <1>0, <2>1, NothingWritten, <1>24 DEF GetFrame, SentInv, InInput, CallTypes
<1>25. ASSUME NEW u \in InputUsers, SendInput(u) PROVE SentInv'
  <2>1. \A v \in Users : Written(v)' = Written(v)
    BY <1>0, <1>25 DEF SendInput, Written, InInput, CallTypes, SentInv
  <2> QED BY <1>0, <2>1, NothingWritten, <1>25 DEF SendInput, SentInv, InInput, CallTypes
<1>26. ASSUME NEW u \in Users, InvokeTakesContext(u) PROVE SentInv'
  <2>1. \A v \in Users : Written(v)' = Written(v)
    BY <1>0, <1>26 DEF InvokeTakesContext, Written, InInput, CallTypes, SentInv
  <2> QED BY <1>0, <2>1, NothingWritten, <1>26 DEF InvokeTakesContext, SentInv, InInput, CallTypes
<1>27. ASSUME NEW u \in Users, InvokeRuns(u) PROVE SentInv'
  <2>1. CASE call[u] = "frame"
    <3>1. \A v \in Users : Written(v)' = Written(v)
      BY <1>0, <2>1, <1>27 DEF InvokeRuns, Written, InInput, CallTypes
    <3> QED BY <1>0, <2>1, <3>1, NothingWritten, <1>27 DEF InvokeRuns, SentInv, InInput, CallTypes
  <2>2. CASE call[u] = "input" /\ Writable
    <3>1. InInput(u) /\ pc[u] # "answered"
      BY <2>2, <1>27 DEF InvokeRuns, InInput
    <3> QED BY <1>0, <2>2, <3>1, EventWritten, <1>27 DEF InvokeRuns, DoInput
  <2>3. CASE call[u] = "input" /\ ~Writable
    BY <1>i, <2>3, <1>27 DEF InvokeRuns, DoInput
  <2> QED BY <1>0, <2>1, <2>2, <2>3 DEF CallTypes
<1>28. ASSUME NEW u \in Users, InvokeQueues(u) PROVE SentInv'
  <2>1. \A v \in Users : Written(v)' = Written(v)
    BY <1>0, <1>28 DEF InvokeQueues, AfterQueueing, Written, InInput, CallTypes, SentInv
  <2> QED
    BY <1>0, <2>1, NothingWritten, <1>28
       DEF InvokeQueues, AfterQueueing, SentInv, InInput, CallTypes
<1>29. ASSUME NEW u \in Users, Return(u) PROVE SentInv'
  <2>1. \A v \in Users : Written(v)' = Written(v)
    BY <1>0, <1>29 DEF Return, Written, InInput, CallTypes, SentInv
  <2> QED BY <1>0, <2>1, NothingWritten, <1>29 DEF Return, SentInv, InInput, CallTypes
<1>30. ASSUME NEW u \in Users, GetFrameTimesOut(u) PROVE SentInv'
  BY <1>i, <1>30 DEF GetFrameTimesOut
<1>31. CASE ServerUpdates
  BY <1>i, <1>31 DEF ServerUpdates
<1>32. CASE ServerTellsSize
  BY <1>i, <1>32 DEF ServerTellsSize
<1>33. CASE DesktopResizes
  BY <1>i, <1>33 DEF DesktopResizes
<1>34. CASE ServerHangsUp
  BY <1>i, <1>34 DEF ServerHangsUp
<1>35. CASE UNCHANGED vars BY <1>i, <1>35 DEF vars
<1> QED
  BY <1>1, <1>2, <1>3, <1>4, <1>5, <1>6, <1>7, <1>8, <1>9, <1>10, <1>11, <1>12, <1>13,
     <1>14, <1>15, <1>16, <1>17, <1>18, <1>19, <1>20, <1>21, <1>22, <1>23, <1>24,
     <1>25, <1>26, <1>27, <1>28, <1>29, <1>30, <1>31, <1>32, <1>33, <1>34, <1>35
  DEF Next, Stopped, OwnerNext, LoopNext, UserNext, CallProceeds, ServerNext, ServerAnswers

\* Input events reach the server once each and in the order their caller made
\* them, whatever fails and whichever thread writes them, and a call that has
\* returned has been written.
THEOREM EventsInOrder == Spec => []InputInOrder
<1>1. Init => SentInv
  <2> SUFFICES ASSUME Init PROVE SentInv
    OBVIOUS
  <2>1. \A u \in Users : Written(u) = 0
    BY DEF Init, Written, InInput
  <2> QED BY <2>1, ConstantsAssumption DEF Init, SentInv, InInput
<1>2. TypeInv /\ SentInv => InputInOrder
  <2> SUFFICES ASSUME TypeInv, SentInv PROVE InputInOrder
    OBVIOUS
  <2>1. \A u \in InputUsers : ~InInput(u) => Written(u) = issued[u] /\ issued[u] \in Nat
    BY CallsTyped DEF Written, CallTypes
  <2> QED BY <2>1 DEF SentInv, InputInOrder
<1> QED
  BY <1>1, <1>2, TypeInit, TypeNext, LifeInit, LifeNext, SentNext, PTL DEF Spec

-----------------------------------------------------------------------------
(* Client implements ClientService.                                          *)

LEMMA DoingCases ==
  ASSUME NEW u \in Users, pc[u] \in {"idle", "invoke", "direct", "waiting", "answered"},
         call[u] \in {"frame", "input"}
  PROVE  Doing(u) = IF pc[u] = "idle" THEN "nothing"
                    ELSE IF call[u] = "frame" THEN "frame"
                    ELSE IF pc[u] = "answered" THEN "written" ELSE "input"
BY DEF Doing

\* Steps that neither begin, serve nor end a call.
LEMMA ServiceStutters ==
  ASSUME UNCHANGED <<pending, frame, issued, sent>>, \A u \in Users : Doing(u)' = Doing(u),
         UNCHANGED owner
  PROVE  UNCHANGED Service!vars
BY DEF Service!vars

LEMMA ServiceStep ==
  ASSUME TypeInv, TypeInv', LifeInv, OwnershipInv, [Next]_vars
  PROVE  [Service!Next]_(Service!vars)
<1> DEFINE doing == [u \in Users |-> Doing(u)]
<1> USE DEF ownerVars, flagVars, ctxVars, netVars, fbVars, userVars
<1>0. /\ pc \in [Users -> {"idle", "invoke", "direct", "waiting", "answered"}]
      /\ call \in [Users -> {"frame", "input"}] /\ pending \in Seq(FrameUsers)
      /\ frame \in [Users -> Buffers \cup {NoBuf}] /\ fb \in Buffers \cup {NoBuf}
      /\ FrameUsers \subseteq Users /\ InputUsers \subseteq Users
      /\ \A u \in Users : call[u] = "input" => u \in InputUsers
  BY ConstantsAssumption DEF TypeInv, TypeOK, InputCallers
<1>1. \A u \in Users : Doing(u) = IF pc[u] = "idle" THEN "nothing"
                                  ELSE IF call[u] = "frame" THEN "frame"
                                  ELSE IF pc[u] = "answered" THEN "written" ELSE "input"
  BY <1>0, DoingCases
<1>2. \A u \in Users : Doing(u)' = IF pc'[u] = "idle" THEN "nothing"
                                   ELSE IF call'[u] = "frame" THEN "frame"
                                   ELSE IF pc'[u] = "answered" THEN "written" ELSE "input"
  BY DEF TypeInv, TypeOK, Doing
<1>3. ASSUME UNCHANGED <<pc, call>> PROVE \A u \in Users : Doing(u)' = Doing(u)
  BY <1>1, <1>2, <1>3
\* What happens to one caller.
<1>4. ASSUME NEW u \in Users, NEW what, Doing(u)' = what, \A v \in Users \ {u} : Doing(v)' = Doing(v)
      PROVE  doing' = [doing EXCEPT ![u] = what]
  BY <1>4
<1>5. ASSUME NEW u \in Users, pc[u] # "idle" PROVE owner = "open"
  BY <1>5 DEF LifeInv
<1>6. CASE StartConnect \/ DestroyReadsConn \/ DestroyShutdown \/ DestroyWakes \/ DestroyReturns
  <2>1. UNCHANGED <<pc, call, pending, frame, issued, sent>>
        /\ \/ owner = "new" /\ owner' = "starting"
           \/ owner \in {"exiting", "shutting", "waking", "waiting"}
              /\ owner' \in {"shutting", "waking", "waiting", "destroyed"}
    BY <1>6 DEF StartConnect, DestroyReadsConn, DestroyShutdown, DestroyWakes, DestroyReturns
  <2> QED BY <1>3, <2>1 DEF Service!vars
<1>7. CASE ConnectRejected \/ ConnectReturns \/ ConnectTimesOut \/ BeginDestroy
  <2>1. UNCHANGED <<pc, call, pending, frame, issued, sent>> /\ doing' = doing
    <3>1. UNCHANGED <<pc, call, pending, frame, issued, sent>>
      BY <1>7 DEF ConnectRejected, ConnectReturns, ConnectTimesOut, BeginDestroy
    <3> QED BY <1>3, <3>1
  <2>2. CASE owner \in {"new", "starting"}
    <3>1. owner' \in {"rejected", "open", "failed"}
      BY <1>7, <2>2 DEF ConnectRejected, ConnectReturns, ConnectTimesOut, BeginDestroy
    <3>2. Service!ChangesPhase
      BY <2>1, <2>2, <3>1 DEF Service!ChangesPhase, Service!Connects
    <3> QED BY <3>2 DEF Service!Next
  <2>3. CASE owner = "open"
    <3>1. owner' = "exiting" /\ \A u \in Users : pc[u] = "idle"
      BY <1>7, <2>3 DEF ConnectRejected, ConnectReturns, ConnectTimesOut, BeginDestroy
    <3>2. Service!ChangesPhase
      BY <1>1, <2>1, <2>3, <3>1 DEF Service!ChangesPhase, Service!Closes
    <3> QED BY <3>2 DEF Service!Next
  <2>4. CASE owner \notin {"new", "starting", "open"}
    <3>1. owner' = "exiting"
      BY <1>7, <2>4 DEF ConnectRejected, ConnectReturns, ConnectTimesOut, BeginDestroy
    <3> QED BY <2>1, <2>4, <3>1 DEF Service!vars
  <2> QED BY <2>2, <2>3, <2>4
<1>8. CASE HandleUpdate
  <2>1. UNCHANGED <<owner, pc, call, issued, sent>> /\ Writable
    BY <1>8 DEF HandleUpdate
  <2>2. CASE pending = <<>>
    <3>1. UNCHANGED <<pending, frame>>
      BY <1>8, <2>2 DEF HandleUpdate, FbUpdate
    <3> QED BY <1>3, <2>1, <3>1, ServiceStutters
  <2>3. CASE pending # <<>>
    <3>1. frame' = [frame EXCEPT ![Head(pending)] = fb] /\ pending' = Tail(pending)
      BY <1>8, <2>3 DEF HandleUpdate, FbUpdate, MoveFrame
    <3>2. 1 \in DOMAIN pending /\ Head(pending) = pending[1] /\ Head(pending) \in Users
      BY <1>0, <2>3
    <3>3. InGetFrame(Head(pending)) /\ frame[Head(pending)] = NoBuf
      BY <3>2 DEF OwnershipInv, PromisesWait
    <3>4. owner = "open" /\ doing[Head(pending)] = "frame" /\ doing' = doing
      BY <1>1, <1>3, <1>5, <2>1, <3>2, <3>3 DEF InGetFrame
    <3>5. fb \in Buffers /\ fb \notin {frame[u] : u \in Users}
      <4>1. fb # NoBuf
        BY <2>1 DEF OwnershipInv, FramebufferInstalled
      <4>2. \A u \in Users : frame[u] # fb
        BY <4>1 DEF OwnershipInv, BuffersOwned
      <4> QED BY <1>0, <4>1, <4>2
    <3>6. Service!FrameIsDue
      BY <2>1, <2>3, <3>1, <3>4, <3>5 DEF Service!FrameIsDue
    <3> QED BY <3>6 DEF Service!Next
  <2> QED BY <2>2, <2>3
\* The event of an input call is written.
<1>9. ASSUME NEW u \in Users, InInput(u), pc[u] # "answered", sent' = Append(sent, [user |-> u, no |-> issued[u]]),
             pc' = [pc EXCEPT ![u] = "answered"], UNCHANGED <<owner, call, pending, frame, issued>>
      PROVE  Service!Next
  <2>1. owner = "open" /\ call[u] = "input" /\ pc[u] # "idle" /\ u \in InputUsers
    BY <1>0, <1>5, <1>9 DEF InInput
  <2>2. doing[u] = "input" /\ Doing(u)' = "written" /\ \A v \in Users \ {u} : Doing(v)' = Doing(v)
    BY <1>0, <1>1, <1>2, <1>9, <2>1
  <2>3. doing' = [doing EXCEPT ![u] = "written"]
    BY <1>4, <2>2
  <2>4. Service!IsWritten(u)
    BY <1>9, <2>1, <2>2, <2>3 DEF Service!IsWritten
  <2> QED BY <2>1, <2>4 DEF Service!Next
<1>10. CASE RunInputSource
  <2> DEFINE u == Head(inputSources)
  <2>1. u \in Users /\ InInput(u) /\ pc[u] = "waiting"
    BY ConstantsAssumption, <1>10 DEF RunInputSource, TypeInv, TypeOK, LifeInv, SourcesWait
  <2>2. CASE Writable
    <3>1. /\ sent' = Append(sent, [user |-> u, no |-> issued[u]])
          /\ pc' = [pc EXCEPT ![u] = "answered"] /\ UNCHANGED <<owner, call, pending, frame, issued>>
      BY <1>10, <2>2 DEF RunInputSource, DoInput
    <3> QED BY <1>9, <2>1, <3>1
  <2>3. CASE ~Writable
    <3>1. UNCHANGED <<owner, pc, call, pending, frame, issued, sent>>
      BY <1>10, <2>3 DEF RunInputSource, DoInput
    <3> QED BY <1>3, <3>1, ServiceStutters
  <2> QED BY <2>2, <2>3
<1>11. ASSUME NEW u \in FrameUsers, GetFrame(u) PROVE Service!Next
  <2>1. /\ owner = "open" /\ pc[u] = "idle" /\ u \in Users /\ pending' = Append(pending, u)
        /\ frame' = [frame EXCEPT ![u] = NoBuf] /\ UNCHANGED <<owner, issued, sent>>
    BY <1>0, <1>11 DEF GetFrame
  <2>2. doing[u] = "nothing" /\ Doing(u)' = "frame" /\ \A v \in Users \ {u} : Doing(v)' = Doing(v)
    BY <1>0, <1>1, <1>2, <1>11, <2>1 DEF GetFrame
  <2>3. doing' = [doing EXCEPT ![u] = "frame"]
    BY <1>4, <2>1, <2>2
  <2>4. Service!CallsForFrame(u)
    BY <2>1, <2>2, <2>3 DEF Service!CallsForFrame, Service!Begins
  <2> QED BY <2>4 DEF Service!Next
<1>12. ASSUME NEW u \in InputUsers, SendInput(u) PROVE Service!Next
  <2>1. /\ owner = "open" /\ pc[u] = "idle" /\ u \in Users
        /\ issued' = [issued EXCEPT ![u] = @ + 1] /\ UNCHANGED <<owner, pending, frame, sent>>
    BY <1>0, <1>12 DEF SendInput
  <2>2. doing[u] = "nothing" /\ Doing(u)' = "input" /\ \A v \in Users \ {u} : Doing(v)' = Doing(v)
    BY <1>0, <1>1, <1>2, <1>12, <2>1 DEF SendInput
  <2>3. doing' = [doing EXCEPT ![u] = "input"]
    BY <1>4, <2>1, <2>2
  <2>4. Service!CallsWithInput(u)
    BY <2>1, <2>2, <2>3 DEF Service!CallsWithInput, Service!Begins
  <2> QED BY <2>4 DEF Service!Next
<1>13. ASSUME NEW u \in Users, Return(u) PROVE Service!Next
  <2>1. /\ pc' = [pc EXCEPT ![u] = "idle"] /\ UNCHANGED <<owner, call, pending, frame, issued, sent>>
    BY <1>13 DEF Return
  <2>2. Doing(u)' = "nothing" /\ \A v \in Users \ {u} : Doing(v)' = Doing(v)
    BY <1>0, <1>1, <1>2, <2>1
  <2>3. doing' = [doing EXCEPT ![u] = "nothing"]
    BY <1>4, <2>2
  <2>4. CASE call[u] = "frame"
    <3>1. doing[u] = "frame" /\ frame[u] # NoBuf
      BY <1>1, <1>13, <2>4 DEF Return
    <3>2. Service!ReturnsFrame(u)
      BY <2>1, <2>3, <3>1 DEF Service!ReturnsFrame, Service!Returns
    <3> QED BY <3>2 DEF Service!Next
  <2>5. CASE call[u] = "input"
    <3>1. doing[u] = "written"
      BY <1>1, <1>13, <2>5 DEF Return
    <3>2. Service!ReturnsFromInput(u)
      BY <2>1, <2>3, <3>1 DEF Service!ReturnsFromInput, Service!Returns
    <3> QED BY <3>2 DEF Service!Next
  <2> QED BY <1>0, <2>4, <2>5
\* A call in progress moves on without being served.
<1>14. ASSUME NEW u \in Users, pc[u] \in {"invoke", "direct"}, pc'[u] \in {"direct", "waiting"},
              \A v \in Users \ {u} : pc'[v] = pc[v], UNCHANGED <<owner, call, pending, frame, issued, sent>>
       PROVE  UNCHANGED Service!vars
  <2>1. \A v \in Users : Doing(v)' = Doing(v)
    BY <1>1, <1>2, <1>14
  <2> QED BY <1>14, <2>1, ServiceStutters
<1>15. ASSUME NEW u \in Users, InvokeTakesContext(u) PROVE UNCHANGED Service!vars
  BY <1>0, <1>14, <1>15 DEF InvokeTakesContext
<1>16. ASSUME NEW u \in Users, InvokeQueues(u) PROVE UNCHANGED Service!vars
  BY <1>0, <1>14, <1>16 DEF InvokeQueues, AfterQueueing
<1>17. ASSUME NEW u \in Users, InvokeRuns(u) PROVE [Service!Next]_(Service!vars)
  <2>1. CASE call[u] = "frame"
    BY <1>0, <1>14, <1>17, <2>1 DEF InvokeRuns
  <2>2. CASE call[u] = "input" /\ Writable
    <3>1. InInput(u) /\ pc[u] = "direct"
      BY <1>17, <2>2 DEF InvokeRuns, InInput
    <3>2. /\ sent' = Append(sent, [user |-> u, no |-> issued[u]])
          /\ pc' = [pc EXCEPT ![u] = "answered"] /\ UNCHANGED <<owner, call, pending, frame, issued>>
      BY <1>17, <2>2 DEF InvokeRuns, DoInput
    <3> QED BY <1>9, <3>1, <3>2
  <2>3. CASE call[u] = "input" /\ ~Writable
    <3>1. UNCHANGED <<owner, pc, call, pending, frame, issued, sent>>
      BY <1>17, <2>3 DEF InvokeRuns, DoInput
    <3> QED BY <1>3, <3>1, ServiceStutters
  <2> QED BY <1>0, <2>1, <2>2, <2>3
<1>18. ASSUME UNCHANGED <<owner, pc, call, pending, frame, issued, sent>> PROVE UNCHANGED Service!vars
  BY <1>3, <1>18, ServiceStutters
<1>19. CASE \/ LoopStarts \/ LoopIterates \/ LoopWakes \/ LoopIterationEnds \/ HandleInitialized
            \/ HandleClosed \/ HandleResize \/ RunFrameSource
            \/ LoopLeaves \/ LoopUnrefs \/ LoopReleases \/ LoopExits
  BY <1>18, <1>19 DEF LoopStarts, LoopIterates, LoopWakes, LoopIterationEnds, HandleInitialized,
     HandleClosed, HandleResize, RunFrameSource, LoopLeaves, LoopUnrefs, LoopReleases, LoopExits
<1>20. ASSUME NEW u \in Users, GetFrameTimesOut(u) PROVE UNCHANGED Service!vars
  BY <1>18, <1>20 DEF GetFrameTimesOut
<1>21. CASE ServerUpdates \/ ServerTellsSize \/ DesktopResizes \/ ServerHangsUp
  BY <1>18, <1>21 DEF ServerUpdates, ServerTellsSize, DesktopResizes, ServerHangsUp
<1>22. CASE UNCHANGED vars
  BY <1>18, <1>22 DEF vars
<1> QED
  BY <1>6, <1>7, <1>8, <1>10, <1>11, <1>12, <1>13, <1>15, <1>16, <1>17, <1>19, <1>20, <1>21, <1>22
  DEF Next, Stopped, OwnerNext, LoopNext, UserNext, CallProceeds, ServerNext, ServerAnswers

\* What the threads that call the client see is the service of ClientService, for
\* any number of threads and whatever fails: frames in the order of the calls,
\* events written before their calls return, nothing served twice.
THEOREM ImplementsService == Spec => ServiceKept
<1>1. Init => Service!Init
  <2> SUFFICES ASSUME Init PROVE Service!Init
    OBVIOUS
  <2>1. \A u \in Users : Doing(u) = "nothing"
    BY DEF Init, Doing
  <2>2. [u \in Users |-> Doing(u)] = [u \in Users |-> "nothing"]
    BY <2>1
  <2> QED BY <2>2 DEF Init, Service!Init
<1>2. TypeInv /\ LifeInv /\ OwnershipInv /\ [Next]_vars => [Service!Next]_(Service!vars)
  BY TypeNext, ServiceStep
<1> QED
  BY <1>1, <1>2, TypeInit, TypeNext, LifeInit, LifeNext, OwnershipInit, OwnershipNext, PTL
     DEF Spec, ServiceKept, Service!Spec
=============================================================================
