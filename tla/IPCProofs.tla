----------------------------- MODULE IPCProofs -----------------------------
(***************************************************************************)
(* For every set of payloads, every message size and every number of calls *)
(* and moves: IPC keeps its types, never ends its process in a call, keeps *)
(* its objects whole and implements Channel.  The inductive invariant,     *)
(* Sound, says where an object stands with its socket and that the field   *)
(* blocking_ and O_NONBLOCK agree.                                         *)
(***************************************************************************)
EXTENDS IPC, TLAPS

\* Each end is the other's peer.
LEMMA Peers ==
  ASSUME NEW e \in Ends
  PROVE  Peer(e) \in Ends /\ Peer(e) # e /\ Peer(Peer(e)) = e
BY DEF Peer, Ends

\* What recv leaves behind is a stream, and a position in its first item.
LEMMA ReadLeaves ==
  ASSUME NEW s \in Seq(Items), s # <<>>, NEW c \in 0..(Size - 1)
  PROVE  LET r == Read(s, c) IN
         /\ r.n \in Nat /\ r.rest \in Seq(Items) /\ r.cut \in 0..(Size - 1)
         /\ r.cut # 0 => r.rest # <<>> /\ Head(r.rest).kind = "message"
<1>1. Tail(s) \in Seq(Items) /\ (Tail(s) # <<>> => Tail(Tail(s)) \in Seq(Items))
  OBVIOUS
<1>2. Tail(s) # <<>> => Head(Tail(s)) \in Items
  BY <1>1
<1>3. Head(s) \in Items
  OBVIOUS
<1> QED BY <1>1, <1>2, <1>3, SizeAssumption DEF Read, Items, Kinds

-----------------------------------------------------------------------------
(* Types.                                                                   *)

\* The initial state has the types.
LEMMA TypeInit == Init => TypeOK
<1> SUFFICES ASSUME Init PROVE TypeOK
  OBVIOUS
<1>1. /\ calls \in [Ends -> Nat] /\ \A e \in Ends : calls[e] <= MaxCalls[e]
      /\ moves \in 0..MaxMoves
  BY BoundsAssumption DEF Init
<1>2. cut \in [Ends -> 0..(Size - 1)] /\ way \in [Ends -> Seq(Items)]
  BY SizeAssumption DEF Init
<1>3. /\ call \in [Ends -> Calls] /\ got \in [Ends -> Items \cup [kind : Outcomes]]
      /\ shells \in [Ends -> SUBSET SUBSET Resources]
  BY DEF Init, NoCall, Calls, Kinds, Outcomes
<1> QED BY <1>1, <1>2, <1>3 DEF Init, TypeOK

\* Letting go of resources keeps the types of the sockets and the streams.
LEMMA TypeLetsGo ==
  ASSUME TypeOK, NEW e \in Ends, NEW what, LetsGo(e, what)
  PROVE  /\ sock' \in [Ends -> {"none", "open", "closed"}]
         /\ listening' \in BOOLEAN /\ file' \in BOOLEAN
         /\ way' \in [Ends -> Seq(Items)] /\ cut' \in [Ends -> 0..(Size - 1)]
BY SizeAssumption, Z3 DEF TypeOK, LetsGo

\* Returning from a call keeps the types of the call's variables.
LEMMA TypeReturn ==
  ASSUME TypeOK, NEW e \in Ends, NEW r \in Items \cup [kind : Outcomes], Return(e, r)
  PROVE  /\ pc' \in [Ends -> {"idle", "accept", "call"}] /\ call' \in [Ends -> Calls]
         /\ got' \in [Ends -> Items \cup [kind : Outcomes]]
BY DEF TypeOK, Return, NoCall, Calls, Kinds

\* Every step keeps the types.
LEMMA TypeNext == TypeOK /\ [Next]_vars => TypeOK'
<1> SUFFICES ASSUME TypeOK, [Next]_vars PROVE TypeOK'
  OBVIOUS
<1>0. Ends = {"server", "client"}
  BY DEF Ends
<1> USE DEF TypeOK, objectVars, socketVars, streamVars, callVars
<1>1. CASE Create BY <1>0, <1>1 DEF Create
<1>2. CASE Connect BY <1>0, <1>2 DEF Connect
<1>3. CASE Accept BY <1>0, <1>3 DEF Accept, SetBlocking, Calls
<1>4. CASE CleanUpFromClient BY <1>4 DEF CleanUpFromClient
<1>5. ASSUME NEW e \in Ends, Move(e) PROVE TypeOK'
  <2>1. moves' \in 0..MaxMoves
    BY <1>5, BoundsAssumption DEF Move
  <2>2. shells' \in [Ends -> SUBSET SUBSET Resources]
    BY <1>5 DEF Move, LeftBehind
  <2> QED BY <1>5, <2>1, <2>2 DEF Move
<1>6. ASSUME NEW e \in Ends, DropShell(e) PROVE TypeOK'
  <2>1. PICK s \in shells[e] : shells' = [shells EXCEPT ![e] = @ \ {s}] /\ LetsGo(e, s)
    BY <1>6 DEF DropShell
  <2>2. shells' \in [Ends -> SUBSET SUBSET Resources]
    BY <2>1
  <2> QED BY <1>6, <2>1, <2>2, TypeLetsGo DEF DropShell
<1>7. ASSUME NEW e \in Ends, Destroy(e) PROVE TypeOK'
  BY <1>7, TypeLetsGo DEF Destroy
<1>8. ASSUME NEW e \in Ends, Crashes(e) PROVE TypeOK'
  <2>1. LetsGo(e, Held(e) \ {"file"}) /\ Return(e, got[e])
    BY <1>8 DEF Crashes
  <2> QED BY <1>8, <2>1, TypeLetsGo, TypeReturn DEF Crashes
<1>9. ASSUME NEW e \in Ends, NEW c \in Calls, Begin(e, c) PROVE TypeOK'
  <2>1. calls' \in [Ends -> Nat] /\ \A f \in Ends : calls'[f] <= MaxCalls[f]
    <3>1. calls[e] + 1 \in Nat /\ calls[e] + 1 <= MaxCalls[e]
      <4>1. calls[e] < MaxCalls[e] /\ calls[e] \in Nat
        BY <1>9 DEF Begin
      <4>2. MaxCalls[e] \in Nat
        BY BoundsAssumption
      <4> QED BY <4>1, <4>2
    <3> QED BY <1>9, <3>1 DEF Begin
  <2>2. waits' \in [Ends -> BOOLEAN] /\ blocking' \in [Ends -> BOOLEAN]
    BY <1>9 DEF Begin, SetBlocking, Calls
  <2> QED BY <1>9, <2>1, <2>2 DEF Begin
<1>10. ASSUME NEW e \in Ends, Sends(e) PROVE TypeOK'
  <2>1. /\ pc' \in [Ends -> {"idle", "accept", "call"}] /\ call' \in [Ends -> Calls]
        /\ got' \in [Ends -> Items \cup [kind : Outcomes]]
    BY <1>10, TypeReturn DEF Sends, Outcomes
  <2>2. way' \in [Ends -> Seq(Items)]
    <3>1. \A v \in Payloads : [kind |-> call[e].kind, val |-> v] \in Items
      BY DEF Calls, Items
    <3>2. \A i \in Items : Append(way[Peer(e)], i) \in Seq(Items)
      BY Peers
    <3>3. CASE HungUp(Peer(e)) BY <1>10, <3>3 DEF Sends
    <3>4. CASE ~HungUp(Peer(e))
      <4>1. PICK v \in Payloads :
              way' = [way EXCEPT ![Peer(e)] = Append(@, [kind |-> call[e].kind, val |-> v])]
        BY <1>10, <3>4 DEF Sends
      <4> QED BY <3>1, <3>2, <4>1
    <3> QED BY <3>3, <3>4
  <2> QED BY <1>10, <2>1, <2>2 DEF Sends
<1>11. ASSUME NEW e \in Ends, FindsNothing(e) PROVE TypeOK'
  <2>1. /\ pc' \in [Ends -> {"idle", "accept", "call"}] /\ call' \in [Ends -> Calls]
        /\ got' \in [Ends -> Items \cup [kind : Outcomes]]
    BY <1>11, TypeReturn DEF FindsNothing, Outcomes
  <2>2. obj' \in [Ends -> {"none", "live", "gone", "killed", "fatal"}]
    BY <1>11 DEF FindsNothing
  <2> QED BY <1>11, <2>1, <2>2 DEF FindsNothing
<1>12. ASSUME NEW e \in Ends, Receives(e) PROVE TypeOK'
  <2>1. way[e] \in Seq(Items) /\ way[e] # <<>> /\ cut[e] \in 0..(Size - 1)
    BY <1>12 DEF Receives
  <2>2. Received(e) \in Items \cup [kind : Outcomes]
    BY <2>1 DEF Received, Outcomes
  <2>3. /\ pc' \in [Ends -> {"idle", "accept", "call"}] /\ call' \in [Ends -> Calls]
        /\ got' \in [Ends -> Items \cup [kind : Outcomes]]
    BY <1>12, <2>2, TypeReturn DEF Receives
  <2>4. way' \in [Ends -> Seq(Items)] /\ cut' \in [Ends -> 0..(Size - 1)]
    BY <1>12, <2>1, ReadLeaves DEF Receives
  <2> QED BY <1>12, <2>3, <2>4 DEF Receives
<1>13. ASSUME NEW e \in Ends, ReceivesFd(e) PROVE TypeOK'
  <2>1. Head(way[e]) \in Items /\ Tail(way[e]) \in Seq(Items)
    BY <1>13 DEF ReceivesFd
  <2>2. /\ pc' \in [Ends -> {"idle", "accept", "call"}] /\ call' \in [Ends -> Calls]
        /\ got' \in [Ends -> Items \cup [kind : Outcomes]]
    BY <1>13, <2>1, TypeReturn DEF ReceivesFd, Outcomes
  <2>3. way' \in [Ends -> Seq(Items)]
    <3>1. CASE Head(way[e]).kind = "fd" BY <1>13, <2>1, <3>1 DEF ReceivesFd
    <3>2. CASE Head(way[e]).kind # "fd"
      <4>1. PICK s \in Seq(Items) : way' = [way EXCEPT ![e] = s]
        BY <1>13, <2>1, <3>2 DEF ReceivesFd
      <4> QED BY <4>1
    <3> QED BY <3>1, <3>2
  <2>4. cut' \in [Ends -> 0..(Size - 1)]
    <3>1. CutFurther(cut[e]) \in 0..(Size - 1)
      BY SizeAssumption DEF CutFurther
    <3> QED BY <1>13, <3>1 DEF ReceivesFd
  <2> QED BY <1>13, <2>2, <2>3, <2>4 DEF ReceivesFd
<1>14. CASE UNCHANGED vars BY <1>14 DEF vars
<1> QED BY <1>1, <1>2, <1>3, <1>4, <1>5, <1>6, <1>7, <1>8, <1>9, <1>10, <1>11, <1>12,
           <1>13, <1>14 DEF Next, Proceeds

\* The variables keep their types: in particular a message is never read past
\* its end (ipc.tpp:167-215).
THEOREM TypeCorrect == Spec => []TypeOK
BY TypeInit, TypeNext, PTL DEF Spec
-----------------------------------------------------------------------------
(* The inductive invariant.                                                 *)

FlagsAgree == \A e \in Ends : waits[e] = blocking[e]

CallsSound == \A e \in Ends :
  /\ pc[e] # "idle" => obj[e] = "live"
  /\ pc[e] = "call" => connected[e] /\ blocking[e] = call[e].block
  /\ pc[e] = "accept" => e = "server" /\ ~connected[e]

ShellsEmpty == \A e \in Ends : shells[e] \subseteq {{}}

ClientSound ==
  /\ connected["client"]
  /\ obj["client"] = "live" <=> sock["client"] = "open"
  /\ obj["client"] \in {"none", "fatal"} => sock["client"] = "none"

ServerSound ==
  /\ obj["server"] = "live" => file /\ listening
  /\ obj["server"] = "live" /\ connected["server"] => sock["server"] = "open"
  /\ ~connected["server"] => sock["server"] = "none"
  /\ obj["server"] # "live" => ~listening /\ sock["server"] # "open"
  /\ obj["server"] = "gone" => ~file
  /\ obj["server"] = "none" => ~connected["server"]
  /\ obj["server"] # "fatal"

CutsSound == \A e \in Ends :
  cut[e] # 0 => way[e] # <<>> /\ Head(way[e]).kind = "message"

Sound == FlagsAgree /\ CallsSound /\ ShellsEmpty /\ ClientSound /\ ServerSound /\ CutsSound

\* The initial state is sound.
LEMMA SoundInit == Init => Sound
BY DEF Init, Sound, FlagsAgree, CallsSound, ShellsEmpty, ClientSound, ServerSound,
       CutsSound, Ends

\* Letting go never leaves a stream in the middle of an item.
LEMMA CutsLetsGo ==
  ASSUME TypeOK, CutsSound, NEW e \in Ends, NEW what, LetsGo(e, what)
  PROVE  CutsSound'
BY DEF TypeOK, CutsSound, LetsGo

\* Every step keeps the state sound.
LEMMA SoundNext == TypeOK /\ Sound /\ [Next]_vars => Sound'
<1> SUFFICES ASSUME TypeOK, Sound, [Next]_vars PROVE Sound'
  OBVIOUS
<1>0. Ends = {"server", "client"}
  BY DEF Ends
<1> USE DEF Sound, FlagsAgree, CallsSound, ShellsEmpty, ClientSound, ServerSound,
            objectVars, socketVars, streamVars, callVars
<1>1. CASE Create BY <1>0, <1>1 DEF Create, TypeOK, CutsSound
<1>2. CASE Connect BY <1>0, <1>2 DEF Connect, TypeOK, CutsSound
<1>3. CASE Accept BY <1>0, <1>3 DEF Accept, SetBlocking, TypeOK, CutsSound
<1>4. CASE CleanUpFromClient BY <1>0, <1>4 DEF CleanUpFromClient, TypeOK, CutsSound
<1>5. ASSUME NEW e \in Ends, Move(e) PROVE Sound'
  BY <1>0, <1>5 DEF Move, LeftBehind, TypeOK, CutsSound
<1>6. ASSUME NEW e \in Ends, DropShell(e) PROVE Sound'
  <2>1. PICK s \in shells[e] : shells' = [shells EXCEPT ![e] = @ \ {s}] /\ LetsGo(e, s)
    BY <1>6 DEF DropShell
  <2>2. s = {}
    OBVIOUS
  <2>3. UNCHANGED <<sock, listening, file, way, cut>>
    BY <2>1, <2>2 DEF LetsGo, TypeOK
  <2> QED BY <1>0, <1>6, <2>1, <2>3 DEF DropShell, TypeOK, CutsSound
<1>7. ASSUME NEW e \in Ends, Destroy(e) PROVE Sound'
  <2>1. CutsSound'
    BY <1>7, CutsLetsGo DEF Destroy
  <2>2. ClientSound' /\ ServerSound'
    <3> DEFINE what == (Held(e) \ {"file"}) \cup Unlinks(e)
    <3>1. /\ LetsGo(e, what) /\ obj' = [obj EXCEPT ![e] = "gone"] /\ connected' = connected
          /\ obj[e] = "live"
      BY <1>7 DEF Destroy
    <3>2. CASE e = "server"
      <4>1. "file" \in what /\ "listener" \in what /\ ("socket" \in what <=> connected[e])
        BY <3>2 DEF Held, Unlinks, Resources
      <4> HIDE DEF what
      <4> QED BY <1>0, <3>1, <3>2, <4>1 DEF LetsGo, TypeOK
    <3>3. CASE e = "client"
      <4>1. "file" \notin what /\ "listener" \notin what /\ "socket" \in what
        BY <3>3 DEF Held, Unlinks, Resources
      <4> HIDE DEF what
      <4> QED BY <1>0, <3>1, <3>3, <4>1 DEF LetsGo, TypeOK
    <3> QED BY <1>0, <3>2, <3>3
  <2> QED BY <1>7, <2>1, <2>2 DEF Destroy, TypeOK
<1>8. ASSUME NEW e \in Ends, Crashes(e) PROVE Sound'
  <2>1. CutsSound'
    BY <1>8, CutsLetsGo DEF Crashes
  <2>2. ClientSound' /\ ServerSound'
    <3> DEFINE what == Held(e) \ {"file"}
    <3>1. /\ LetsGo(e, what) /\ obj' = [obj EXCEPT ![e] = "killed"] /\ connected' = connected
          /\ obj[e] = "live"
      BY <1>8 DEF Crashes
    <3>2. CASE e = "server"
      <4>1. "file" \notin what /\ "listener" \in what /\ ("socket" \in what <=> connected[e])
        BY <3>2 DEF Held, Resources
      <4> HIDE DEF what
      <4> QED BY <1>0, <3>1, <3>2, <4>1 DEF LetsGo, TypeOK
    <3>3. CASE e = "client"
      <4>1. "file" \notin what /\ "listener" \notin what /\ "socket" \in what
        BY <3>3 DEF Held, Resources
      <4> HIDE DEF what
      <4> QED BY <1>0, <3>1, <3>3, <4>1 DEF LetsGo, TypeOK
    <3> QED BY <1>0, <3>2, <3>3
  <2> QED BY <1>8, <2>1, <2>2 DEF Crashes, Return, TypeOK
<1>9. ASSUME NEW e \in Ends, NEW c \in Calls, Begin(e, c) PROVE Sound'
  BY <1>0, <1>9 DEF Begin, SetBlocking, TypeOK, CutsSound
<1>10. ASSUME NEW e \in Ends, Sends(e) PROVE Sound'
  <2>1. CutsSound'
    <3>1. CASE way' = way BY <1>10, <3>1 DEF Sends, CutsSound
    <3>2. CASE way' # way
      <4>1. PICK v \in Payloads :
              way' = [way EXCEPT ![Peer(e)] = Append(@, [kind |-> call[e].kind, val |-> v])]
        BY <1>10, <3>2 DEF Sends
      <4>2. [kind |-> call[e].kind, val |-> v] \in Items
        BY DEF TypeOK, Calls, Items
      <4>3. \A q \in Seq(Items), i \in Items :
              Append(q, i) # <<>> /\ (q # <<>> => Head(Append(q, i)) = Head(q))
        OBVIOUS
      <4>4. cut' = cut /\ way[Peer(e)] \in Seq(Items) /\ Peer(e) \in Ends
        BY <1>10, Peers DEF Sends, TypeOK
      <4>5. /\ way'[Peer(e)] # <<>>
            /\ way[Peer(e)] # <<>> => Head(way'[Peer(e)]) = Head(way[Peer(e)])
        BY <4>1, <4>2, <4>3, <4>4 DEF TypeOK
      <4>6. \A f \in Ends \ {Peer(e)} : way'[f] = way[f]
        BY <4>1 DEF TypeOK
      <4> QED BY <4>4, <4>5, <4>6 DEF CutsSound
    <3> QED BY <3>1, <3>2
  <2> QED BY <1>10, <2>1 DEF Sends, Return, TypeOK
<1>11. ASSUME NEW e \in Ends, FindsNothing(e) PROVE Sound'
  <2>1. obj' = obj
    BY <1>11 DEF FindsNothing
  <2> QED BY <1>11, <2>1 DEF FindsNothing, Return, TypeOK, CutsSound
<1>12. ASSUME NEW e \in Ends, Receives(e) PROVE Sound'
  <2>1. CutsSound'
    BY <1>12, ReadLeaves DEF Receives, CutsSound, TypeOK
  <2> QED BY <1>12, <2>1 DEF Receives, Return, TypeOK
<1>13. ASSUME NEW e \in Ends, ReceivesFd(e) PROVE Sound'
  <2>1. CutsSound'
    <3>1. CASE Head(way[e]).kind = "fd"
      <4>1. cut[e] = 0 /\ cut' = cut /\ way' = [way EXCEPT ![e] = Tail(@)]
        BY <1>13, <3>1 DEF ReceivesFd, CutsSound
      <4> QED BY <4>1 DEF CutsSound, TypeOK
    <3>2. CASE Head(way[e]).kind # "fd"
      <4>1. Head(way[e]) \in Items
        BY <1>13 DEF ReceivesFd, TypeOK
      <4>2. Head(way[e]).kind = "message"
        BY <3>2, <4>1 DEF Items, Kinds
      <4>3. CASE cut[e] + 1 = Size
        <5>1. cut' = [cut EXCEPT ![e] = 0] /\ way' = [way EXCEPT ![e] = Tail(@)]
          BY <1>13, <3>2, <4>3 DEF ReceivesFd, CutFurther
        <5> QED BY <5>1 DEF CutsSound, TypeOK
      <4>4. CASE cut[e] + 1 # Size
        <5>1. way' = way
          <6>1. way' = [way EXCEPT ![e] = way[e]]
            BY <1>13, <3>2, <4>4 DEF ReceivesFd
          <6> QED BY <6>1 DEF TypeOK
        <5> QED BY <1>13, <3>2, <4>2, <5>1 DEF ReceivesFd, CutsSound, TypeOK
      <4> QED BY <4>3, <4>4
    <3> QED BY <3>1, <3>2
  <2>2. /\ pc' = [pc EXCEPT ![e] = "idle"] /\ call' = [call EXCEPT ![e] = NoCall]
        /\ UNCHANGED <<objectVars, socketVars>>
    BY <1>13 DEF ReceivesFd, Return
  <2> QED BY <1>13, <2>1, <2>2 DEF TypeOK
<1>14. CASE UNCHANGED vars BY <1>14 DEF vars, CutsSound
<1> QED BY <1>1, <1>2, <1>3, <1>4, <1>5, <1>6, <1>7, <1>8, <1>9, <1>10, <1>11, <1>12,
           <1>13, <1>14 DEF Next, Proceeds

\* Every reachable state is sound.
LEMMA AlwaysSound == Spec => [](TypeOK /\ Sound)
<1>1. Init => Sound
  BY SoundInit
<1>2. TypeOK /\ Sound /\ [Next]_vars => Sound'
  BY SoundNext
<1> QED BY TypeCorrect, <1>1, <1>2, PTL DEF Spec

\* No call ends the process: O_NONBLOCK is what the reading call asked for, so
\* that a receive that may block never sees EAGAIN (ipc.tpp:167-180).
THEOREM CallsNeverFatal == Spec => []NeverFatal
<1>1. TypeOK /\ Sound => NeverFatal
  BY DEF TypeOK, Sound, ClientSound, ServerSound, NeverFatal, Ends
<1> QED BY AlwaysSound, <1>1, PTL

\* The moved-from objects never take anything from the live one, and the
\* destructor lets go of the file and of the sockets (ipc.tpp:247-271).
THEOREM WholeUntilDestroyed == Spec => []WholeOrGone
<1>1. TypeOK /\ Sound => WholeOrGone
  BY DEF TypeOK, Sound, ClientSound, ServerSound, WholeOrGone, Ends
<1> QED BY AlwaysSound, <1>1, PTL

-----------------------------------------------------------------------------
(* IPC implements Channel.                                                  *)

\* An end with a call in progress has not hung up.
LEMMA CallersUp ==
  ASSUME TypeOK, Sound, NEW e \in Ends, obj[e] = "live"
  PROVE  ~HungUp(e)
BY DEF TypeOK, Sound, ClientSound, ServerSound, HungUp, Ends

\* A step that changes neither the streams nor who has hung up is a stutter.
LEMMA Stutters ==
  ASSUME UNCHANGED <<way, cut, got>>, \A e \in Ends : HungUp(e)' = HungUp(e)
  PROVE  UNCHANGED Promise!vars
BY DEF Promise!vars

\* An end that lets go of its socket hangs up.
LEMMA HangingUp ==
  ASSUME TypeOK, Sound, NEW e \in Ends, obj[e] = "live", NEW what, LetsGo(e, what),
         "socket" \in what <=> connected[e], "listener" \in what <=> e = "server",
         obj'[e] # "none", \A f \in Ends \ {e} : obj'[f] = obj[f], got' = got
  PROVE  Promise!HangUp(e)
<1>1. ~HungUp(e)
  BY CallersUp
<1>2. way' = [way EXCEPT ![e] = <<>>] /\ cut' = [cut EXCEPT ![e] = 0]
  BY DEF LetsGo, TypeOK, Sound, ClientSound, ServerSound, Ends
<1>3. HungUp(e)'
  BY DEF LetsGo, HungUp, TypeOK, Sound, ClientSound, ServerSound, Ends
<1>4. \A f \in Ends \ {e} : HungUp(f)' = HungUp(f)
  BY DEF LetsGo, HungUp, TypeOK, Sound, ClientSound, ServerSound, Ends
<1>5. [f \in Ends |-> ~HungUp(f)]' = [[f \in Ends |-> ~HungUp(f)] EXCEPT ![e] = FALSE]
  BY <1>3, <1>4, Zenon
<1>6. [f \in Ends |-> cut[f] # 0]' = [[f \in Ends |-> cut[f] # 0] EXCEPT ![e] = FALSE]
  BY <1>2 DEF TypeOK
<1> QED BY <1>1, <1>2, <1>5, <1>6 DEF Promise!HangUp

\* Every step is one of the channel or a stutter.
LEMMA StepImplements == TypeOK /\ Sound /\ [Next]_vars => [Promise!Next]_(Promise!vars)
<1> SUFFICES ASSUME TypeOK, Sound, [Next]_vars
             PROVE  Promise!Next \/ UNCHANGED Promise!vars
  OBVIOUS
<1>0. Ends = {"server", "client"}
  BY DEF Ends
<1> USE DEF objectVars, socketVars, streamVars, callVars
<1>1. CASE Create
  <2>1. \A e \in Ends : HungUp(e)' = HungUp(e)
    BY <1>0, <1>1 DEF Create, HungUp, TypeOK, Sound, ServerSound
  <2> QED BY <1>1, <2>1, Stutters DEF Create
<1>2. CASE Connect
  <2>1. \A e \in Ends : HungUp(e)' = HungUp(e)
    BY <1>0, <1>2 DEF Connect, HungUp, TypeOK, Sound, ClientSound
  <2> QED BY <1>2, <2>1, Stutters DEF Connect
<1>3. CASE Accept
  <2>1. \A e \in Ends : HungUp(e)' = HungUp(e)
    BY <1>0, <1>3 DEF Accept, HungUp, TypeOK, Sound, ServerSound, CallsSound
  <2> QED BY <1>3, <2>1, Stutters DEF Accept
<1>4. CASE CleanUpFromClient
  BY <1>4, Stutters DEF CleanUpFromClient, HungUp
<1>5. ASSUME NEW e \in Ends, Move(e) PROVE UNCHANGED Promise!vars
  BY <1>5, Stutters DEF Move, HungUp
<1>6. ASSUME NEW e \in Ends, DropShell(e) PROVE UNCHANGED Promise!vars
  <2>1. PICK s \in shells[e] : LetsGo(e, s)
    BY <1>6 DEF DropShell
  <2>2. s = {}
    BY DEF Sound, ShellsEmpty
  <2>3. UNCHANGED <<sock, listening, file, way, cut>>
    BY <2>1, <2>2 DEF LetsGo, TypeOK
  <2> QED BY <1>6, <2>3, Stutters DEF DropShell, HungUp
<1>7. ASSUME NEW e \in Ends, Destroy(e) PROVE Promise!HangUp(e)
  <2> DEFINE what == (Held(e) \ {"file"}) \cup Unlinks(e)
  <2>1. LetsGo(e, what) /\ obj[e] = "live" /\ obj' = [obj EXCEPT ![e] = "gone"] /\ got' = got
    BY <1>7 DEF Destroy
  <2>2. ("socket" \in what <=> connected[e]) /\ ("listener" \in what <=> e = "server")
    BY DEF Held, Unlinks, Resources
  <2> HIDE DEF what
  <2> QED BY <2>1, <2>2, HangingUp DEF TypeOK
<1>8. ASSUME NEW e \in Ends, Crashes(e) PROVE Promise!HangUp(e)
  <2> DEFINE what == Held(e) \ {"file"}
  <2>1. LetsGo(e, what) /\ obj[e] = "live" /\ obj' = [obj EXCEPT ![e] = "killed"]
    BY <1>8 DEF Crashes
  <2>2. ("socket" \in what <=> connected[e]) /\ ("listener" \in what <=> e = "server")
    BY DEF Held, Resources
  <2>3. got' = got
    BY <1>8 DEF Crashes, Return, TypeOK
  <2> HIDE DEF what
  <2> QED BY <2>1, <2>2, <2>3, HangingUp DEF TypeOK
<1>9. ASSUME NEW e \in Ends, NEW c \in Calls, Begin(e, c) PROVE UNCHANGED Promise!vars
  BY <1>9, Stutters DEF Begin, HungUp
<1>10. ASSUME NEW e \in Ends, pc[e] = "call", Proceeds(e) PROVE Promise!Next
  <2> DEFINE torn == [f \in Ends |-> cut[f] # 0]
             up   == [f \in Ends |-> ~HungUp(f)]
             p    == Peer(e)
  <2>1. p \in Ends /\ p # e /\ up[e] /\ obj' = obj
    BY <1>10, Peers, CallersUp
       DEF Sound, CallsSound, FlagsAgree, Proceeds, Sends, FindsNothing, Receives, ReceivesFd
  <2>2. up' = up
    BY <1>10, <2>1 DEF Proceeds, Sends, FindsNothing, Receives, ReceivesFd, HungUp
  <2>3. CASE Sends(e)
    <3>1. CASE HungUp(p)
      BY <2>1, <2>2, <2>3, <3>1 DEF Sends, Return, Promise!CannotSend, Promise!Returns, Promise!Next
    <3>2. CASE ~HungUp(p)
      <4>1. PICK v \in Payloads : way' = [way EXCEPT ![p] = Append(@, [kind |-> call[e].kind, val |-> v])]
        BY <2>3, <3>2 DEF Sends
      <4>2. [kind |-> call[e].kind, val |-> v] \in Promise!Items
        BY DEF TypeOK, Calls, Kinds, Promise!Items, Promise!Kinds
      <4>3. Promise!Send(e, p)
        BY <2>1, <2>2, <2>3, <3>2, <4>1, <4>2
           DEF Sends, Return, Promise!Send, Promise!Returns
      <4> QED BY <2>1, <4>3 DEF Promise!Next
    <3> QED BY <3>1, <3>2
  <2>4. CASE FindsNothing(e)
    <3>1. way[e] = <<>> /\ UNCHANGED <<way, cut>>
      BY <2>4 DEF FindsNothing
    <3>2. CASE HungUp(p)
      <4>1. Promise!FindsHangUp(e, p)
        BY <2>1, <2>2, <2>4, <3>1, <3>2
           DEF FindsNothing, Return, Promise!FindsHangUp, Promise!Returns
      <4> QED BY <2>1, <4>1 DEF Promise!Next
    <3>3. CASE ~HungUp(p)
      <4>1. got' = [got EXCEPT ![e] = [kind |-> "unavailable"]]
        BY <1>10, <2>4, <3>3 DEF FindsNothing, Return, Sound, CallsSound, FlagsAgree
      <4>2. Promise!FindsNothing(e, p)
        BY <2>1, <2>2, <3>1, <3>3, <4>1 DEF Promise!FindsNothing, Promise!Returns
      <4> QED BY <2>1, <4>2 DEF Promise!Next
    <3> QED BY <3>2, <3>3
  <2>5. CASE Receives(e)
    <3>1. way[e] # <<>> /\ way[e] \in Seq(Items) /\ cut[e] \in 0..(Size - 1)
      BY <2>5 DEF Receives, TypeOK
    <3>2. Head(way[e]) \in Items /\ Tail(way[e]) \in Seq(Items)
      BY <3>1
    <3> DEFINE r == Read(way[e], cut[e])
    <3>3. CASE cut[e] = 0 /\ Head(way[e]).kind = "message"
      <4>1. r = [n |-> Size, rest |-> Tail(way[e]), cut |-> 0]
        BY <3>3 DEF Read
      <4>5. r.n = Size /\ r.rest = Tail(way[e]) /\ r.cut = 0
        BY <4>1
      <4>6. Received(e) = Head(way[e])
        BY <3>3, <4>5, SizeAssumption DEF Received
      <4>7. /\ way' = [way EXCEPT ![e] = r.rest]
            /\ cut' = [cut EXCEPT ![e] = r.cut]
            /\ got' = [got EXCEPT ![e] = Received(e)]
        BY <2>5 DEF Receives, Return
      <4> HIDE DEF r
      <4>2. way' = [way EXCEPT ![e] = Tail(@)] /\ cut' = cut
        BY <3>3, <4>5, <4>7 DEF TypeOK
      <4>3. got' = [got EXCEPT ![e] = Head(way[e])]
        BY <4>6, <4>7
      <4>4. Promise!Receive(e, "message")
        BY <2>1, <2>2, <3>1, <3>3, <4>2, <4>3 DEF Promise!Receive, Promise!Returns
      <4> QED BY <2>1, <4>4 DEF Promise!Next, Promise!Kinds
    <3>4. CASE cut[e] # 0 \/ Head(way[e]).kind # "message"
      <4>1. /\ r.rest = Tail(way[e]) \/ (Tail(way[e]) # <<>> /\ r.rest = Tail(Tail(way[e])))
            /\ r.cut # 0 => r.rest # <<>>
            /\ r.cut \in 0..(Size - 1)
        <5>1. CASE Head(way[e]).kind = "fd"
          <6>1. r = [n |-> 1, rest |-> Tail(way[e]), cut |-> 0]
            BY <5>1 DEF Read
          <6>2. r.rest = Tail(way[e]) /\ r.cut = 0
            BY <6>1
          <6> QED BY <6>2, SizeAssumption
        <5>2. CASE Head(way[e]).kind # "fd" /\ Tail(way[e]) = <<>>
          <6>1. cut[e] # 0
            BY <3>2, <3>4, <5>2 DEF Items, Kinds
          <6>2. r = [n |-> Size - cut[e], rest |-> <<>>, cut |-> 0]
            BY <5>2, <6>1 DEF Read
          <6> QED BY <5>2, <6>2, SizeAssumption
        <5>3. CASE Head(way[e]).kind # "fd" /\ Tail(way[e]) # <<>>
          <6>1. cut[e] # 0
            BY <3>2, <3>4, <5>3 DEF Items, Kinds
          <6>2. CASE Head(Tail(way[e])).kind = "fd"
            <7>1. r = [n |-> Size - cut[e] + 1, rest |-> Tail(Tail(way[e])), cut |-> 0]
              BY <5>3, <6>1, <6>2 DEF Read
            <7> QED BY <5>3, <7>1, SizeAssumption
          <6>3. CASE Head(Tail(way[e])).kind # "fd"
            <7>1. r = [n |-> Size, rest |-> Tail(way[e]), cut |-> cut[e]]
              BY <5>3, <6>1, <6>3 DEF Read
            <7>2. r.rest = Tail(way[e]) /\ r.cut = cut[e]
              BY <7>1
            <7> QED BY <3>1, <5>3, <7>2
          <6> QED BY <6>2, <6>3
        <5> QED BY <5>1, <5>2, <5>3
      <4>2. Received(e) \in {[kind |-> "error"], [kind |-> "garbled"]}
        <5>1. CASE cut[e] = 0
          <6>1. Head(way[e]).kind = "fd"
            BY <3>2, <3>4, <5>1 DEF Items, Kinds
          <6> QED BY <6>1, SizeAssumption DEF Received, Read
        <5>2. CASE cut[e] # 0 BY <5>2 DEF Received
        <5> QED BY <5>1, <5>2
      <4>3. /\ way' = [way EXCEPT ![e] = r.rest]
            /\ cut' = [cut EXCEPT ![e] = r.cut]
            /\ got' = [got EXCEPT ![e] = Received(e)]
        BY <2>5 DEF Receives, Return
      <4> HIDE DEF r
      <4>4. torn' = [torn EXCEPT ![e] = r.cut # 0] /\ (r.cut # 0 => way'[e] # <<>>)
        BY <4>1, <4>3 DEF TypeOK
      <4>5. Promise!Misread(e, "message")
        BY <2>1, <2>2, <3>1, <3>4, <4>1, <4>2, <4>3, <4>4 DEF Promise!Misread, Promise!Returns
      <4> QED BY <2>1, <4>5 DEF Promise!Next, Promise!Kinds
    <3> QED BY <3>3, <3>4
  <2>6. CASE ReceivesFd(e)
    <3>1. way[e] # <<>> /\ way[e] \in Seq(Items)
      BY <2>6 DEF ReceivesFd, TypeOK
    <3>2. CASE Head(way[e]).kind = "fd"
      <4>1. cut[e] = 0
        BY <3>2 DEF Sound, CutsSound
      <4>2. Promise!Receive(e, "fd")
        BY <2>1, <2>2, <2>6, <3>1, <3>2, <4>1
           DEF ReceivesFd, Return, Promise!Receive, Promise!Returns
      <4> QED BY <2>1, <4>2 DEF Promise!Next, Promise!Kinds
    <3>3. CASE Head(way[e]).kind # "fd"
      <4> DEFINE k == CutFurther(cut[e])
      <4>1. /\ cut' = [cut EXCEPT ![e] = k] /\ got' = [got EXCEPT ![e] = [kind |-> "error"]]
            /\ way' = [way EXCEPT ![e] = IF cut[e] + 1 = Size THEN Tail(@) ELSE @]
        BY <2>6, <3>3 DEF ReceivesFd, Return
      <4>2. k # 0 => cut[e] + 1 # Size
        BY DEF CutFurther
      <4> HIDE DEF k
      <4>3. (way' = [way EXCEPT ![e] = Tail(@)] /\ k = 0) \/ way' = way
        <5>1. CASE cut[e] + 1 = Size BY <4>1, <4>2, <5>1
        <5>2. CASE cut[e] + 1 # Size
          <6>1. way' = [way EXCEPT ![e] = way[e]]
            BY <4>1, <5>2
          <6> QED BY <6>1 DEF TypeOK
        <5> QED BY <5>1, <5>2
      <4>4. torn' = [torn EXCEPT ![e] = k # 0] /\ (k # 0 => way'[e] # <<>>)
        BY <3>1, <4>1, <4>3 DEF TypeOK
      <4>5. Promise!Misread(e, "fd")
        BY <2>1, <2>2, <3>1, <3>3, <4>1, <4>3, <4>4 DEF Promise!Misread, Promise!Returns
      <4> QED BY <2>1, <4>5 DEF Promise!Next, Promise!Kinds
    <3> QED BY <3>2, <3>3
  <2> QED BY <1>10, <2>3, <2>4, <2>5, <2>6 DEF Proceeds
<1>11. CASE UNCHANGED vars BY <1>11, Stutters DEF vars, HungUp
<1>12. \A e \in Ends : Proceeds(e) => pc[e] = "call"
  BY DEF Proceeds, Sends, FindsNothing, Receives, ReceivesFd, InCall
<1> QED BY <1>1, <1>2, <1>3, <1>4, <1>5, <1>6, <1>7, <1>8, <1>9, <1>10, <1>11, <1>12
        DEF Next, Promise!Next

\* What an end reads is what its peer sent, whole, once and in order, as long as
\* it asks for the kind that was sent, and a hang-up is the last thing it hears
\* of: IPC implements Channel (ipc.tpp:136-215).
THEOREM ImplementsChannel == Spec => ChannelKept
<1>1. Init => Promise!Init
  <2> SUFFICES ASSUME Init PROVE Promise!Init
    OBVIOUS
  <2>1. \A e \in Ends : ~HungUp(e) /\ cut[e] = 0
    BY DEF Init, HungUp, Ends
  <2>2. [e \in Ends |-> ~HungUp(e)] = [e \in Ends |-> TRUE]
    BY <2>1, Zenon
  <2>3. [e \in Ends |-> cut[e] # 0] = [e \in Ends |-> FALSE]
    BY <2>1, Zenon
  <2> QED BY <2>2, <2>3 DEF Init, Promise!Init
<1>2. TypeOK /\ Sound /\ [Next]_vars => [Promise!Next]_(Promise!vars)
  BY StepImplements
<1> QED BY AlwaysSound, <1>1, <1>2, PTL DEF Spec, ChannelKept, Promise!Spec
=============================================================================
