-------------------------------- MODULE IPC --------------------------------
(***************************************************************************)
(* IPC<M> (src/reaper/ipc.h, ipc.tpp): a server that create()s a listening *)
(* socket and accepts lazily, in its first call; a client that connect()s; *)
(* messages of Size bytes and descriptors, which travel with one byte, on  *)
(* one stream; objects that are moved.  Each end is one thread of its own  *)
(* process.  The kernel's sockets are external.                            *)
(***************************************************************************)
EXTENDS Naturals, Sequences

CONSTANTS
  Payloads,   \* what a message says, or which file a descriptor is
  Size,       \* sizeof(M)
  Faults,     \* "crash": the process of an end may be killed
  MaxCalls,   \* bound: calls of each end
  MaxMoves    \* bound: moves of objects

ASSUME SizeAssumption == Size \in Nat /\ Size > 1
Ends == {"server", "client"}

ASSUME BoundsAssumption == MaxCalls \in [Ends -> Nat] /\ MaxMoves \in Nat

Peer(e) == IF e = "server" THEN "client" ELSE "server"
Kinds == {"message", "fd"}
Items == [kind : Kinds, val : Payloads]

\* send, send_fd, receive(block) and receive_fd(block).
Calls == [do : {"send", "receive"}, kind : Kinds, block : BOOLEAN]
NoCall == [do |-> "send", kind |-> "message", block |-> TRUE]

\* What an object refers to and its destructor lets go of.
Resources == {"listener", "socket", "file"}

VARIABLES
  obj,        \* the end's object: "gone" destroyed, "killed" with its process,
              \* "fatal" when a ccheck has ended the process
  shells,     \* what its moved-from objects still refer to
  moves,
  connected, blocking,   \* the fields connected_ and blocking_
  file, listening, sock, \* the kernel: the socket's file, the listener, both ends
  waits,      \* the end's socket has O_NONBLOCK clear
  way,        \* the items on their way to an end
  cut,        \* bytes of the first of them that were read
  pc, call, calls,
  got         \* what the end's last call returned

objectVars == <<obj, shells, moves, connected, blocking>>
socketVars == <<file, listening, sock, waits>>
streamVars == <<way, cut>>
callVars   == <<pc, call, calls, got>>
vars == <<objectVars, socketVars, streamVars, callVars>>

Outcomes == {"none", "sent", "unsent", "error", "garbled", "unavailable", "aborted"}

TypeOK ==
  /\ obj \in [Ends -> {"none", "live", "gone", "killed", "fatal"}]
  /\ shells \in [Ends -> SUBSET SUBSET Resources] /\ moves \in 0..MaxMoves
  /\ connected \in [Ends -> BOOLEAN] /\ blocking \in [Ends -> BOOLEAN]
  /\ file \in BOOLEAN /\ listening \in BOOLEAN
  /\ sock \in [Ends -> {"none", "open", "closed"}] /\ waits \in [Ends -> BOOLEAN]
  /\ way \in [Ends -> Seq(Items)] /\ cut \in [Ends -> 0..(Size - 1)]
  /\ pc \in [Ends -> {"idle", "accept", "call"}] /\ call \in [Ends -> Calls]
  /\ calls \in [Ends -> Nat] /\ \A e \in Ends : calls[e] <= MaxCalls[e]
  /\ got \in [Ends -> Items \cup [kind : Outcomes]]

Init ==
  /\ obj = [e \in Ends |-> "none"] /\ shells = [e \in Ends |-> {}]
  /\ moves = 0
  /\ connected = [e \in Ends |-> e = "client"] /\ blocking = [e \in Ends |-> TRUE]
  /\ file = FALSE /\ listening = FALSE
  /\ sock = [e \in Ends |-> "none"] /\ waits = [e \in Ends |-> TRUE]
  /\ way = [e \in Ends |-> <<>>] /\ cut = [e \in Ends |-> 0]
  /\ pc = [e \in Ends |-> "idle"]
  /\ call = [e \in Ends |-> NoCall]
  /\ calls = [e \in Ends |-> 0] /\ got = [e \in Ends |-> [kind |-> "none"]]

-----------------------------------------------------------------------------
(* The sockets.                                                             *)

\* The end has closed: its socket, or the listener before it has accepted.
HungUp(e) ==
  \/ sock[e] = "closed"
  \/ e = "server" /\ sock[e] = "none" /\ obj[e] # "none" /\ ~listening

\* close() and unlink() of what an object refers to: what was on its way to the
\* end is lost with its socket.
LetsGo(e, what) ==
  LET closes == \/ "socket" \in what /\ sock[e] = "open"
                \/ "listener" \in what /\ sock[e] = "none"
  IN /\ sock' = [sock EXCEPT ![e] = IF "socket" \in what THEN "closed" ELSE @]
     /\ listening' = (listening /\ "listener" \notin what)
     /\ file' = (file /\ "file" \notin what)
     /\ way' = [way EXCEPT ![e] = IF closes THEN <<>> ELSE @]
     /\ cut' = [cut EXCEPT ![e] = IF closes THEN 0 ELSE @]

\* What the end's object refers to.
Held(e) ==
  {r \in Resources : \/ r # "socket" /\ e = "server"
                     \/ r = "socket" /\ connected[e]}

-----------------------------------------------------------------------------
(* The life of the objects.                                                 *)

\* create(): bind makes the file.
Create ==
  /\ obj["server"] = "none"
  /\ obj' = [obj EXCEPT !["server"] = "live"]
  /\ file' = TRUE /\ listening' = TRUE
  /\ UNCHANGED <<shells, moves, connected, blocking, sock, waits, streamVars, callVars>>

\* connect(): the kernel queues the connection for the listener; without one
\* ccheck ends the process.
Connect ==
  /\ obj["client"] = "none" /\ obj["server"] # "none"
  /\ IF listening
       THEN /\ obj' = [obj EXCEPT !["client"] = "live"]
            /\ sock' = [sock EXCEPT !["client"] = "open"]
       ELSE obj' = [obj EXCEPT !["client"] = "fatal"] /\ UNCHANGED sock
  /\ UNCHANGED <<shells, moves, connected, blocking, file, listening, waits, streamVars,
                 callVars>>

\* Mutant of LeftBehind: the path is not taken from the moved-from object.
KeepsPath(e) == Held(e) \cap {"file"}

\* What a moved-from object still refers to.
LeftBehind(e) == {}

\* The move constructor: the object goes on at its new place.
Move(e) ==
  /\ obj[e] = "live" /\ pc[e] = "idle" /\ moves < MaxMoves
  /\ moves' = moves + 1
  /\ shells' = [shells EXCEPT ![e] = @ \cup {LeftBehind(e)}]
  /\ UNCHANGED <<obj, connected, blocking, socketVars, streamVars, callVars>>

\* ~IPC of a moved-from object.
DropShell(e) ==
  /\ pc[e] = "idle"
  /\ \E s \in shells[e] :
       shells' = [shells EXCEPT ![e] = @ \ {s}] /\ LetsGo(e, s)
  /\ UNCHANGED <<obj, moves, connected, blocking, waits, callVars>>

\* Mutant of Unlinks: the destructor leaves the path to the client.
NoUnlink(e) == {}

\* The destructor unlinks the path of a server.
Unlinks(e) == IF e = "server" THEN {"file"} ELSE {}

\* ~IPC
Destroy(e) ==
  /\ obj[e] = "live" /\ pc[e] = "idle"
  /\ obj' = [obj EXCEPT ![e] = "gone"]
  /\ LetsGo(e, (Held(e) \ {"file"}) \cup Unlinks(e))
  /\ UNCHANGED <<shells, moves, connected, blocking, waits, callVars>>

\* cleanup_from_client(): the reaper calls it once its launcher has died.
CleanUpFromClient ==
  /\ obj["client"] = "live" /\ pc["client"] = "idle"
  /\ obj["server"] \in {"gone", "killed"}
  /\ file' = FALSE
  /\ UNCHANGED <<objectVars, listening, sock, waits, streamVars, callVars>>

\* A call is over.
Return(e, r) ==
  /\ pc' = [pc EXCEPT ![e] = "idle"] /\ call' = [call EXCEPT ![e] = NoCall]
  /\ got' = [got EXCEPT ![e] = r]

\* The process is killed: the kernel closes its sockets.
Crashes(e) ==
  /\ "crash" \in Faults /\ obj[e] = "live"
  /\ obj' = [obj EXCEPT ![e] = "killed"]
  /\ shells' = [shells EXCEPT ![e] = {}]
  /\ LetsGo(e, Held(e) \ {"file"})
  /\ Return(e, got[e])
  /\ UNCHANGED <<moves, connected, blocking, waits, calls>>

-----------------------------------------------------------------------------
(* The calls.                                                               *)

\* Mutant of SetBlocking: set_blocking() comes before make_connection(), when
\* there is no socket to set.
CacheOnly(e, block) ==
  /\ blocking' = [blocking EXCEPT ![e] = block]
  /\ UNCHANGED waits

\* Mutant of SetBlocking: blocking_ keeps the value it had.
SetOnly(e, block) ==
  /\ waits' = [waits EXCEPT ![e] = IF blocking[e] = block THEN @ ELSE block]
  /\ UNCHANGED blocking

\* set_blocking(): no fcntl when blocking_ has the value already.
SetBlocking(e, block) ==
  /\ waits' = [waits EXCEPT ![e] = IF blocking[e] = block THEN @ ELSE block]
  /\ blocking' = [blocking EXCEPT ![e] = block]

\* A call up to its system call; one on an unconnected server accepts first.
\* The sends set the socket to block.
Begin(e, c) ==
  /\ obj[e] = "live" /\ pc[e] = "idle" /\ calls[e] < MaxCalls[e]
  /\ c.do = "send" => c.block
  /\ call' = [call EXCEPT ![e] = c] /\ calls' = [calls EXCEPT ![e] = @ + 1]
  /\ IF connected[e]
       THEN pc' = [pc EXCEPT ![e] = "call"] /\ SetBlocking(e, c.block)
       ELSE pc' = [pc EXCEPT ![e] = "accept"] /\ UNCHANGED <<waits, blocking>>
  /\ UNCHANGED <<obj, shells, moves, connected, file, listening, sock, streamVars, got>>

\* make_connection() returns from accept: the connection of a client, which may
\* be gone again, on a socket that blocks.
Accept ==
  /\ pc["server"] = "accept" /\ sock["client"] # "none"
  /\ connected' = [connected EXCEPT !["server"] = TRUE]
  /\ sock' = [sock EXCEPT !["server"] = "open"]
  /\ SetBlocking("server", call["server"].block)
  /\ pc' = [pc EXCEPT !["server"] = "call"]
  /\ UNCHANGED <<obj, shells, moves, file, listening, streamVars, call, calls, got>>

InCall(e, do, kind) == pc[e] = "call" /\ call[e].do = do /\ call[e].kind = kind

\* send() and send_fd().
Sends(e) ==
  /\ pc[e] = "call" /\ call[e].do = "send"
  /\ IF HungUp(Peer(e))
       THEN Return(e, [kind |-> "unsent"]) /\ UNCHANGED way
       ELSE /\ \E v \in Payloads :
                 way' = [way EXCEPT ![Peer(e)] = Append(@, [kind |-> call[e].kind, val |-> v])]
            /\ Return(e, [kind |-> "sent"])
  /\ UNCHANGED <<objectVars, socketVars, cut, calls>>

\* recv and recvmsg find nothing to read: a hang-up, or EAGAIN, which receive()
\* takes for an error when it was told to block.
FindsNothing(e) ==
  /\ pc[e] = "call" /\ call[e].do = "receive" /\ way[e] = <<>>
  /\ \/ HungUp(Peer(e)) /\ Return(e, [kind |-> "aborted"]) /\ UNCHANGED obj
     \/ /\ ~HungUp(Peer(e)) /\ ~waits[e]
        /\ \/ /\ ~call[e].block \/ call[e].kind = "fd"
              /\ Return(e, [kind |-> "unavailable"]) /\ UNCHANGED obj
           \/ /\ call[e].block /\ call[e].kind = "message"
              /\ obj' = [obj EXCEPT ![e] = "fatal"] /\ Return(e, got[e])
  /\ UNCHANGED <<shells, moves, connected, blocking, socketVars, streamVars, calls>>

\* recv of Size bytes: the rest of a message and, when a part of it had been
\* read, what follows it, up to a descriptor, whose byte ends the read and which
\* is lost.
Read(s, c) ==
  IF Head(s).kind = "fd" THEN [n |-> 1, rest |-> Tail(s), cut |-> 0]
  ELSE IF c = 0 THEN [n |-> Size, rest |-> Tail(s), cut |-> 0]
  ELSE IF Tail(s) = <<>> THEN [n |-> Size - c, rest |-> <<>>, cut |-> 0]
  ELSE IF Head(Tail(s)).kind = "fd"
         THEN [n |-> Size - c + 1, rest |-> Tail(Tail(s)), cut |-> 0]
  ELSE [n |-> Size, rest |-> Tail(s), cut |-> c]

\* Mutant of Received: a short read is taken for a message.
ShortReadAccepted(e) == [kind |-> "message", val |-> Head(way[e]).val]

\* receive()'s result: the message, bytes of several items, or InternalError.
Received(e) ==
  IF Read(way[e], cut[e]).n < Size THEN [kind |-> "error"]
  ELSE IF cut[e] = 0 THEN Head(way[e]) ELSE [kind |-> "garbled"]

Receives(e) ==
  /\ InCall(e, "receive", "message") /\ way[e] # <<>>
  /\ Return(e, Received(e))
  /\ way' = [way EXCEPT ![e] = Read(way[e], cut[e]).rest]
  /\ cut' = [cut EXCEPT ![e] = Read(way[e], cut[e]).cut]
  /\ UNCHANGED <<objectVars, socketVars, calls>>

\* Bytes of a message that were read when one more was.
CutFurther(c) == IF c + 1 = Size THEN 0 ELSE c + 1

\* receive_fd(): recvmsg of one byte, which is a descriptor's or a message's.
ReceivesFd(e) ==
  /\ InCall(e, "receive", "fd") /\ way[e] # <<>>
  /\ IF Head(way[e]).kind = "fd"
       THEN /\ Return(e, Head(way[e]))
            /\ way' = [way EXCEPT ![e] = Tail(@)] /\ UNCHANGED cut
       ELSE /\ Return(e, [kind |-> "error"])
            /\ way' = [way EXCEPT ![e] = IF cut[e] + 1 = Size THEN Tail(@) ELSE @]
            /\ cut' = [cut EXCEPT ![e] = CutFurther(@)]
  /\ UNCHANGED <<objectVars, socketVars, calls>>

-----------------------------------------------------------------------------
Proceeds(e) == Sends(e) \/ FindsNothing(e) \/ Receives(e) \/ ReceivesFd(e)

Next ==
  \/ Create \/ Connect \/ Accept \/ CleanUpFromClient
  \/ \E e \in Ends :
       \/ Move(e) \/ DropShell(e) \/ Destroy(e) \/ Crashes(e)
       \/ (\E c \in Calls : Begin(e, c)) \/ Proceeds(e)

Spec == Init /\ [][Next]_vars

\* A system call that can return does.  Nobody has to connect or to call.
FairSpec ==
  /\ Spec
  /\ WF_vars(Accept) /\ \A e \in Ends : WF_vars(Proceeds(e))

-----------------------------------------------------------------------------
(* Properties.                                                              *)

\* The stream an end sees, for the specification of what IPC promises.
Promise == INSTANCE Channel WITH
  queue <- way,
  torn  <- [e \in Ends |-> cut[e] # 0],
  up    <- [e \in Ends |-> ~HungUp(e)]

\* Every history of calls, moves, hang-ups and crashes is one of the channel: an
\* end that asks for what was sent gets it whole, once and in order, and learns
\* of a hang-up only when it has read everything (ipc.tpp:136-215).
ChannelKept == Promise!Spec

\* No call ends the process through ccheck, whatever order blocking and
\* non-blocking calls, accept and a hang-up come in: O_NONBLOCK is what the call
\* asked for when it reads (set_blocking, ipc.tpp:227-232).  Only a connect that
\* finds no listener does.
NeverFatal == \A e \in Ends : obj[e] = "fatal" => e = "client" /\ sock[e] = "none"

\* An object that is alive can be used and connected to, however often it was
\* moved and whenever its moved-from objects are destroyed; one that was destroyed
\* leaves neither its file nor a socket behind (ipc.tpp:247-271).
WholeOrGone ==
  /\ obj["server"] = "live" => file /\ listening
  /\ \A e \in Ends : obj[e] = "live" /\ connected[e] => sock[e] = "open"
  /\ obj["server"] = "gone" => ~file /\ ~listening
  /\ \A e \in Ends : obj[e] = "gone" => sock[e] # "open"

\* A call of a connected end returns when it need not wait: sends, receives that
\* do not block, and all others once there is an item or a hang-up to report.
CallReturns == \A e \in Ends :
  (/\ pc[e] = "call"
   /\ call[e].do = "send" \/ ~call[e].block \/ way[e] # <<>> \/ HungUp(Peer(e)))
  ~> pc[e] = "idle"

\* "UnavailableError if block is false and there's no data to receive"
\* (ipc.h:29): a receive that does not block returns.
NonBlockingReturns == \A e \in Ends :
  (pc[e] # "idle" /\ call[e].do = "receive" /\ ~call[e].block) ~> pc[e] = "idle"
=============================================================================
