--------------------------- MODULE ProcessProofs ---------------------------
(***************************************************************************)
(* Theorems about Process: whose descriptors are open and what a child     *)
(* gets, streams and environment, for any number of launches at once and   *)
(* whatever is open in the launcher, and which process a signal reaches.   *)
(***************************************************************************)
EXTENDS Process, EnvVarsProofs, TLAPS

-----------------------------------------------------------------------------
(* Types.                                                                   *)

LEMMA ThingTypes ==
  /\ Closed \in Things /\ \A f \in Fds : Own(f) \in Things
  /\ \A p \in Procs, s \in Streams, e \in {"file", "read", "write"} : Thing(p, s, e) \in Things
  BY DEF Closed, Own, Thing, Things, Streams

LEMMA TableTypes ==
  ASSUME NEW t \in [Fds -> Things]
  PROVE  /\ \A F : Without(t, F) \in [Fds -> Things]
         /\ \A f \in Fds \cup {None}, thing \in Things : With(t, f, thing) \in [Fds -> Things]
         /\ \A f \in Fds \cup {None}, g \in Fds : Dup(t, f, g) \in [Fds -> Things]
  BY ThingTypes DEF Without, With, Dup, None, Fds

LEMMA TypeInit == Init => TypeOK
<1>1. Init => /\ fds \in [Fds -> Things] /\ table \in [Procs -> [Fds -> Things]]
  BY ThingTypes DEF Init, NoTable
<1>2. Init => /\ held \in [Procs -> [Streams -> Fds \cup {None}]]
              /\ ends \in [Procs -> [Streams -> Fds \cup {None}]]
  BY DEF Init, NoStreams
<1> QED BY <1>1, <1>2 DEF Init, TypeOK

LEMMA SourceTypes ==
  ASSUME TypeOK, NEW p \in Procs, NEW s \in Streams
  PROVE  Source(p, s) \in Fds \cup {None}
  BY DEF TypeOK, Source, Streams

LEMMA TypeNext == TypeOK /\ [Next]_vars => TypeOK'
<1> SUFFICES ASSUME TypeOK, [Next]_vars PROVE TypeOK'
  OBVIOUS
<1> USE DEF TypeOK, launchVars, childVars, worldVars
<1>1. ASSUME NEW p \in Procs, NEW r \in Requests[p], Launch(p, r) PROVE TypeOK'
  <2>1. CASE ~Valid(r)
    BY <1>1, <2>1 DEF Launch
  <2>2. CASE Valid(r)
    <3>1. PICK f \in Fds \cup {None}, g \in Fds \cup {None} :
            /\ fds' = With(With(fds, f, Thing(p, "out", "file")), g, Thing(p, "err", "file"))
            /\ held' = [held EXCEPT ![p] = [s \in Streams |-> IF s = "out" THEN f ELSE g]]
      <4>1. OpensFiles(p, r)
        BY <1>1, <2>2 DEF Launch
      <4> QED BY <4>1, Zenon DEF OpensFiles
    <3>2. fds' \in [Fds -> Things]
      BY <3>1, ThingTypes, TableTypes DEF Streams
    <3>3. held' \in [Procs -> [Streams -> Fds \cup {None}]]
      BY <3>1
    <3>4. /\ request' = [request EXCEPT ![p] = r] /\ pc' = [pc EXCEPT ![p] = "out"]
          /\ UNCHANGED <<ends, childVars, worldVars>>
      BY <1>1, <2>2 DEF Launch
    <3> QED BY <3>2, <3>3, <3>4 DEF Launching
  <2> QED BY <2>1, <2>2
<1>2. ASSUME NEW p \in Procs, NEW s \in Streams, Prepare(p, s) PROVE TypeOK'
  <2>1. CASE request[p][s] = "pipe"
    <3>1. PICK r \in Fds, w \in Fds :
            /\ fds' = [[fds EXCEPT ![r] = Thing(p, s, "read")] EXCEPT ![w] = Thing(p, s, "write")]
            /\ held' = [held EXCEPT ![p][s] = r] /\ ends' = [ends EXCEPT ![p][s] = w]
      BY <1>2, <2>1 DEF Prepare
    <3>2. fds' \in [Fds -> Things]
      BY <3>1, ThingTypes
    <3>3. held' \in [Procs -> [Streams -> Fds \cup {None}]]
      BY <3>1
    <3>4. ends' \in [Procs -> [Streams -> Fds \cup {None}]]
      BY <3>1
    <3> QED BY <1>2, <3>2, <3>3, <3>4 DEF Prepare, Streams, Launching
  <2>2. CASE request[p][s] # "pipe"
    BY <1>2, <2>2 DEF Prepare, Streams, Launching
  <2> QED BY <2>1, <2>2
<1>3. ASSUME NEW p \in Procs, Spawn(p) PROVE TypeOK'
  <2>1. ChildTable(p) \in [Fds -> Things]
    <3>1. 1 \in Fds /\ 2 \in Fds
      BY StandardAssumption
    <3> QED BY <3>1, SourceTypes, TableTypes DEF ChildTable, Streams
  <2>2. PICK n \in Pids : pid' = [pid EXCEPT ![p] = n]
    BY <1>3 DEF Spawn, FreePids
  <2>3. table' \in [Procs -> [Fds -> Things]]
    BY <1>3, <2>1 DEF Spawn
  <2>4. DOMAIN environment' = Procs
    BY <1>3 DEF Spawn
  <2>5. \A q \in Procs : pc'[q] \in {"after", "held", "ending", "closing"} => pid'[q] \in Pids
    BY <1>3, <2>2 DEF Spawn
  <2> QED BY <1>3, <2>2, <2>3, <2>4, <2>5 DEF Spawn, Launching
<1>4. ASSUME NEW p \in Procs, SpawnFails(p) PROVE TypeOK'
  BY <1>4 DEF SpawnFails, Launching
<1>5. ASSUME NEW p \in Procs, ReturnsError(p) PROVE TypeOK'
  <2>1. fds' \in [Fds -> Things]
    BY <1>5, TableTypes DEF ReturnsError
  <2> QED BY <1>5, <2>1 DEF ReturnsError, NoStreams
<1>6. ASSUME NEW p \in Procs, ReturnsProcess(p) PROVE TypeOK'
  <2>1. fds' \in [Fds -> Things]
    BY <1>6, TableTypes DEF ReturnsProcess
  <2> QED BY <1>6, <2>1 DEF ReturnsProcess, NoStreams
<1>7. ASSUME NEW p \in Procs, Terminate(p) PROVE TypeOK'
  BY <1>7 DEF Terminate, Kill, Ending
<1>8. ASSUME NEW p \in Procs, WaitPid(p) PROVE TypeOK'
  BY <1>8 DEF WaitPid, Ending
<1>10. ASSUME NEW p \in Procs, TimesOut(p) PROVE TypeOK'
  BY <1>10 DEF TimesOut, Targets, Kill, Ending
<1>11. ASSUME NEW p \in Procs, CloseStreams(p) PROVE TypeOK'
  <2>1. fds' \in [Fds -> Things]
    BY <1>11, TableTypes DEF CloseStreams
  <2> QED BY <1>11, <2>1 DEF CloseStreams, NoStreams, Ending
<1>12. ASSUME NEW p \in Procs, Exits(p) PROVE TypeOK'
  BY <1>12, ThingTypes DEF Exits, NoTable
<1>13. ASSUME NEW p \in Procs, OthersWait(p) PROVE TypeOK'
  BY <1>13 DEF OthersWait
<1>14. ASSUME NEW p \in Procs, StrangerStarts(p) PROVE TypeOK'
  BY <1>14 DEF StrangerStarts, FreePids
<1>15. CASE UNCHANGED vars
  BY <1>15 DEF vars
<1> QED BY <1>1, <1>2, <1>3, <1>4, <1>5, <1>6, <1>7, <1>8, <1>10, <1>11, <1>12, <1>13, <1>14, <1>15
        DEF Next

\* The types of Process (process.h:17-44) hold of every history.
THEOREM TypeCorrect == Spec => []TypeOK
BY TypeInit, TypeNext, PTL DEF Spec

-----------------------------------------------------------------------------
(* Whose descriptors are open.                                              *)

LEMMA ThingsDiffer ==
  ASSUME NEW p, NEW s, NEW e, NEW q, NEW r, NEW d
  PROVE  Thing(p, s, e) = Thing(q, r, d) <=> p = q /\ s = r /\ e = d
  BY DEF Thing

LEMMA ThingsApart ==
  ASSUME NEW p \in Procs, NEW s, NEW e
  PROVE  /\ Thing(p, s, e) # Closed /\ Thing(p, s, e).of = p /\ Thing(p, s, e).end = e
         /\ Closed.of # p
         /\ \A f \in Fds : Own(f) # Closed /\ Own(f) # Thing(p, s, e) /\ Own(f).of # p
  BY ProcsAssumption DEF Thing, Closed, Own

\* What opening a descriptor does to a table.
LEMMA Opening ==
  ASSUME NEW t \in [Fds -> Things], NEW f \in Fds \cup {None}, NEW thing \in Things,
         f # None => Lowest(t, f)
  PROVE  /\ \A g \in Fds : t[g] # Closed => With(t, f, thing)[g] = t[g]
         /\ \A g \in Fds : With(t, f, thing)[g] # t[g] => g = f
         /\ f # None => With(t, f, thing)[f] = thing
  BY DEF With, Lowest

Asking(p) == pc[p] \notin {"none", "refused", "gone"}

\* The switch for the stream is over.
Prepared(p, s) ==
  \/ pc[p] = "err" /\ s = "out"
  \/ pc[p] \in {"spawn", "failed", "after", "held", "ending", "closing"}

HeldSound == \A p \in Procs, s \in Streams : held[p][s] # None =>
  /\ fds[held[p][s]] = Thing(p, s, IF request[p][s] = "file" THEN "file" ELSE "read")
  /\ Asking(p)
  /\ request[p][s] = "file" \/ (request[p][s] = "pipe" /\ Prepared(p, s))

EndsSound == \A p \in Procs, s \in Streams : ends[p][s] # None =>
  /\ fds[ends[p][s]] = Thing(p, s, "write")
  /\ request[p][s] = "pipe" /\ Prepared(p, s) /\ pc[p] \in Launching

Complete == \A p \in Procs, s \in Streams : Asking(p) =>
  /\ Valid(request[p])
  /\ request[p][s] = "file" => held[p][s] # None
  /\ request[p][s] = "pipe" /\ Prepared(p, s) =>
       held[p][s] # None /\ (pc[p] \in Launching => ends[p][s] # None)

OpenSound == \A f \in Fds :
  /\ f \in Inherited => fds[f] = Own(f)
  /\ f \notin Inherited /\ fds[f] # Closed =>
       \E p \in Procs, s \in Streams : held[p][s] = f \/ ends[p][s] = f

DescSound == HeldSound /\ EndsSound /\ Complete /\ OpenSound

LEMMA DescInit == Init => DescSound
  BY DEF Init, DescSound, HeldSound, EndsSound, Complete, OpenSound, NoStreams, Asking

\* A launch or Process that lets go of descriptors closes no other's.
LEMMA Closing ==
  ASSUME TypeOK, DescSound, NEW p \in Procs,
         NEW F \in SUBSET UNION {{held[p][s], ends[p][s]} : s \in Streams},
         fds' = Without(fds, F)
  PROVE  /\ \A f \in Fds : f \in Inherited => fds'[f] = Own(f)
         /\ \A f \in Fds : fds'[f] # Closed => fds'[f] = fds[f] /\ f \notin F
         /\ \A q \in Procs \ {p}, s \in Streams :
              /\ held[q][s] # None => fds'[held[q][s]] = fds[held[q][s]]
              /\ ends[q][s] # None => fds'[ends[q][s]] = fds[ends[q][s]]
         /\ \A s \in Streams : held[p][s] # None /\ held[p][s] \notin F =>
              fds'[held[p][s]] = fds[held[p][s]]
<1>1. \A f \in F \cap Fds : \E s \in Streams : \E e \in {"file", "read", "write"} : fds[f] = Thing(p, s, e)
  <2> SUFFICES ASSUME NEW f \in F \cap Fds PROVE \E s \in Streams : \E e \in {"file", "read", "write"} : fds[f] = Thing(p, s, e)
    OBVIOUS
  <2>1. PICK s \in Streams : f \in {held[p][s], ends[p][s]}
    OBVIOUS
  <2>2. f # None
    BY DEF None, Fds
  <2> QED BY <2>1, <2>2 DEF DescSound, HeldSound, EndsSound
<1>2. \A f \in Fds : f \notin F => fds'[f] = fds[f]
  BY DEF Without
<1>3. \A f \in F \cap Fds : f \notin Inherited
  BY <1>1, ThingsApart DEF DescSound, OpenSound
<1>4. ASSUME NEW q \in Procs \ {p}, NEW s \in Streams, NEW f \in Fds, NEW e, fds[f] = Thing(q, s, e)
      PROVE  f \notin F
  BY <1>1, <1>4, ThingsDiffer
<1>5. \A f \in Fds : f \in Inherited => fds'[f] = Own(f)
  BY <1>2, <1>3 DEF DescSound, OpenSound
<1>6. \A f \in Fds : fds'[f] # Closed => fds'[f] = fds[f] /\ f \notin F
  BY DEF Without
<1>7. ASSUME NEW q \in Procs \ {p}, NEW s \in Streams
      PROVE  /\ held[q][s] # None => fds'[held[q][s]] = fds[held[q][s]]
             /\ ends[q][s] # None => fds'[ends[q][s]] = fds[ends[q][s]]
  <2>1. held[q][s] # None => held[q][s] \in Fds /\ fds[held[q][s]] = Thing(q, s, IF request[q][s] = "file" THEN "file" ELSE "read")
    BY DEF TypeOK, DescSound, HeldSound
  <2>2. ends[q][s] # None => ends[q][s] \in Fds /\ fds[ends[q][s]] = Thing(q, s, "write")
    BY DEF TypeOK, DescSound, EndsSound
  <2> QED BY <1>2, <1>4, <2>1, <2>2
<1>8. \A s \in Streams : held[p][s] # None /\ held[p][s] \notin F => fds'[held[p][s]] = fds[held[p][s]]
  BY <1>2 DEF TypeOK
<1> QED BY <1>5, <1>6, <1>7, <1>8

LEMMA DescNext == TypeOK /\ DescSound /\ [Next]_vars => DescSound'
<1> SUFFICES ASSUME TypeOK, DescSound, [Next]_vars PROVE DescSound'
  OBVIOUS
<1>0. Streams = {"out", "err"} /\ None \notin Fds
  BY DEF Streams, None, Fds
<1> USE DEF launchVars, childVars, worldVars
\* Steps that leave descriptors, requests and the phase of a launch alone.
<1>a. ASSUME NEW p \in Procs, UNCHANGED <<fds, launchVars>>,
             \A q \in Procs \ {p} : pc'[q] = pc[q],
             \/ pc'[p] = pc[p]
             \/ pc[p] = "none" /\ pc'[p] = "refused"
             \/ pc[p] = "spawn" /\ pc'[p] \in {"failed", "after"}
             \/ pc[p] = "held" /\ pc'[p] = "ending"
             \/ pc[p] = "ending" /\ pc'[p] = "closing"
      PROVE  DescSound'
  <2>1. \A q \in Procs, s \in Streams :
          /\ Asking(q)' = Asking(q) /\ Prepared(q, s)' = Prepared(q, s)
          /\ (pc[q] \in Launching)' = (pc[q] \in Launching)
    BY <1>a DEF Asking, Prepared, Launching
  <2>2. HeldSound'
    BY <1>a, <2>1 DEF DescSound, HeldSound
  <2>3. EndsSound'
    BY <1>a, <2>1 DEF DescSound, EndsSound
  <2>4. Complete'
    BY <1>a, <2>1 DEF DescSound, Complete
  <2>5. OpenSound'
    BY <1>a DEF DescSound, OpenSound
  <2> QED BY <2>2, <2>3, <2>4, <2>5 DEF DescSound
<1>1. ASSUME NEW p \in Procs, NEW r \in Requests[p], Launch(p, r), Valid(r) PROVE DescSound'
  <2>1. /\ request' = [request EXCEPT ![p] = r] /\ pc' = [pc EXCEPT ![p] = "out"]
        /\ ends' = ends /\ OpensFiles(p, r) /\ pc[p] = "none"
    BY <1>1 DEF Launch
  <2>2. PICK f \in Fds \cup {None}, g \in Fds \cup {None} :
          /\ IF r.out = "file" THEN f # None /\ Lowest(fds, f) ELSE f = None
          /\ IF r.err = "file"
               THEN g # None /\ Lowest(With(fds, f, Thing(p, "out", "file")), g)
               ELSE g = None
          /\ fds' = With(With(fds, f, Thing(p, "out", "file")), g, Thing(p, "err", "file"))
          /\ held' = [held EXCEPT ![p] = [s \in Streams |-> IF s = "out" THEN f ELSE g]]
    BY <2>1, Zenon DEF OpensFiles
  <2> DEFINE t == With(fds, f, Thing(p, "out", "file"))
  <2>3. /\ t \in [Fds -> Things]
        /\ \A d \in Fds : fds[d] # Closed => t[d] = fds[d]
        /\ \A d \in Fds : t[d] # fds[d] => d = f
        /\ f # None => t[f] = Thing(p, "out", "file")
    <3>1. fds \in [Fds -> Things] /\ Thing(p, "out", "file") \in Things
      BY <1>0, ThingTypes DEF TypeOK
    <3>2. f # None => Lowest(fds, f)
      BY <2>2
    <3>3. t \in [Fds -> Things]
      BY <3>1, TableTypes
    <3> QED BY <3>1, <3>2, <3>3, Opening
  <2> HIDE DEF t
  <2>4. /\ \A d \in Fds : t[d] # Closed => fds'[d] = t[d]
        /\ \A d \in Fds : fds'[d] # t[d] => d = g
        /\ g # None => fds'[g] = Thing(p, "err", "file")
    <3>1. fds' = With(t, g, Thing(p, "err", "file")) /\ (g # None => Lowest(t, g))
      BY <2>2 DEF t
    <3>2. Thing(p, "err", "file") \in Things
      BY <1>0, ThingTypes
    <3> QED BY <2>3, <3>1, <3>2, Opening
  <2>5. f # None => fds'[f] = Thing(p, "out", "file")
    BY <2>3, <2>4, ThingsApart
  <2>6. \A d \in Fds : fds[d] # Closed => fds'[d] = fds[d]
    BY <2>3, <2>4
  <2>7. \A q \in Procs, s \in Streams : q # p =>
          /\ held'[q][s] = held[q][s] /\ request'[q] = request[q]
          /\ Asking(q)' = Asking(q) /\ Prepared(q, s)' = Prepared(q, s)
          /\ (pc[q] \in Launching)' = (pc[q] \in Launching)
    BY <2>1, <2>2 DEF TypeOK, Asking, Prepared
  <2>8. /\ held'[p]["out"] = f /\ held'[p]["err"] = g /\ request'[p] = r /\ Asking(p)'
        /\ \A s \in Streams : ends[p][s] = None /\ ~Prepared(p, s)'
    <3>1. held'[p]["out"] = f /\ held'[p]["err"] = g
      BY <1>0, <2>2 DEF TypeOK
    <3>2. request'[p] = r /\ pc'[p] = "out"
      BY <2>1 DEF TypeOK
    <3>3. \A s \in Streams : ends[p][s] = None
      BY <2>1 DEF DescSound, EndsSound, Launching
    <3> QED BY <3>1, <3>2, <3>3 DEF Asking, Prepared
  <2>9. HeldSound'
    <3> SUFFICES ASSUME NEW q \in Procs, NEW s \in Streams, held'[q][s] # None
                 PROVE  /\ fds'[held'[q][s]] = Thing(q, s, IF request'[q][s] = "file" THEN "file" ELSE "read")
                        /\ Asking(q)'
                        /\ request'[q][s] = "file" \/ (request'[q][s] = "pipe" /\ Prepared(q, s)')
      BY DEF HeldSound
    <3>1. CASE q = p
      BY <1>0, <2>2, <2>4, <2>5, <2>8, <3>1
    <3>2. CASE q # p
      <4>1. held[q][s] \in Fds /\ fds[held[q][s]] # Closed
        BY <2>7, <3>2, ThingsApart DEF TypeOK, DescSound, HeldSound
      <4> QED BY <2>6, <2>7, <3>2, <4>1 DEF DescSound, HeldSound
    <3> QED BY <3>1, <3>2
  <2>10. EndsSound'
    <3> SUFFICES ASSUME NEW q \in Procs, NEW s \in Streams, ends'[q][s] # None
                 PROVE  /\ fds'[ends'[q][s]] = Thing(q, s, "write")
                        /\ request'[q][s] = "pipe" /\ Prepared(q, s)' /\ (pc[q] \in Launching)'
      BY DEF EndsSound
    <3>1. q # p
      BY <2>1, <2>8
    <3>2. ends[q][s] \in Fds /\ fds[ends[q][s]] # Closed
      BY <2>1, ThingsApart DEF TypeOK, DescSound, EndsSound
    <3> QED BY <2>1, <2>6, <2>7, <3>1, <3>2 DEF DescSound, EndsSound
  <2>11. Complete'
    <3> SUFFICES ASSUME NEW q \in Procs, NEW s \in Streams, Asking(q)'
                 PROVE  /\ Valid(request'[q])
                        /\ request'[q][s] = "file" => held'[q][s] # None
                        /\ request'[q][s] = "pipe" /\ Prepared(q, s)' =>
                             held'[q][s] # None /\ ((pc[q] \in Launching)' => ends'[q][s] # None)
      BY DEF Complete
    <3>1. CASE q = p
      BY <1>0, <1>1, <2>2, <2>8, <3>1
    <3>2. CASE q # p
      BY <2>1, <2>7, <3>2 DEF DescSound, Complete
    <3> QED BY <3>1, <3>2
  <2>12. OpenSound'
    <3> SUFFICES ASSUME NEW d \in Fds
                 PROVE  /\ d \in Inherited => fds'[d] = Own(d)
                        /\ d \notin Inherited /\ fds'[d] # Closed =>
                             \E q \in Procs, s \in Streams : held'[q][s] = d \/ ends'[q][s] = d
      BY DEF OpenSound
    <3>1. d \in Inherited => fds'[d] = Own(d)
      BY <2>6, ThingsApart DEF DescSound, OpenSound
    <3>2. CASE d \notin Inherited /\ fds[d] # Closed
      <4>1. PICK q \in Procs, s \in Streams : held[q][s] = d \/ ends[q][s] = d
        BY <3>2 DEF DescSound, OpenSound
      <4>2. q # p
        BY <1>0, <2>1, <4>1 DEF DescSound, HeldSound, EndsSound, Asking, Launching
      <4> QED BY <2>1, <2>7, <3>1, <4>1, <4>2
    <3>3. CASE fds[d] = Closed /\ fds'[d] # Closed
      <4>1. d = f \/ d = g
        BY <2>3, <2>4, <3>3
      <4> QED BY <1>0, <2>8, <3>1, <4>1
    <3> QED BY <3>1, <3>2, <3>3
  <2> QED BY <2>9, <2>10, <2>11, <2>12 DEF DescSound
\* A launch or a Process that comes to its end.
<1>b. ASSUME NEW p \in Procs, NEW F \in SUBSET UNION {{held[p][s], ends[p][s]} : s \in Streams},
             fds' = Without(fds, F),
             pc'[p] \in {"refused", "gone"}, \A q \in Procs \ {p} : pc'[q] = pc[q],
             \A s \in Streams : /\ held'[p][s] = None /\ ends'[p][s] = None
                                /\ {held[p][s], ends[p][s]} \subseteq F \cup {None},
             \A q \in Procs \ {p} : held'[q] = held[q] /\ ends'[q] = ends[q] /\ request'[q] = request[q]
      PROVE  DescSound'
  <2>1. /\ \A f \in Fds : f \in Inherited => fds'[f] = Own(f)
        /\ \A f \in Fds : fds'[f] # Closed => fds'[f] = fds[f] /\ f \notin F
        /\ \A q \in Procs \ {p}, s \in Streams :
              /\ held[q][s] # None => fds'[held[q][s]] = fds[held[q][s]]
              /\ ends[q][s] # None => fds'[ends[q][s]] = fds[ends[q][s]]
    BY <1>b, Closing
  <2>2. ~Asking(p)' /\ \A q \in Procs \ {p}, s \in Streams :
          /\ Asking(q)' = Asking(q) /\ Prepared(q, s)' = Prepared(q, s)
          /\ (pc[q] \in Launching)' = (pc[q] \in Launching)
    BY <1>b DEF Asking, Prepared
  <2>3. HeldSound'
    BY <1>b, <2>1, <2>2 DEF DescSound, HeldSound
  <2>4. EndsSound'
    BY <1>b, <2>1, <2>2 DEF DescSound, EndsSound
  <2>5. Complete'
    BY <1>b, <2>1, <2>2 DEF DescSound, Complete
  <2>6. OpenSound'
    <3> SUFFICES ASSUME NEW d \in Fds, d \notin Inherited, fds'[d] # Closed
                 PROVE  \E q \in Procs, s \in Streams : held'[q][s] = d \/ ends'[q][s] = d
      BY <2>1 DEF OpenSound
    <3>1. fds[d] # Closed /\ d \notin F
      BY <2>1
    <3>2. PICK q \in Procs, s \in Streams : held[q][s] = d \/ ends[q][s] = d
      BY <3>1 DEF DescSound, OpenSound
    <3>3. q # p
      BY <1>0, <1>b, <3>1, <3>2
    <3> QED BY <1>b, <3>2, <3>3
  <2> QED BY <2>3, <2>4, <2>5, <2>6 DEF DescSound
<1>2. ASSUME NEW p \in Procs, NEW s \in Streams, Prepare(p, s) PROVE DescSound'
  <2>1. /\ pc[p] = s /\ pc' = [pc EXCEPT ![p] = IF s = "out" THEN "err" ELSE "spawn"]
        /\ request' = request
    BY <1>2 DEF Prepare
  <2>2. /\ \A q \in Procs, u \in Streams : q # p \/ u # s => Prepared(q, u)' = Prepared(q, u)
        /\ \A q \in Procs : Asking(q)' = Asking(q) /\ (pc[q] \in Launching)' = (pc[q] \in Launching)
        /\ ~Prepared(p, s) /\ Asking(p) /\ pc[p] \in Launching
    BY <1>0, <2>1 DEF TypeOK, Prepared, Asking, Launching
  <2>3. CASE request[p][s] # "pipe"
    <3>1. fds' = fds /\ held' = held /\ ends' = ends
      BY <1>2, <2>3 DEF Prepare
    <3>2. HeldSound'
      BY <2>1, <2>2, <2>3, <3>1 DEF DescSound, HeldSound
    <3>3. EndsSound'
      BY <2>1, <2>2, <2>3, <3>1 DEF DescSound, EndsSound
    <3>4. Complete'
      BY <2>1, <2>2, <2>3, <3>1 DEF DescSound, Complete
    <3>5. OpenSound'
      BY <3>1 DEF DescSound, OpenSound
    <3> QED BY <3>2, <3>3, <3>4, <3>5 DEF DescSound
  <2>4. CASE request[p][s] = "pipe"
    <3>1. PICK r \in Fds, w \in Fds :
            /\ Lowest(fds, r) /\ Lowest([fds EXCEPT ![r] = Thing(p, s, "read")], w)
            /\ fds' = [[fds EXCEPT ![r] = Thing(p, s, "read")] EXCEPT ![w] = Thing(p, s, "write")]
            /\ held' = [held EXCEPT ![p][s] = r] /\ ends' = [ends EXCEPT ![p][s] = w]
      BY <1>2, <2>4, Zenon DEF Prepare
    <3>2. Thing(p, s, "read") # Closed
      BY ThingsApart
    <3>3. fds[r] = Closed /\ fds[w] = Closed /\ w # r
      BY <3>1, <3>2 DEF Lowest, TypeOK
    <3>4. /\ fds'[r] = Thing(p, s, "read") /\ fds'[w] = Thing(p, s, "write")
          /\ \A d \in Fds \ {r, w} : fds'[d] = fds[d]
      BY <3>1, <3>3 DEF TypeOK
    <3>5. /\ held'[p][s] = r /\ ends'[p][s] = w
          /\ \A q \in Procs, u \in Streams : q # p \/ u # s =>
               held'[q][u] = held[q][u] /\ ends'[q][u] = ends[q][u]
      BY <3>1 DEF TypeOK
    <3>6. Prepared(p, s)'
      BY <1>0, <2>1 DEF TypeOK, Prepared
    <3>7. held[p][s] = None /\ ends[p][s] = None
      BY <2>2, <2>4 DEF DescSound, HeldSound, EndsSound
    <3>8. HeldSound'
      <4> SUFFICES ASSUME NEW q \in Procs, NEW u \in Streams, held'[q][u] # None
                   PROVE  /\ fds'[held'[q][u]] = Thing(q, u, IF request[q][u] = "file" THEN "file" ELSE "read")
                          /\ Asking(q)'
                          /\ request[q][u] = "file" \/ (request[q][u] = "pipe" /\ Prepared(q, u)')
        BY <2>1 DEF HeldSound
      <4>1. CASE q = p /\ u = s
        BY <2>2, <2>4, <3>4, <3>5, <3>6, <4>1
      <4>2. CASE q # p \/ u # s
        <5>1. held[q][u] \in Fds /\ held[q][u] \notin {r, w}
          BY <3>3, <3>5, <4>2, ThingsApart DEF TypeOK, DescSound, HeldSound
        <5> QED BY <2>2, <3>4, <3>5, <4>2, <5>1 DEF DescSound, HeldSound
      <4> QED BY <4>1, <4>2
    <3>9. EndsSound'
      <4> SUFFICES ASSUME NEW q \in Procs, NEW u \in Streams, ends'[q][u] # None
                   PROVE  /\ fds'[ends'[q][u]] = Thing(q, u, "write")
                          /\ request[q][u] = "pipe" /\ Prepared(q, u)' /\ (pc[q] \in Launching)'
        BY <2>1 DEF EndsSound
      <4>1. CASE q = p /\ u = s
        BY <2>2, <2>4, <3>4, <3>5, <3>6, <4>1
      <4>2. CASE q # p \/ u # s
        <5>1. ends[q][u] \in Fds /\ ends[q][u] \notin {r, w}
          BY <3>3, <3>5, <4>2, ThingsApart DEF TypeOK, DescSound, EndsSound
        <5> QED BY <2>2, <3>4, <3>5, <4>2, <5>1 DEF DescSound, EndsSound
      <4> QED BY <4>1, <4>2
    <3>10. Complete'
      <4> SUFFICES ASSUME NEW q \in Procs, NEW u \in Streams, Asking(q)'
                   PROVE  /\ Valid(request[q])
                          /\ request[q][u] = "file" => held'[q][u] # None
                          /\ request[q][u] = "pipe" /\ Prepared(q, u)' =>
                               held'[q][u] # None /\ ((pc[q] \in Launching)' => ends'[q][u] # None)
        BY <2>1 DEF Complete
      <4>1. CASE q = p /\ u = s
        BY <1>0, <2>2, <2>4, <3>5, <4>1 DEF DescSound, Complete
      <4>2. CASE q # p \/ u # s
        BY <2>2, <3>5, <4>2 DEF DescSound, Complete
      <4> QED BY <4>1, <4>2
    <3>11. OpenSound'
      <4> SUFFICES ASSUME NEW d \in Fds
                   PROVE  /\ d \in Inherited => fds'[d] = Own(d)
                          /\ d \notin Inherited /\ fds'[d] # Closed =>
                               \E q \in Procs, u \in Streams : held'[q][u] = d \/ ends'[q][u] = d
        BY DEF OpenSound
      <4>1. CASE d \in {r, w}
        <5>1. d \notin Inherited
          BY <3>3, <4>1, ThingsApart DEF DescSound, OpenSound
        <5> QED BY <3>5, <4>1, <5>1
      <4>2. CASE d \notin {r, w}
        <5>1. fds'[d] = fds[d]
          BY <3>4, <4>2
        <5>2. \A q \in Procs, u \in Streams : held[q][u] = d \/ ends[q][u] = d => q # p \/ u # s
          BY <1>0, <3>7
        <5> QED BY <3>5, <5>1, <5>2 DEF DescSound, OpenSound
      <4> QED BY <4>1, <4>2
    <3> QED BY <3>8, <3>9, <3>10, <3>11 DEF DescSound
  <2> QED BY <2>3, <2>4
<1>3. ASSUME NEW p \in Procs, ReturnsError(p) PROVE DescSound'
  <2>1. fds' = Without(fds, UNION {{held[p][s], ends[p][s]} : s \in Streams})
    BY <1>3 DEF ReturnsError, Drops
  <2>2. /\ pc'[p] = "refused" /\ \A q \in Procs \ {p} : pc'[q] = pc[q]
        /\ \A s \in Streams : held'[p][s] = None /\ ends'[p][s] = None
        /\ \A q \in Procs \ {p} : held'[q] = held[q] /\ ends'[q] = ends[q] /\ request'[q] = request[q]
    BY <1>3 DEF ReturnsError, NoStreams, TypeOK
  <2> QED BY <1>b, <2>1, <2>2
<1>4. ASSUME NEW p \in Procs, ReturnsProcess(p) PROVE DescSound'
  <2> DEFINE F == {ends[p][s] : s \in Streams}
  <2>1. fds' = Without(fds, F)
    <3>1. F \cup LeftBehind(p) = F
      BY DEF LeftBehind
    <3> QED BY <1>4, <3>1 DEF ReturnsProcess
  <2>2. F \in SUBSET UNION {{held[p][s], ends[p][s]} : s \in Streams}
    OBVIOUS
  <2>3. /\ \A f \in Fds : f \in Inherited => fds'[f] = Own(f)
        /\ \A f \in Fds : fds'[f] # Closed => fds'[f] = fds[f] /\ f \notin F
        /\ \A q \in Procs \ {p}, s \in Streams :
              /\ held[q][s] # None => fds'[held[q][s]] = fds[held[q][s]]
              /\ ends[q][s] # None => fds'[ends[q][s]] = fds[ends[q][s]]
        /\ \A s \in Streams : held[p][s] # None /\ held[p][s] \notin F =>
              fds'[held[p][s]] = fds[held[p][s]]
    <3> HIDE DEF F
    <3> QED BY <2>1, <2>2, Closing
  <2>4. \A s \in Streams : held[p][s] # None => held[p][s] \notin F
    <3> SUFFICES ASSUME NEW s \in Streams, NEW u \in Streams, held[p][s] # None, held[p][s] = ends[p][u]
                 PROVE  FALSE
      OBVIOUS
    <3>1. fds[held[p][s]] = Thing(p, u, "write")
      BY DEF DescSound, EndsSound
    <3>2. \E e \in {"file", "read"} : fds[held[p][s]] = Thing(p, s, e)
      BY DEF DescSound, HeldSound
    <3> QED BY <3>1, <3>2, ThingsDiffer
  <2>5. /\ pc[p] = "after" /\ pc'[p] = "held" /\ held' = held /\ request' = request
        /\ \A q \in Procs \ {p} : pc'[q] = pc[q] /\ ends'[q] = ends[q]
        /\ \A s \in Streams : ends'[p][s] = None
    BY <1>4 DEF ReturnsProcess, NoStreams, TypeOK
  <2>6. /\ \A q \in Procs, s \in Streams : Asking(q)' = Asking(q) /\ Prepared(q, s)' = Prepared(q, s)
        /\ \A q \in Procs \ {p} : (pc[q] \in Launching)' = (pc[q] \in Launching)
        /\ pc'[p] \notin Launching
    BY <2>5 DEF Asking, Prepared, Launching
  <2>7. HeldSound'
    <3> SUFFICES ASSUME NEW q \in Procs, NEW s \in Streams, held[q][s] # None
                 PROVE  fds'[held[q][s]] = fds[held[q][s]]
      BY <2>5, <2>6 DEF DescSound, HeldSound
    <3> QED BY <2>3, <2>4
  <2>8. EndsSound'
    BY <2>3, <2>5, <2>6 DEF DescSound, EndsSound
  <2>9. Complete'
    BY <2>5, <2>6 DEF DescSound, Complete
  <2>10. OpenSound'
    <3> SUFFICES ASSUME NEW d \in Fds, d \notin Inherited, fds'[d] # Closed
                 PROVE  \E q \in Procs, s \in Streams : held'[q][s] = d \/ ends'[q][s] = d
      BY <2>3 DEF OpenSound
    <3>1. fds[d] # Closed /\ d \notin F
      BY <2>3
    <3>2. PICK q \in Procs, s \in Streams : held[q][s] = d \/ ends[q][s] = d
      BY <3>1 DEF DescSound, OpenSound
    <3>3. held[q][s] = d \/ q # p
      BY <3>1, <3>2
    <3> QED BY <2>5, <3>2, <3>3
  <2> QED BY <2>7, <2>8, <2>9, <2>10 DEF DescSound
<1>5. ASSUME NEW p \in Procs, CloseStreams(p) PROVE DescSound'
  <2>1. \A s \in Streams : ends[p][s] = None
    BY <1>5 DEF CloseStreams, DescSound, EndsSound, Launching
  <2> DEFINE F == {held[p][s] : s \in Streams}
  <2>2. fds' = Without(fds, F) /\ F \in SUBSET UNION {{held[p][s], ends[p][s]} : s \in Streams}
    BY <1>5 DEF CloseStreams
  <2>3. /\ pc'[p] = "gone" /\ \A q \in Procs \ {p} : pc'[q] = pc[q]
        /\ \A s \in Streams : held'[p][s] = None /\ ends'[p][s] = None
        /\ \A q \in Procs \ {p} : held'[q] = held[q] /\ ends'[q] = ends[q] /\ request'[q] = request[q]
    BY <1>5, <2>1 DEF CloseStreams, NoStreams, TypeOK
  <2>4. \A s \in Streams : {held[p][s], ends[p][s]} \subseteq F \cup {None}
    BY <2>1
  <2> HIDE DEF F
  <2> QED BY <1>b, <2>2, <2>3, <2>4
<1>6. ASSUME NEW p \in Procs,
             \/ Spawn(p) \/ SpawnFails(p) \/ Terminate(p) \/ WaitPid(p) \/ TimesOut(p)
             \/ Exits(p) \/ OthersWait(p) \/ StrangerStarts(p)
             \/ \E r \in Requests[p] : Launch(p, r) /\ ~Valid(r)
      PROVE  DescSound'
  <2>1. /\ UNCHANGED <<fds, held, ends>> /\ request' = request
        /\ \A q \in Procs \ {p} : pc'[q] = pc[q]
    BY <1>6 DEF Spawn, SpawnFails, Terminate, WaitPid, TimesOut, Exits, OthersWait, StrangerStarts,
                Launch, TypeOK
  <2>2. \/ pc'[p] = pc[p]
        \/ pc[p] = "none" /\ pc'[p] = "refused"
        \/ pc[p] = "spawn" /\ pc'[p] \in {"failed", "after"}
        \/ pc[p] = "held" /\ pc'[p] = "ending"
        \/ pc[p] = "ending" /\ pc'[p] = "closing"
    BY <1>6 DEF Spawn, SpawnFails, Terminate, WaitPid, TimesOut, Exits, OthersWait, StrangerStarts,
                Launch, TypeOK
  <2> QED BY <1>a, <2>1, <2>2
<1>7. CASE UNCHANGED vars
  <2>1. DescSound' = DescSound
    BY <1>7 DEF vars, DescSound, HeldSound, EndsSound, Complete, OpenSound, Asking, Prepared
  <2> QED BY <2>1
<1> QED BY <1>1, <1>2, <1>3, <1>4, <1>5, <1>6, <1>7 DEF Next

LEMMA AlwaysDesc == Spec => [](TypeOK /\ DescSound)
<1>1. Init => TypeOK /\ DescSound
  BY TypeInit, DescInit
<1>2. TypeOK /\ DescSound /\ [Next]_vars => (TypeOK /\ DescSound)'
  BY TypeNext, DescNext
<1> QED BY <1>1, <1>2, PTL DEF Spec

\* Every open descriptor has one owner (fd.cpp:23-42): no launch, failed or not,
\* leaves one open or closes another's.
THEOREM DescriptorsOwned == Spec => []FdsOwned
<1>1. TypeOK /\ DescSound => FdsOwned
  <2> SUFFICES ASSUME TypeOK, DescSound PROVE FdsOwned
    OBVIOUS
  <2>1. \A f \in Fds : fds[f] = IF f \in Inherited THEN Own(f) ELSE
          IF \E p \in Procs, s \in Streams : f \in {held[p][s], ends[p][s]} THEN fds[f] ELSE Closed
    BY DEF DescSound, OpenSound
  <2>2. \A p \in Procs, s \in Streams : held[p][s] # None =>
          fds[held[p][s]] \in {Thing(p, s, "file"), Thing(p, s, "read")}
    BY DEF DescSound, HeldSound
  <2>3. \A p \in Procs, s \in Streams : ends[p][s] # None => fds[ends[p][s]] = Thing(p, s, "write")
    BY DEF DescSound, EndsSound
  <2> QED BY <2>1, <2>2, <2>3 DEF FdsOwned
<1> QED BY <1>1, AlwaysDesc, PTL

-----------------------------------------------------------------------------
(* What the children are given.                                             *)

\* A running child's table, and whose ends it can hold.
TableSound == \A p \in Procs :
  /\ child[p] = "runs" /\ pc[p] # "gone" => \A s \in Streams : table[p][Number(s)] = Asked(p, s)
  /\ \A f \in Fds : table[p][f].of = p =>
       table[p][f].end = "file" \/ (table[p][f].end = "write" /\ f \in {1, 2})
  /\ child[p] = "runs" => pc[p] \in {"after", "held"} \cup Ending
  /\ alone[p] => \A q \in Procs \ {p}, f \in Fds :
       table[q][f] \notin {Thing(p, s, "write") : s \in Streams}

\* A pipe's writing end is in the launcher during the launch only.
LEMMA WriteEnds ==
  ASSUME TypeOK, DescSound, NEW p \in Procs, NEW s \in Streams, NEW f \in Fds,
         fds[f] = Thing(p, s, "write")
  PROVE  pc[p] \in Launching
<1>1. f \notin Inherited /\ fds[f] # Closed
  BY ThingsApart DEF DescSound, OpenSound
<1>2. PICK q \in Procs, u \in Streams : held[q][u] = f \/ ends[q][u] = f
  BY <1>1 DEF DescSound, OpenSound
<1>3. f # None
  BY DEF Fds, None
<1>4. held[q][u] # f
  BY <1>3, ThingsDiffer DEF DescSound, HeldSound
<1>5. ends[q][u] = f
  BY <1>2, <1>4
<1>6. q = p
  BY <1>3, <1>5, ThingsDiffer DEF DescSound, EndsSound
<1> QED BY <1>3, <1>5, <1>6 DEF DescSound, EndsSound

\* The file actions give a child what was asked for, in any table.
LEMMA ChildTableSound ==
  ASSUME TypeOK, DescSound, NEW p \in Procs, pc[p] = "spawn"
  PROVE  /\ \A s \in Streams : ChildTable(p)[Number(s)] = Asked(p, s)
         /\ \A f \in Fds : ChildTable(p)[f].of = p =>
              \/ ChildTable(p)[f].end = "file"
              \/ ChildTable(p)[f].end = "write" /\ f \in {1, 2}
         /\ \A f \in Fds, q \in Procs, s \in Streams :
              q # p /\ ChildTable(p)[f] = Thing(q, s, "write") => fds[f] = Thing(q, s, "write")
<1>0. Streams = {"out", "err"} /\ None \notin Fds /\ 1 \in Fds /\ 2 \in Fds
  BY StandardAssumption DEF Streams, None, Fds
<1>1. fds[1] = Own(1) /\ fds[2] = Own(2)
  BY <1>0, StandardAssumption DEF DescSound, OpenSound
<1>2. \A f \in SubprocClose(p) : f \notin {1, 2}
  <2> SUFFICES ASSUME NEW f \in SubprocClose(p), f \in {1, 2} PROVE FALSE
    OBVIOUS
  <2>1. PICK s \in Streams : f \in {held[p][s], ends[p][s]}
    BY DEF SubprocClose
  <2>2. f # None /\ \E e : fds[f] = Thing(p, s, e)
    BY <1>0, <2>1 DEF DescSound, HeldSound, EndsSound
  <2> QED BY <1>0, <1>1, <2>2, ThingsApart
<1>3. ASSUME NEW s \in Streams
      PROVE  /\ request[p][s] = "none" => Source(p, s) = None
             /\ request[p][s] # "none" =>
                  /\ Source(p, s) \in Fds \ {1, 2} /\ fds[Source(p, s)] = Asked(p, s)
  <2>1. Asking(p) /\ Prepared(p, s) /\ Prepared(p, "out") /\ pc[p] \in Launching
    BY DEF Asking, Prepared, Launching
  <2>2. Valid(request[p]) /\ request[p][s] \in Kinds
    BY <1>0, <2>1, RequestsAssumption DEF TypeOK, Launching, DescSound, Complete
  <2>3. CASE request[p][s] = "none"
    BY <2>3 DEF Source
  <2>4. CASE request[p][s] = "pipe"
    <3>1. Source(p, s) = ends[p][s] /\ Asked(p, s) = Thing(p, s, "write")
      BY <2>4 DEF Source, Asked
    <3>2. ends[p][s] \in Fds /\ fds[ends[p][s]] = Thing(p, s, "write")
      BY <2>1, <2>4 DEF TypeOK, DescSound, Complete, EndsSound
    <3> QED BY <1>0, <1>1, <2>4, <3>1, <3>2, ThingsApart
  <2>5. CASE request[p][s] = "stdout_pipe"
    <3>1. Source(p, s) = ends[p]["out"] /\ Asked(p, s) = Thing(p, "out", "write")
      BY <2>5 DEF Source, Asked
    <3>2. request[p]["out"] = "pipe"
      BY <1>0, <2>2, <2>5 DEF Valid
    <3>3. ends[p]["out"] \in Fds /\ fds[ends[p]["out"]] = Thing(p, "out", "write")
      BY <1>0, <2>1, <3>2 DEF TypeOK, DescSound, Complete, EndsSound
    <3> QED BY <1>0, <1>1, <2>5, <3>1, <3>3, ThingsApart
  <2>6. CASE request[p][s] = "file"
    <3>1. Source(p, s) = held[p][s] /\ Asked(p, s) = Thing(p, s, "file")
      BY <2>6 DEF Source, Asked
    <3>2. held[p][s] \in Fds /\ fds[held[p][s]] = Thing(p, s, "file")
      BY <2>1, <2>6 DEF TypeOK, DescSound, Complete, HeldSound
    <3> QED BY <1>0, <1>1, <2>6, <3>1, <3>2, ThingsApart
  <2> QED BY <2>2, <2>3, <2>4, <2>5, <2>6 DEF Kinds
<1> DEFINE t1 == Dup(fds, Source(p, "out"), 1)
           t2 == Dup(t1, Source(p, "err"), 2)
<1>4. /\ t1 \in [Fds -> Things] /\ t2 \in [Fds -> Things]
      /\ \A f \in Fds \ {1} : t1[f] = fds[f]
      /\ \A f \in Fds \ {2} : t2[f] = t1[f]
  <2>1. t1 \in [Fds -> Things] /\ \A f \in Fds \ {1} : t1[f] = fds[f]
    <3>1. Source(p, "out") \in Fds \cup {None} /\ fds \in [Fds -> Things]
      BY <1>0, SourceTypes DEF TypeOK
    <3>2. t1 \in [Fds -> Things]
      BY <1>0, <3>1, TableTypes
    <3> QED BY <3>1, <3>2 DEF Dup
  <2> HIDE DEF t1
  <2>2. Source(p, "err") \in Fds \cup {None}
    BY <1>0, SourceTypes
  <2>3. t2 \in [Fds -> Things]
    BY <1>0, <2>1, <2>2, TableTypes
  <2> QED BY <2>1, <2>2, <2>3 DEF Dup
<1>5. t1[1] = Asked(p, "out")
  <2>1. CASE request[p]["out"] = "none"
    BY <1>0, <1>1, <1>3, <2>1 DEF Dup, Asked, Number
  <2>2. CASE request[p]["out"] # "none"
    BY <1>0, <1>3, <2>2 DEF Dup, TypeOK
  <2> QED BY <2>1, <2>2
<1>6. t2[2] = Asked(p, "err")
  <2>1. CASE request[p]["err"] = "none"
    BY <1>0, <1>1, <1>3, <1>4, <2>1 DEF Dup, Asked, Number
  <2>2. CASE request[p]["err"] # "none"
    <3>1. Source(p, "err") # None /\ t1[Source(p, "err")] = Asked(p, "err")
      BY <1>0, <1>3, <1>4, <2>2
    <3> HIDE DEF t1
    <3> QED BY <1>0, <1>4, <3>1 DEF Dup
  <2> QED BY <2>1, <2>2
<1>7. ChildTable(p) = Without(t2, SubprocClose(p))
  BY DEF ChildTable
<1> HIDE DEF t1, t2
<1>8. /\ ChildTable(p)[1] = Asked(p, "out") /\ ChildTable(p)[2] = Asked(p, "err")
      /\ \A f \in Fds \ {1, 2} : ChildTable(p)[f] = IF f \in SubprocClose(p) THEN Closed ELSE fds[f]
  BY <1>0, <1>2, <1>4, <1>5, <1>6, <1>7 DEF Without
<1>9. \A s \in Streams : \/ Asked(p, s) \in {Own(Number(s)), Thing(p, s, "file")}
                         \/ \E u \in Streams : Asked(p, s) = Thing(p, u, "write")
  <2>1. \A s \in Streams : request[p][s] \in Kinds
    BY <1>0, RequestsAssumption DEF TypeOK, Launching
  <2> QED BY <1>0, <2>1 DEF Asked, Kinds
<1>10. \A s \in Streams : ChildTable(p)[Number(s)] = Asked(p, s)
  BY <1>0, <1>8 DEF Number
<1>11. ASSUME NEW f \in Fds, ChildTable(p)[f].of = p
       PROVE  \/ ChildTable(p)[f].end = "file"
              \/ ChildTable(p)[f].end = "write" /\ f \in {1, 2}
  <2>1. CASE f \in {1, 2}
    BY <1>0, <1>8, <1>9, <2>1, ThingsApart DEF Own, Thing
  <2>2. CASE f \notin {1, 2}
    <3>1. fds[f].of = p /\ f \notin SubprocClose(p) /\ ChildTable(p)[f] = fds[f]
      BY <1>8, <1>11, <2>2, ThingsApart
    <3>2. f \notin Inherited /\ fds[f] # Closed
      BY <3>1, ThingsApart DEF DescSound, OpenSound
    <3>3. PICK q \in Procs, u \in Streams : held[q][u] = f \/ ends[q][u] = f
      BY <3>2 DEF DescSound, OpenSound
    <3>4. \E e : fds[f] = Thing(q, u, e)
      BY <1>0, <3>3 DEF DescSound, HeldSound, EndsSound
    <3>5. q = p
      BY <3>1, <3>4, ThingsApart
    <3>6. request[p][u] # "pipe"
      BY <3>1, <3>3, <3>5 DEF SubprocClose
    <3>7. held[p][u] = f /\ fds[f] = Thing(p, u, "file")
      BY <1>0, <3>3, <3>5, <3>6 DEF DescSound, HeldSound, EndsSound
    <3> QED BY <3>1, <3>7, ThingsApart
  <2> QED BY <2>1, <2>2
<1>12. ASSUME NEW f \in Fds, NEW q \in Procs, NEW s \in Streams, q # p,
              ChildTable(p)[f] = Thing(q, s, "write")
       PROVE  fds[f] = Thing(q, s, "write")
  <2>1. CASE f \in {1, 2}
    BY <1>0, <1>8, <1>9, <1>12, <2>1, ThingsApart, ThingsDiffer DEF Number
  <2>2. CASE f \notin {1, 2}
    BY <1>8, <1>12, <2>2, ThingsApart
  <2> QED BY <2>1, <2>2
<1> QED BY <1>10, <1>11, <1>12

LEMMA TableInit == Init => TableSound
  BY ThingsApart DEF Init, TableSound, NoTable

LEMMA TableNext == TypeOK /\ DescSound /\ TableSound /\ [Next]_vars => TableSound'
<1> SUFFICES ASSUME TypeOK, DescSound, TableSound, [Next]_vars PROVE TableSound'
  OBVIOUS
<1> USE DEF launchVars, childVars, worldVars
\* Steps that start nothing and end nothing.
<1>1. ASSUME NEW p \in Procs, UNCHANGED <<child, table, alone>>,
             \A q \in Procs \ {p} : pc'[q] = pc[q] /\ request'[q] = request[q],
             \/ pc[p] \in {"none", "out", "err", "spawn", "failed"}
             \/ pc'[p] = "gone"
             \/ pc'[p] \in {"held"} \cup Ending /\ request'[p] = request[p] /\ pc[p] # "gone"
      PROVE  TableSound'
  <2>1. \A q \in Procs : child[q] = "runs" => pc'[q] \in {"after", "held"} \cup Ending
    BY <1>1 DEF TableSound, Ending
  <2>2. \A q \in Procs : child[q] = "runs" /\ pc'[q] # "gone" => pc[q] # "gone" /\ request'[q] = request[q]
    BY <1>1 DEF TableSound, Ending
  <2>3. \A q \in Procs : child[q] = "runs" /\ pc'[q] # "gone" => \A s \in Streams :
          table[q][Number(s)] = Asked(q, s)'
    BY <2>2 DEF TableSound, Asked
  <2> QED BY <1>1, <2>1, <2>3 DEF TableSound
\* Steps that change neither a launch nor a running child's table.
<1>2. ASSUME UNCHANGED <<pc, request, alone>>,
             \A q \in Procs : /\ child'[q] = "runs" => child[q] = "runs" /\ table'[q] = table[q]
                              /\ table'[q] = table[q] \/ table'[q] = NoTable
      PROVE  TableSound'
  <2>1. \A q \in Procs, s \in Streams : Asked(q, s)' = Asked(q, s)
    BY <1>2 DEF Asked
  <2>2. \A q, p \in Procs, f \in Fds : table'[q][f].of = p => table'[q][f] = table[q][f]
    BY <1>2, ThingsApart DEF NoTable
  <2>3. \A q, p \in Procs, f \in Fds, s \in Streams :
          table'[q][f] = Thing(p, s, "write") => table[q][f] = Thing(p, s, "write")
    BY <2>2, ThingsApart
  <2>4. ASSUME NEW p \in Procs
        PROVE  /\ child'[p] = "runs" /\ pc'[p] # "gone" => \A s \in Streams : table'[p][Number(s)] = Asked(p, s)'
               /\ child'[p] = "runs" => pc'[p] \in {"after", "held"} \cup Ending
    BY <1>2, <2>1 DEF TableSound
  <2>5. ASSUME NEW p \in Procs, NEW f \in Fds, table'[p][f].of = p
        PROVE  table'[p][f].end = "file" \/ (table'[p][f].end = "write" /\ f \in {1, 2})
    BY <2>2, <2>5 DEF TableSound
  <2>6. ASSUME NEW p \in Procs, alone'[p], NEW q \in Procs \ {p}, NEW f \in Fds
        PROVE  table'[q][f] \notin {Thing(p, s, "write") : s \in Streams}
    BY <1>2, <2>3, <2>6 DEF TableSound
  <2> QED BY <2>4, <2>5, <2>6 DEF TableSound
<1>3. ASSUME NEW p \in Procs, Spawn(p) PROVE TableSound'
  <2>1. /\ pc[p] = "spawn" /\ pc' = [pc EXCEPT ![p] = "after"] /\ request' = request
        /\ child' = [child EXCEPT ![p] = "runs"] /\ table' = [table EXCEPT ![p] = ChildTable(p)]
        /\ alone' = [q \in Procs |-> alone[q] /\ (q # p => pc[q] \notin Launching)]
    BY <1>3 DEF Spawn
  <2>2. table'[p] = ChildTable(p) /\ pc'[p] = "after" /\ child'[p] = "runs"
        /\ \A q \in Procs \ {p} : table'[q] = table[q] /\ pc'[q] = pc[q] /\ child'[q] = child[q]
    BY <2>1 DEF TypeOK
  <2>3. \A q \in Procs, s \in Streams : Asked(q, s)' = Asked(q, s)
    BY <2>1 DEF Asked
  <2>4. ASSUME NEW q \in Procs
        PROVE  /\ child'[q] = "runs" /\ pc'[q] # "gone" => \A s \in Streams : table'[q][Number(s)] = Asked(q, s)'
               /\ child'[q] = "runs" => pc'[q] \in {"after", "held"} \cup Ending
               /\ \A f \in Fds : table'[q][f].of = q =>
                    table'[q][f].end = "file" \/ (table'[q][f].end = "write" /\ f \in {1, 2})
    <3>1. CASE q = p
      BY <2>1, <2>2, <2>3, <3>1, ChildTableSound
    <3>2. CASE q # p
      BY <2>2, <2>3, <3>2 DEF TableSound
    <3> QED BY <3>1, <3>2
  <2>5. ASSUME NEW q \in Procs, alone'[q], NEW r \in Procs \ {q}, NEW f \in Fds, NEW s \in Streams,
               table'[r][f] = Thing(q, s, "write")
        PROVE  FALSE
    <3>1. alone[q] /\ (q # p => pc[q] \notin Launching)
      BY <2>1, <2>5
    <3>2. CASE r # p
      BY <2>2, <2>5, <3>1, <3>2 DEF TableSound
    <3>3. CASE r = p
      <4>1. fds[f] = Thing(q, s, "write")
        BY <2>1, <2>2, <2>5, <3>3, ChildTableSound
      <4> QED BY <2>5, <3>1, <3>3, <4>1, WriteEnds
    <3> QED BY <3>2, <3>3
  <2> QED BY <2>4, <2>5 DEF TableSound
<1>4. ASSUME NEW p \in Procs,
             \/ \E r \in Requests[p] : Launch(p, r)
             \/ \E s \in Streams : Prepare(p, s)
             \/ SpawnFails(p) \/ ReturnsError(p) \/ ReturnsProcess(p) \/ Terminate(p)
             \/ TimesOut(p) \/ CloseStreams(p)
      PROVE  TableSound'
  <2>1. /\ UNCHANGED <<child, table, alone>>
        /\ \A q \in Procs \ {p} : pc'[q] = pc[q] /\ request'[q] = request[q]
    BY <1>4 DEF Launch, Prepare, SpawnFails, ReturnsError, ReturnsProcess, Terminate, TimesOut,
                CloseStreams, TypeOK
  <2>2. \/ pc[p] \in {"none", "out", "err", "spawn", "failed"}
        \/ pc'[p] = "gone"
        \/ pc'[p] \in {"held"} \cup Ending /\ request'[p] = request[p] /\ pc[p] # "gone"
    BY <1>4 DEF Launch, Prepare, SpawnFails, ReturnsError, ReturnsProcess, Terminate, TimesOut,
                CloseStreams, TypeOK, Streams, Ending
  <2> QED BY <1>1, <2>1, <2>2
<1>5. ASSUME NEW p \in Procs, WaitPid(p) PROVE TableSound'
  <2>1. PICK q \in Procs : child[q] = "zombie" /\ child' = [child EXCEPT ![q] = "reaped"]
    BY <1>5 DEF WaitPid
  <2>2. /\ UNCHANGED <<request, table, alone>> /\ pc[p] = "ending" /\ pc'[p] = "closing"
        /\ \A r \in Procs \ {p} : pc'[r] = pc[r]
    BY <1>5 DEF WaitPid, TypeOK
  <2>3. \A r \in Procs : child'[r] = "runs" => child[r] = "runs"
    BY <2>1 DEF TypeOK
  <2>4. \A r \in Procs, s \in Streams : Asked(r, s)' = Asked(r, s)
    BY <2>2 DEF Asked
  <2> QED BY <2>2, <2>3, <2>4 DEF TableSound, Ending
<1>7. ASSUME NEW p \in Procs, Exits(p) \/ OthersWait(p) \/ StrangerStarts(p) PROVE TableSound'
  <2>1. /\ UNCHANGED <<pc, request, alone>>
        /\ \A q \in Procs : /\ child'[q] = "runs" => child[q] = "runs" /\ table'[q] = table[q]
                            /\ table'[q] = table[q] \/ table'[q] = NoTable
    BY <1>7 DEF Exits, OthersWait, StrangerStarts, TypeOK
  <2> QED BY <1>2, <2>1
<1>8. CASE UNCHANGED vars
  BY <1>2, <1>8 DEF vars
<1> QED BY <1>3, <1>4, <1>5, <1>7, <1>8 DEF Next

LEMMA AlwaysTable == Spec => [](TypeOK /\ DescSound /\ TableSound)
<1>1. Init => TypeOK /\ DescSound /\ TableSound
  BY TypeInit, DescInit, TableInit
<1>2. TypeOK /\ DescSound /\ TableSound /\ [Next]_vars => (TypeOK /\ DescSound /\ TableSound)'
  BY TypeNext, DescNext, TableNext
<1> QED BY <1>1, <1>2, PTL DEF Spec

\* The streams are what was asked for (process_helpers.cpp:20-95), whatever is open
\* in the launcher besides its own stdout and stderr.
THEOREM StreamsConnected == Spec => []StreamsAsAsked
<1>1. TypeOK /\ DescSound /\ TableSound => StreamsAsAsked
  <2> SUFFICES ASSUME TypeOK, DescSound, TableSound, NEW p \in Procs, pc[p] = "held",
                      NEW s \in Streams, request[p][s] = "pipe"
               PROVE  held[p][s] # None /\ fds[held[p][s]] = Thing(p, s, "read")
    BY DEF StreamsAsAsked, TableSound
  <2>1. held[p][s] # None
    BY DEF DescSound, Complete, Asking, Prepared
  <2> QED BY <2>1 DEF DescSound, HeldSound
<1> QED BY <1>1, AlwaysTable, PTL

\* Whoever reads a pipe gets its end of file when the child has gone
\* (process.cpp:66-72, process_helpers.cpp:92-94).
THEOREM ReadersSeeTheEnd == Spec => []EndOfFileComes
<1>1. TypeOK /\ DescSound /\ TableSound => EndOfFileComes
  <2> SUFFICES ASSUME TypeOK, DescSound, TableSound PROVE EndOfFileComes
    OBVIOUS
  <2>1. \A p \in Procs, s \in Streams, f \in Fds : pc[p] \notin Launching => fds[f] # Thing(p, s, "write")
    BY WriteEnds
  <2>2. \A p \in Procs : pc[p] \notin Launching =>
          \A f \in Fds : fds[f] \notin {Thing(p, s, "write") : s \in Streams}
    BY <2>1
  <2> QED BY <2>2 DEF EndOfFileComes, TableSound
<1> QED BY <1>1, AlwaysTable, PTL

-----------------------------------------------------------------------------
(* The environment.                                                         *)

Assignments == [name : Names, val : Seq(Chars)]

\* What the calls say, of an environment that began as the map of a list.
AsAsked(base, calls, env) ==
  \A n \in Names :
    LET about == {i \in DOMAIN calls : calls[i].name = n}
        last  == CHOOSE i \in about : \A j \in about : j <= i
        was   == Getenv(base, n)
        now   == Getenv(env, n)
    IN /\ about = {} => now = was
       /\ about # {} => \E v \in now :
            /\ IsPrefix(calls[last].val, v)
            /\ calls[last].do = "set" => v = calls[last].val
            /\ (\A i \in about : calls[i].do = "prepend") =>
                 \A w \in was : /\ IsSuffix(w, v)
                                /\ Len(v) >= Len(w) + Len(calls[last].val)

LEMMA MapOfList ==
  ASSUME NEW base \in Seq(Assignments)
  PROVE  LET m == FromEnv(base)
         IN /\ IsFiniteSet(DOMAIN m) /\ \A n \in DOMAIN m : m[n] \in Seq(Chars)
            /\ \A n : Getenv(base, n) = IF n \in DOMAIN m THEN {m[n]} ELSE {}
<1> DEFINE m == FromEnv(base)
<1>1. Len(base) \in Nat /\ DOMAIN base = 1..Len(base)
  BY LenProperties
<1>2. \A i \in DOMAIN base : base[i] \in Assignments
  BY <1>1, ElementOfSeq
<1>3. \A n : Getenv(base, n) = IF n \in DOMAIN m THEN {m[n]} ELSE {}
  BY <1>1, ConstructorKeepsValues
<1>4. IsFiniteSet(DOMAIN m)
  BY <1>1, FromEnvKeepsFirst
<1> HIDE DEF m
<1>5. ASSUME NEW n \in DOMAIN m PROVE m[n] \in Seq(Chars)
  <2>1. m[n] \in Getenv(base, n)
    BY <1>3
  <2>2. PICK i \in DOMAIN base : m[n] = base[i].val
    BY <2>1 DEF Getenv
  <2> QED BY <1>2, <2>2 DEF Assignments
<1> QED BY <1>3, <1>4, <1>5 DEF m

LEMMA EnvVarsAsAsked ==
  ASSUME NEW base \in Seq(Assignments),
         NEW calls \in Seq([do : {"set", "prepend"}, name : Names, val : Seq(Chars)])
  PROVE  AsAsked(base, calls, Vars(Edited(FromEnv(base), calls)))
<1> DEFINE m == FromEnv(base)
           e == Edited(m, calls)
<1>1. /\ IsFiniteSet(DOMAIN m) /\ \A n \in DOMAIN m : m[n] \in Seq(Chars)
      /\ \A n : Getenv(base, n) = IF n \in DOMAIN m THEN {m[n]} ELSE {}
  BY MapOfList
<1>2. Leaves(Chars, m, calls, Len(calls), e) /\ IsFiniteSet(DOMAIN e)
  BY <1>1, EditsAsAsked
<1>3. \A n : Getenv(Vars(e), n) = IF n \in DOMAIN e THEN {e[n]} ELSE {}
  BY <1>2, VarsKeepsValues
<1>4. Len(calls) \in Nat /\ DOMAIN calls = 1..Len(calls)
  BY LenProperties
<1> HIDE DEF m, e
<1> SUFFICES ASSUME NEW n \in Names
             PROVE  LET about == {i \in DOMAIN calls : calls[i].name = n}
                        last  == CHOOSE i \in about : \A j \in about : j <= i
                        was   == Getenv(base, n)
                        now   == Getenv(Vars(e), n)
                    IN /\ about = {} => now = was
                       /\ about # {} => \E v \in now :
                            /\ IsPrefix(calls[last].val, v)
                            /\ calls[last].do = "set" => v = calls[last].val
                            /\ (\A i \in about : calls[i].do = "prepend") =>
                                 \A w \in was : /\ IsSuffix(w, v)
                                                /\ Len(v) >= Len(w) + Len(calls[last].val)
  BY DEF AsAsked, m, e
<1> DEFINE about == {i \in DOMAIN calls : calls[i].name = n}
           last  == CHOOSE i \in about : \A j \in about : j <= i
           was   == Getenv(base, n)
           now   == Getenv(Vars(e), n)
<1>5. ASSUME about = {} PROVE now = was
  <2>1. n \in DOMAIN e <=> n \in DOMAIN m
    BY <1>2, <1>4, <1>5 DEF Leaves
  <2>2. n \in DOMAIN m => e[n] = m[n]
    BY <1>2, <1>4, <1>5 DEF Leaves
  <2> QED BY <1>1, <1>3, <2>1, <2>2
<1>6. ASSUME about # {}
      PROVE  \E v \in now :
               /\ IsPrefix(calls[last].val, v)
               /\ calls[last].do = "set" => v = calls[last].val
               /\ (\A i \in about : calls[i].do = "prepend") =>
                    \A w \in was : IsSuffix(w, v) /\ Len(v) >= Len(w) + Len(calls[last].val)
  <2>1. \E i \in about : \A j \in about : j <= i
    <3>1. about \in SUBSET (1..Len(calls))
      BY <1>4
    <3> HIDE DEF about
    <3> QED BY <1>4, <1>6, <3>1, GreatestNumber
  <2>2. last \in about /\ \A j \in about : j <= last
    BY <2>1, Zenon
  <2>3. last \in 1..Len(calls) /\ calls[last].name = n
        /\ \A k \in 1..Len(calls) : calls[k].name = calls[last].name => k <= last
    BY <1>4, <2>2
  <2> HIDE DEF last
  <2>4. n \in DOMAIN e
    BY <1>2, <2>3 DEF Leaves
  <2>5. /\ IsPrefix(calls[last].val, e[n])
        /\ calls[last].do = "set" => e[n] = calls[last].val
        /\ (\A k \in 1..Len(calls) : calls[k].name = n => calls[k].do = "prepend") /\ n \in DOMAIN m =>
             IsSuffix(m[n], e[n]) /\ Len(e[n]) >= Len(m[n]) + Len(calls[last].val)
    BY <1>2, <2>3 DEF Leaves
  <2>6. now = {e[n]} /\ was = IF n \in DOMAIN m THEN {m[n]} ELSE {}
    BY <1>1, <1>3, <2>4
  <2>7. (\A i \in about : calls[i].do = "prepend") =>
          \A k \in 1..Len(calls) : calls[k].name = n => calls[k].do = "prepend"
    BY <1>4
  <2> HIDE DEF now, was, about
  <2> QED BY <2>5, <2>6, <2>7
<1> QED BY <1>5, <1>6

LEMMA RequestedEnvironment ==
  ASSUME NEW p \in Procs, NEW r \in Requests[p]
  PROVE  AsAsked(IF r.env = "empty" THEN <<>> ELSE Environ, r.calls, EnvironmentOf(r))
<1>1. /\ r.env \in {"null", "copy", "empty"} /\ (r.env = "null" => r.calls = <<>>)
      /\ r.calls \in Seq([do : {"set", "prepend"}, name : Names, val : Seq(Chars)])
  BY RequestsAssumption
<1>2. Environ \in Seq(Assignments) /\ <<>> \in Seq(Assignments)
  BY EnvironAssumption, EmptySeq DEF Assignments
<1>3. CASE r.env = "null"
  <2>1. DOMAIN r.calls = {} /\ EnvironmentOf(r) = Environ
    BY <1>1, <1>3 DEF EnvironmentOf
  <2> QED BY <1>3, <2>1 DEF AsAsked
<1>4. CASE r.env = "copy"
  <2>1. EnvironmentOf(r) = Vars(Edited(FromEnv(Environ), r.calls))
    BY <1>4 DEF EnvironmentOf
  <2> QED BY <1>1, <1>2, <1>4, <2>1, EnvVarsAsAsked
<1>5. CASE r.env = "empty"
  <2>1. EnvironmentOf(r) = Vars(Edited(FromEnv(<<>>), r.calls))
    BY <1>5 DEF EnvironmentOf
  <2> QED BY <1>1, <1>2, <1>5, <2>1, EnvVarsAsAsked
<1> QED BY <1>1, <1>3, <1>4, <1>5

\* A child has the environment of its request as long as its Process is there.
EnvSound == \A p \in Procs : child[p] = "runs" /\ pc[p] # "gone" =>
  request[p] \in Requests[p] /\ environment[p] = EnvironmentOf(request[p])

LEMMA EnvNext == TypeOK /\ TableSound /\ EnvSound /\ [Next]_vars => EnvSound'
<1> SUFFICES ASSUME TypeOK, TableSound, EnvSound, [Next]_vars,
                    NEW q \in Procs, child'[q] = "runs", pc'[q] # "gone"
             PROVE  request'[q] \in Requests[q] /\ environment'[q] = EnvironmentOf(request'[q])
  BY DEF EnvSound
<1> USE DEF launchVars, childVars, worldVars
<1>1. CASE Spawn(q)
  BY <1>1 DEF Spawn, TypeOK
<1>2. CASE UNCHANGED <<environment[q], request[q]>> /\ child[q] = "runs" /\ pc[q] # "gone"
  BY <1>2 DEF EnvSound
<1>3. child[q] = "runs" => pc[q] \in {"after", "held"} \cup Ending
  BY DEF TableSound
<1>4. ASSUME NEW p \in Procs,
             \/ \E r \in Requests[p] : Launch(p, r)
             \/ \E s \in Streams : Prepare(p, s)
             \/ SpawnFails(p) \/ ReturnsError(p) \/ ReturnsProcess(p) \/ Terminate(p) \/ CloseStreams(p)
      PROVE  UNCHANGED <<environment[q], request[q]>> /\ child[q] = "runs" /\ pc[q] # "gone"
  BY <1>3, <1>4 DEF Launch, Prepare, SpawnFails, ReturnsError, ReturnsProcess, Terminate, CloseStreams,
                    TypeOK, Ending, Streams
<1>5. ASSUME NEW p \in Procs, Spawn(p), p # q
      PROVE  UNCHANGED <<environment[q], request[q]>> /\ child[q] = "runs" /\ pc[q] # "gone"
  BY <1>5 DEF Spawn, TypeOK
<1>6. ASSUME NEW p \in Procs, WaitPid(p) \/ OthersWait(p) \/ StrangerStarts(p)
      PROVE  UNCHANGED <<environment[q], request[q]>> /\ child[q] = "runs" /\ pc[q] # "gone"
  BY <1>6 DEF WaitPid, OthersWait, StrangerStarts, TypeOK
<1>7. ASSUME NEW p \in Procs, TimesOut(p) \/ Exits(p)
      PROVE  UNCHANGED <<environment[q], request[q]>> /\ child[q] = "runs" /\ pc[q] # "gone"
  BY <1>7 DEF TimesOut, Exits, TypeOK
<1>8. CASE UNCHANGED vars
  BY <1>2, <1>8 DEF vars
<1> QED BY <1>1, <1>2, <1>4, <1>5, <1>6, <1>7, <1>8 DEF Next

\* What getenv finds in a child is what its request says (env_vars.cpp:24-54,
\* process.cpp:56-61), for any environment and any calls.
THEOREM EnvironmentFollows == Spec => []EnvironmentAsAsked
<1>1. Init => EnvSound
  BY DEF Init, EnvSound
<1>2. TypeOK /\ TableSound /\ EnvSound /\ [Next]_vars => EnvSound'
  BY EnvNext
<1>3. EnvSound => EnvironmentAsAsked
  <2> SUFFICES ASSUME EnvSound, NEW p \in Procs, child[p] = "runs", pc[p] # "gone"
               PROVE  AsAsked(IF request[p].env = "empty" THEN <<>> ELSE Environ, request[p].calls, environment[p])
    BY DEF EnvironmentAsAsked, AsAsked
  <2> QED BY RequestedEnvironment DEF EnvSound
<1> QED BY <1>1, <1>2, <1>3, AlwaysTable, PTL DEF Spec

-----------------------------------------------------------------------------
(* Which process a signal reaches.                                          *)

Unreaped == {"runs", "zombie"}

PidSound ==
  /\ \A p \in Procs : child[p] \in Unreaped => pid[p] \in Pids \ strangers
  /\ \A p, q \in Procs : p # q /\ child[p] \in Unreaped /\ child[q] \in Unreaped => pid[p] # pid[q]
  /\ ~stolen => \A p \in Procs : pc[p] \in {"after", "held", "ending"} => child[p] \in Unreaped
  /\ \A p \in Procs : pc[p] \in {"closing", "gone"} /\ child[p] = "runs" => p \in doomed
  /\ hit => stolen

LEMMA PidInit == Init => PidSound
  BY DEF Init, PidSound, Unreaped

LEMMA KillHits ==
  ASSUME TypeOK, PidSound, NEW p \in Procs, pc[p] \in {"held", "ending"}, Kill(p)
  PROVE  UNCHANGED <<strangers, stolen>> /\ (hit' => stolen)
<1>1. ~stolen => child[p] \in Unreaped
  BY DEF PidSound
<1>2. ~stolen => pid[p] \notin strangers /\ Targets(p) \subseteq {p}
  BY <1>1 DEF PidSound, Targets, Unreaped
<1> QED BY <1>2 DEF Kill, PidSound

LEMMA PidNext == TypeOK /\ PidSound /\ [Next]_vars => PidSound'
<1> SUFFICES ASSUME TypeOK, PidSound, [Next]_vars PROVE PidSound'
  OBVIOUS
<1> USE DEF launchVars, childVars, worldVars
<1>1. ASSUME NEW p \in Procs,
             \/ \E r \in Requests[p] : Launch(p, r)
             \/ \E s \in Streams : Prepare(p, s)
             \/ SpawnFails(p) \/ ReturnsError(p) \/ ReturnsProcess(p) \/ CloseStreams(p)
      PROVE  PidSound'
  <2>1. /\ UNCHANGED <<child, pid, strangers, doomed, stolen, hit>>
        /\ \A q \in Procs \ {p} : pc'[q] = pc[q]
    BY <1>1 DEF Launch, Prepare, SpawnFails, ReturnsError, ReturnsProcess, CloseStreams, TypeOK
  <2>2. \/ pc'[p] \in {"refused", "out", "err", "spawn", "failed"}
        \/ pc[p] = "after" /\ pc'[p] = "held"
        \/ pc[p] = "closing" /\ pc'[p] = "gone"
    BY <1>1 DEF Launch, Prepare, SpawnFails, ReturnsError, ReturnsProcess, CloseStreams, TypeOK
  <2> QED BY <2>1, <2>2 DEF PidSound
<1>2. ASSUME NEW p \in Procs, Spawn(p) PROVE PidSound'
  <2>1. PICK n \in FreePids : pid' = [pid EXCEPT ![p] = n]
    BY <1>2 DEF Spawn
  <2>2. /\ child' = [child EXCEPT ![p] = "runs"] /\ pc' = [pc EXCEPT ![p] = "after"]
        /\ UNCHANGED <<strangers, doomed, stolen, hit>>
    BY <1>2 DEF Spawn
  <2>3. /\ n \in Pids \ strangers
        /\ \A q \in Procs : child[q] \in Unreaped => pid[q] # n
    BY DEF FreePids, Unreaped
  <2>4. /\ pid'[p] = n /\ child'[p] = "runs" /\ pc'[p] = "after"
        /\ \A q \in Procs \ {p} : pid'[q] = pid[q] /\ child'[q] = child[q] /\ pc'[q] = pc[q]
    BY <2>1, <2>2 DEF TypeOK
  <2> QED BY <2>2, <2>3, <2>4 DEF PidSound, Unreaped
<1>3. ASSUME NEW p \in Procs, Terminate(p) PROVE PidSound'
  <2>1. UNCHANGED <<strangers, stolen>> /\ (hit' => stolen)
    BY <1>3, KillHits DEF Terminate
  <2>2. /\ UNCHANGED <<child, pid, doomed>> /\ pc[p] = "held" /\ pc'[p] = "ending"
        /\ \A q \in Procs \ {p} : pc'[q] = pc[q]
    BY <1>3 DEF Terminate, TypeOK
  <2> QED BY <2>1, <2>2 DEF PidSound
<1>4. ASSUME NEW p \in Procs, WaitPid(p) PROVE PidSound'
  <2>1. PICK q \in Procs : /\ child[q] = "zombie" /\ pid[q] = pid[p]
                           /\ child' = [child EXCEPT ![q] = "reaped"]
    BY <1>4 DEF WaitPid
  <2>2. /\ UNCHANGED <<pid, strangers, doomed, stolen, hit>> /\ pc[p] = "ending" /\ pc'[p] = "closing"
        /\ \A r \in Procs \ {p} : pc'[r] = pc[r]
    BY <1>4 DEF WaitPid, TypeOK
  <2>3. child'[q] = "reaped" /\ \A r \in Procs \ {q} : child'[r] = child[r]
    BY <2>1 DEF TypeOK
  <2>4. child[p] \in Unreaped => q = p
    BY <2>1 DEF PidSound, Unreaped
  <2>5. child'[p] # "runs"
    BY <2>1, <2>3, <2>4 DEF Unreaped
  <2>6. ~stolen => q = p
    BY <2>2, <2>4 DEF PidSound
  <2> QED BY <2>2, <2>3, <2>5, <2>6 DEF PidSound, Unreaped
<1>5. ASSUME NEW p \in Procs, TimesOut(p) PROVE PidSound'
  <2>1. UNCHANGED <<strangers, stolen>> /\ (hit' => stolen)
    BY <1>5, KillHits DEF TimesOut
  <2>2. /\ UNCHANGED <<child, pid>> /\ pc[p] = "ending" /\ pc'[p] = "closing"
        /\ doomed' = doomed \cup Targets(p)
        /\ \A q \in Procs \ {p} : pc'[q] = pc[q]
    BY <1>5 DEF TimesOut, TypeOK
  <2>3. child'[p] = "runs" => p \in doomed'
    BY <2>2 DEF Targets
  <2> QED BY <2>1, <2>2, <2>3 DEF PidSound
<1>6. ASSUME NEW p \in Procs, Exits(p) PROVE PidSound'
  <2>1. UNCHANGED <<pc, pid, strangers, stolen, hit>> /\ doomed' = doomed \ {p}
    BY <1>6 DEF Exits
  <2>2. \A q \in Procs : /\ child'[q] \in Unreaped <=> child[q] \in Unreaped
                         /\ child'[q] = "runs" => child[q] = "runs" /\ q # p
    BY <1>6 DEF Exits, Unreaped, TypeOK
  <2> QED BY <2>1, <2>2 DEF PidSound
<1>8. ASSUME NEW p \in Procs, OthersWait(p) PROVE PidSound'
  <2>1. /\ UNCHANGED <<pc, pid, strangers, doomed, hit>> /\ stolen'
        /\ \A q \in Procs : /\ child'[q] \in Unreaped => child[q] \in Unreaped
                            /\ child'[q] = "runs" => child[q] = "runs"
    BY <1>8 DEF OthersWait, Unreaped, TypeOK
  <2> QED BY <2>1 DEF PidSound
<1>9. ASSUME NEW p \in Procs, StrangerStarts(p) PROVE PidSound'
  <2>1. \A q \in Procs : child[q] \in Unreaped => pid[q] # pid[p]
    BY <1>9 DEF StrangerStarts, FreePids, Unreaped
  <2> QED BY <1>9, <2>1 DEF StrangerStarts, PidSound
<1>10. CASE UNCHANGED vars
  BY <1>10 DEF vars, PidSound
<1> QED BY <1>1, <1>2, <1>3, <1>4, <1>5, <1>6, <1>8, <1>9, <1>10 DEF Next

LEMMA AlwaysPid == Spec => [](TypeOK /\ PidSound)
<1>1. Init => TypeOK /\ PidSound
  BY TypeInit, PidInit
<1>2. TypeOK /\ PidSound /\ [Next]_vars => (TypeOK /\ PidSound)'
  BY TypeNext, PidNext
<1> QED BY <1>1, <1>2, PTL DEF Spec

\* As long as nobody else waits for its children, the launcher's signals reach them
\* only, and only from their own destructors (process.cpp:10-23).
THEOREM SignalsStayHome == Spec => []SignalsOwnChild
<1>1. PidSound => SignalsOwnChild
  BY DEF PidSound, SignalsOwnChild
<1> QED BY <1>1, AlwaysPid, PTL

\* A child that still runs when the work of ~Process is done has a SIGKILL on its way,
\* whoever waits for it and whoever else has its id (process.cpp:10-23).
THEOREM ChildrenEnd == Spec => []DestroyedIsKilled
<1>1. PidSound => DestroyedIsKilled
  BY DEF PidSound, DestroyedIsKilled
<1> QED BY <1>1, AlwaysPid, PTL
=============================================================================
