--------------------------- MODULE EnvVarsProofs ---------------------------
(***************************************************************************)
(* What the loops of EnvVars compute, for lists and environments of any    *)
(* length: the map that the constructor builds, what a series of edits     *)
(* leaves in it, and what getenv finds in the list it is turned into.      *)
(* Claims about a loop are proved from the first i at which one would fail.*)
(***************************************************************************)
EXTENDS EnvVars, Integers, SequenceTheorems, FiniteSetTheorems, WellFoundedInduction, TLAPS

LEMMA LeastNumber ==
  ASSUME NEW S \in SUBSET Nat, S # {}
  PROVE  \E n \in S : \A k \in S : n <= k
<1>1. PICK n \in S : \A k \in S : <<k, n>> \notin OpToRel(<, Nat)
  BY NatLessThanWellFounded, WFMin, Zenon
<1>2. \A k \in S : ~(k < n)
  BY <1>1 DEF OpToRel
<1> QED BY <1>2

LEMMA GreatestNumber ==
  ASSUME NEW n \in Nat, NEW S \in SUBSET (1..n), S # {}
  PROVE  \E m \in S : \A k \in S : k <= m
<1> DEFINE Left == {n - k : k \in S}
<1>0. S \subseteq Int /\ \A k \in S : n - k \in Nat
  OBVIOUS
<1>1. Left \in SUBSET Nat /\ Left # {}
  BY <1>0
<1>2. PICK d \in Left : \A k \in Left : d <= k
  <2> HIDE DEF Left
  <2> QED BY <1>1, LeastNumber
<1>3. PICK m \in S : d = n - m
  OBVIOUS
<1>4. ASSUME NEW k \in S PROVE k <= m
  <2>1. d <= n - k
    BY <1>2
  <2> QED BY <1>0, <1>3, <2>1
<1> QED BY <1>4

LEMMA NamesFinite ==
  ASSUME NEW list, NEW n \in Nat
  PROVE  IsFiniteSet({list[j].name : j \in 1..n})
<1> DEFINE name == [j \in 1..n |-> list[j].name]
<1>1. name \in Surjection(1..n, {list[j].name : j \in 1..n})
  BY DEF Surjection
<1>2. IsFiniteSet(1..n)
  BY FS_Interval
<1> QED BY <1>1, <1>2, FS_Surjection

-----------------------------------------------------------------------------
(* The constructor.                                                         *)

\* What the constructor's map is after each of its rounds.
EnvRounds(list, n, f) ==
  f = [i \in 0..n |-> IF i = 0 THEN <<>> ELSE Insert(f[i - 1], list[i])]

LEMMA EnvRoundsExist ==
  ASSUME NEW list, NEW m \in Nat
  PROVE  \E f : EnvRounds(list, m, f)
<1> DEFINE Bad == {n \in Nat : ~ \E f : EnvRounds(list, n, f)}
<1> SUFFICES ASSUME Bad # {} PROVE FALSE
  OBVIOUS
<1>1. PICK n \in Bad : \A k \in Bad : n <= k
  BY LeastNumber
<1>2. n # 0
  <2>1. EnvRounds(list, 0, [i \in 0..0 |-> <<>>])
    BY DEF EnvRounds
  <2> QED BY <2>1
<1>3. PICK f : EnvRounds(list, n - 1, f)
  BY <1>1, <1>2
<1> DEFINE g == [i \in 0..n |-> IF i = n THEN Insert(f[n - 1], list[n]) ELSE f[i]]
<1>4. EnvRounds(list, n, g)
  <2>1. \A i \in 0..(n - 1) : f[i] = IF i = 0 THEN <<>> ELSE Insert(f[i - 1], list[i])
    BY <1>3 DEF EnvRounds
  <2>2. \A i \in 0..n : g[i] = IF i = 0 THEN <<>> ELSE Insert(g[i - 1], list[i])
    BY <1>2, <2>1
  <2> QED BY <2>2 DEF EnvRounds
<1> QED BY <1>4

\* The map has the names of the list, and with each one its first value.
FirstValues(list, i, m) ==
  /\ DOMAIN m = {list[j].name : j \in 1..i}
  /\ \A j \in 1..i : (\A k \in 1..(j - 1) : list[k].name # list[j].name) =>
       m[list[j].name] = list[j].val

LEMMA InsertKeepsFirst ==
  ASSUME NEW list, NEW i \in Nat \ {0}, NEW m, FirstValues(list, i - 1, m)
  PROVE  FirstValues(list, i, Insert(m, list[i]))
<1> DEFINE a == list[i]
<1>1. CASE a.name \in DOMAIN m
  <2>1. PICK j \in 1..(i - 1) : list[j].name = a.name
    BY <1>1 DEF FirstValues
  <2> QED BY <1>1, <2>1 DEF FirstValues, Insert
<1>2. CASE a.name \notin DOMAIN m
  <2>1. \A k \in 1..(i - 1) : list[k].name # a.name
    BY <1>2 DEF FirstValues
  <2> QED BY <1>2, <2>1 DEF FirstValues, Insert, SetVar
<1> QED BY <1>1, <1>2

LEMMA FromEnvKeepsFirst ==
  ASSUME NEW list, Len(list) \in Nat
  PROVE  FirstValues(list, Len(list), FromEnv(list)) /\ IsFiniteSet(DOMAIN FromEnv(list))
<1>1. PICK f : EnvRounds(list, Len(list), f) /\ FromEnv(list) = f[Len(list)]
  BY EnvRoundsExist DEF FromEnv, EnvRounds
<1>2. /\ f[0] = <<>>
      /\ \A i \in 1..Len(list) : f[i] = Insert(f[i - 1], list[i])
  BY <1>1 DEF EnvRounds
<1>3. \A i \in 0..Len(list) : FirstValues(list, i, f[i])
  <2> DEFINE Bad == {i \in 0..Len(list) : ~FirstValues(list, i, f[i])}
  <2> SUFFICES ASSUME Bad # {} PROVE FALSE
    OBVIOUS
  <2>1. PICK i \in Bad : \A k \in Bad : i <= k
    <3>1. Bad \in SUBSET Nat
      OBVIOUS
    <3> HIDE DEF Bad
    <3> QED BY <3>1, LeastNumber
  <2>2. i # 0
    BY <1>2 DEF FirstValues
  <2>3. FirstValues(list, i - 1, f[i - 1])
    BY <2>1, <2>2
  <2> QED BY <1>2, <2>2, <2>3, InsertKeepsFirst
<1>4. IsFiniteSet({list[j].name : j \in 1..Len(list)})
  BY NamesFinite
<1>5. FirstValues(list, Len(list), FromEnv(list))
  BY <1>1, <1>3
<1> QED BY <1>4, <1>5 DEF FirstValues

-----------------------------------------------------------------------------
(* getenv.                                                                  *)

LEMMA FirstAssignment ==
  ASSUME NEW list, Len(list) \in Nat, DOMAIN list = 1..Len(list), NEW j \in DOMAIN list
  PROVE  \E i \in DOMAIN list :
           list[i].name = list[j].name /\ \A k \in DOMAIN list : k < i => list[k].name # list[j].name
<1> DEFINE Same == {i \in DOMAIN list : list[i].name = list[j].name}
<1>1. Same \in SUBSET Nat /\ Same # {}
  OBVIOUS
<1>2. PICK i \in Same : \A k \in Same : i <= k
  <2> HIDE DEF Same
  <2> QED BY <1>1, LeastNumber
<1> QED BY <1>2

\* What getenv finds in a list is what the constructor has put into the map
\* (env_vars.cpp:24-31): the first assignment counts for both.
THEOREM ConstructorKeepsValues ==
  ASSUME NEW list, Len(list) \in Nat, DOMAIN list = 1..Len(list), NEW n
  PROVE  LET m == FromEnv(list)
         IN Getenv(list, n) = IF n \in DOMAIN m THEN {m[n]} ELSE {}
<1> DEFINE m == FromEnv(list)
<1>1. FirstValues(list, Len(list), m)
  BY FromEnvKeepsFirst
<1> HIDE DEF m
<1> DEFINE First == {j \in DOMAIN list :
             list[j].name = n /\ \A k \in DOMAIN list : k < j => list[k].name # n}
<1>2. Getenv(list, n) = {list[i].val : i \in First}
  BY DEF Getenv
<1>3. CASE n \notin DOMAIN m
  <2>1. First = {}
    BY <1>1, <1>3 DEF FirstValues
  <2> QED BY <1>2, <1>3, <2>1 DEF m
<1>4. CASE n \in DOMAIN m
  <2>1. PICK j \in DOMAIN list : list[j].name = n
    BY <1>1, <1>4 DEF FirstValues
  <2>2. First # {}
    <3>1. PICK i \in DOMAIN list : /\ list[i].name = list[j].name
                                   /\ \A k \in DOMAIN list : k < i => list[k].name # list[j].name
      BY FirstAssignment
    <3> QED BY <2>1, <3>1
  <2>3. \A i \in First : m[n] = list[i].val
    BY <1>1 DEF FirstValues
  <2> HIDE DEF First
  <2>4. {list[i].val : i \in First} = {m[n]}
    BY <2>2, <2>3
  <2> QED BY <1>2, <1>4, <2>4 DEF m
<1> QED BY <1>3, <1>4

\* A finite set has a sequence with each of its elements once.
LEMMA SetToSeqEnumerates ==
  ASSUME NEW S, IsFiniteSet(S)
  PROVE  LET s == SetToSeq(S)
         IN /\ DOMAIN s = 1..Cardinality(S) /\ Cardinality(S) \in Nat
            /\ \A i \in DOMAIN s : s[i] \in S
            /\ \A i, j \in DOMAIN s : s[i] = s[j] => i = j
            /\ \A x \in S : \E i \in DOMAIN s : s[i] = x
<1> DEFINE s == SetToSeq(S)
<1>1. Cardinality(S) \in Nat /\ ExistsBijection(1..Cardinality(S), S)
  BY FS_CardinalityType
<1>2. \E f \in [1..Cardinality(S) -> S] : IsInjective(f)
  BY <1>1 DEF ExistsBijection, Bijection, Injection
<1>3. s \in [1..Cardinality(S) -> S] /\ IsInjective(s)
  BY <1>2 DEF SetToSeq
<1>4. s \in Surjection(1..Cardinality(S), S)
  <2>1. s \in Injection(1..Cardinality(S), S)
    BY <1>3 DEF Injection
  <2>2. Cardinality(1..Cardinality(S)) = Cardinality(S)
    BY <1>1, FS_Interval
  <2> QED BY <2>1, <2>2, FS_Injection
<1> QED BY <1>1, <1>3, <1>4 DEF Surjection, IsInjective

\* vars() loses nothing and names nothing twice (env_vars.cpp:43-54): getenv finds
\* in its list what the map holds.
THEOREM VarsKeepsValues ==
  ASSUME NEW m, IsFiniteSet(DOMAIN m), NEW n
  PROVE  Getenv(Vars(m), n) = IF n \in DOMAIN m THEN {m[n]} ELSE {}
<1> DEFINE names == SetToSeq(DOMAIN m)
<1> DEFINE list == [i \in DOMAIN names |-> [name |-> names[i], val |-> m[names[i]]]]
<1>1. /\ DOMAIN names = 1..Cardinality(DOMAIN m) /\ Cardinality(DOMAIN m) \in Nat
      /\ \A i \in DOMAIN names : names[i] \in DOMAIN m
      /\ \A i, j \in DOMAIN names : names[i] = names[j] => i = j
      /\ \A x \in DOMAIN m : \E i \in DOMAIN names : names[i] = x
  BY SetToSeqEnumerates
<1>2. Vars(m) = list
  BY DEF Vars
<1> HIDE DEF names
<1>3. DOMAIN list = DOMAIN names /\ \A i \in DOMAIN names : list[i].name = names[i] /\ list[i].val = m[names[i]]
  OBVIOUS
<1> HIDE DEF list
<1> DEFINE First == {j \in DOMAIN list :
             list[j].name = n /\ \A k \in DOMAIN list : k < j => list[k].name # n}
<1>4. Getenv(list, n) = {list[i].val : i \in First}
  BY DEF Getenv
<1>5. CASE n \notin DOMAIN m
  <2>1. First = {}
    BY <1>1, <1>3, <1>5
  <2> QED BY <1>2, <1>4, <1>5, <2>1
<1>6. CASE n \in DOMAIN m
  <2>1. PICK i \in DOMAIN names : names[i] = n
    BY <1>1, <1>6
  <2>2. First = {i}
    BY <1>1, <1>3, <2>1
  <2> HIDE DEF First
  <2>3. {list[j].val : j \in First} = {m[n]}
    BY <1>3, <2>1, <2>2
  <2> QED BY <1>2, <1>4, <1>6, <2>3
<1> QED BY <1>5, <1>6

-----------------------------------------------------------------------------
(* Beginnings and ends of values.                                           *)

LEMMA PrefixElements ==
  ASSUME NEW T, NEW s \in Seq(T), NEW t \in Seq(T)
  PROVE  IsPrefix(s, t) <=> Len(s) <= Len(t) /\ \A i \in 1..Len(s) : s[i] = t[i]
<1>1. Len(s) \in Nat /\ Len(t) \in Nat
  BY LenProperties
<1>2. ASSUME Len(s) <= Len(t)
      PROVE  /\ SubSeq(s, 1, Len(s)) \in Seq(T) /\ Len(SubSeq(s, 1, Len(s))) = Len(s)
             /\ SubSeq(t, 1, Len(s)) \in Seq(T) /\ Len(SubSeq(t, 1, Len(s))) = Len(s)
             /\ \A i \in 1..Len(s) : SubSeq(s, 1, Len(s))[i] = s[i] /\ SubSeq(t, 1, Len(s))[i] = t[i]
  BY <1>1, <1>2, SubSeqProperties
<1>3. ASSUME Len(s) <= Len(t)
      PROVE  SubSeq(s, 1, Len(s)) = SubSeq(t, 1, Len(s)) <=> \A i \in 1..Len(s) : s[i] = t[i]
  BY <1>1, <1>2, <1>3, SeqEqual
<1> QED BY <1>3 DEF IsPrefix

LEMMA SuffixElements ==
  ASSUME NEW T, NEW s \in Seq(T), NEW t \in Seq(T)
  PROVE  IsSuffix(s, t) <=>
           Len(s) <= Len(t) /\ \A i \in 1..Len(s) : s[Len(s) - i + 1] = t[Len(t) - i + 1]
<1>1. Len(s) \in Nat /\ Len(t) \in Nat
  BY LenProperties
<1>2. ASSUME NEW u \in Seq(T)
      PROVE  /\ Reverse(u) \in Seq(T) /\ Len(Reverse(u)) = Len(u)
             /\ \A i \in 1..Len(u) : Reverse(u)[i] = u[Len(u) - i + 1]
  <2>1. Len(u) \in Nat /\ \A i \in 1..Len(u) : u[i] \in T
    BY LenProperties, ElementOfSeq
  <2>2. \A i \in 1..Len(u) : (Len(u) - i) + 1 \in 1..Len(u)
    BY <2>1
  <2>3. Reverse(u) \in [1..Len(u) -> T]
    BY <2>1, <2>2 DEF Reverse
  <2>4. Reverse(u) \in Seq(T)
    BY <2>1, <2>3, IsASeq
  <2>5. DOMAIN Reverse(u) = 1..Len(u) /\ DOMAIN Reverse(u) = 1..Len(Reverse(u)) /\ Len(Reverse(u)) \in Nat
    BY <2>3, <2>4, LenProperties
  <2> QED BY <2>1, <2>4, <2>5 DEF Reverse
<1>3. IsPrefix(Reverse(s), Reverse(t)) <=>
        Len(s) <= Len(t) /\ \A i \in 1..Len(s) : Reverse(s)[i] = Reverse(t)[i]
  BY <1>2, PrefixElements
<1>4. ASSUME Len(s) <= Len(t), NEW i \in 1..Len(s)
      PROVE  Reverse(s)[i] = s[Len(s) - i + 1] /\ Reverse(t)[i] = t[Len(t) - i + 1]
  <2>1. i \in 1..Len(t)
    BY <1>1, <1>4
  <2> QED BY <1>2, <2>1
<1> QED BY <1>3, <1>4 DEF IsSuffix

\* A value that is prepended is the beginning, and the old end stays.
LEMMA Prepending ==
  ASSUME NEW T, NEW u \in Seq(T), NEW v \in Seq(T)
  PROVE  /\ u \o v \in Seq(T) /\ Len(u \o v) = Len(u) + Len(v)
         /\ IsPrefix(u, u \o v)
         /\ \A w \in Seq(T) : IsSuffix(w, v) => IsSuffix(w, u \o v)
<1> DEFINE c == u \o v
<1>1. Len(u) \in Nat /\ Len(v) \in Nat
  BY LenProperties
<1>2. /\ c \in Seq(T) /\ Len(c) = Len(u) + Len(v)
      /\ \A i \in 1..(Len(u) + Len(v)) :
           c[i] = IF i <= Len(u) THEN u[i] ELSE v[i - Len(u)]
  BY ConcatProperties
<1> HIDE DEF c
<1>3. IsPrefix(u, c)
  BY <1>1, <1>2, PrefixElements
<1>4. ASSUME NEW w \in Seq(T), IsSuffix(w, v) PROVE IsSuffix(w, c)
  <2>1. Len(w) \in Nat /\ Len(w) <= Len(v)
        /\ \A i \in 1..Len(w) : w[Len(w) - i + 1] = v[Len(v) - i + 1]
    BY <1>4, SuffixElements, LenProperties
  <2>2. ASSUME NEW i \in 1..Len(w)
        PROVE  c[(Len(u) + Len(v)) - i + 1] = v[Len(v) - i + 1]
    <3>1. (Len(u) + Len(v)) - i + 1 \in 1..(Len(u) + Len(v)) /\ ~((Len(u) + Len(v)) - i + 1 <= Len(u))
          /\ ((Len(u) + Len(v)) - i + 1) - Len(u) = Len(v) - i + 1
      BY <1>1, <2>1
    <3> QED BY <1>2, <3>1
  <2>3. ASSUME NEW i \in 1..Len(w) PROVE w[Len(w) - i + 1] = c[Len(c) - i + 1]
    BY <1>2, <2>1, <2>2
  <2>4. c \in Seq(T) /\ Len(w) <= Len(c)
    BY <1>1, <1>2, <2>1
  <2> QED BY <2>3, <2>4, SuffixElements
<1> QED BY <1>2, <1>3, <1>4 DEF c

LEMMA OwnEnds ==
  ASSUME NEW T, NEW v \in Seq(T)
  PROVE  IsPrefix(v, v) /\ IsSuffix(v, v)
BY LenProperties, PrefixElements, SuffixElements

-----------------------------------------------------------------------------
(* set_var and prepend_var.                                                 *)

\* What the map is after each of the calls.
EditRounds(m, calls, n, f) ==
  f = [i \in 0..n |-> IF i = 0 THEN m ELSE Call(f[i - 1], calls[i])]

LEMMA EditRoundsExist ==
  ASSUME NEW m, NEW calls, NEW len \in Nat
  PROVE  \E f : EditRounds(m, calls, len, f)
<1> DEFINE Bad == {n \in Nat : ~ \E f : EditRounds(m, calls, n, f)}
<1> SUFFICES ASSUME Bad # {} PROVE FALSE
  OBVIOUS
<1>1. PICK n \in Bad : \A k \in Bad : n <= k
  BY LeastNumber
<1>2. n # 0
  <2>1. EditRounds(m, calls, 0, [i \in 0..0 |-> m])
    BY DEF EditRounds
  <2> QED BY <2>1
<1>3. PICK f : EditRounds(m, calls, n - 1, f)
  BY <1>1, <1>2
<1> DEFINE g == [i \in 0..n |-> IF i = n THEN Call(f[n - 1], calls[n]) ELSE f[i]]
<1>4. EditRounds(m, calls, n, g)
  <2>1. \A i \in 0..(n - 1) : f[i] = IF i = 0 THEN m ELSE Call(f[i - 1], calls[i])
    BY <1>3 DEF EditRounds
  <2>2. \A i \in 0..n : g[i] = IF i = 0 THEN m ELSE Call(g[i - 1], calls[i])
    BY <1>2, <2>1
  <2> QED BY <2>2 DEF EditRounds
<1> QED BY <1>4

\* What the first i calls leave of the map m: names they are not about keep their
\* values, a name keeps the old end of its value while it is prepended to, and
\* begins with what the last call about it says.
Leaves(T, m, calls, i, e) ==
  /\ DOMAIN e = DOMAIN m \cup {calls[j].name : j \in 1..i}
  /\ \A n \in DOMAIN e : e[n] \in Seq(T)
  /\ \A n \in DOMAIN m : (\A j \in 1..i : calls[j].name # n) => e[n] = m[n]
  /\ \A n \in DOMAIN m : (\A j \in 1..i : calls[j].name = n => calls[j].do = "prepend") =>
       IsSuffix(m[n], e[n]) /\ Len(e[n]) >= Len(m[n])
  /\ \A j \in 1..i : (\A k \in 1..i : calls[k].name = calls[j].name => k <= j) =>
       LET n == calls[j].name
       IN /\ IsPrefix(calls[j].val, e[n])
          /\ calls[j].do = "set" => e[n] = calls[j].val
          /\ (\A k \in 1..i : calls[k].name = n => calls[k].do = "prepend") /\ n \in DOMAIN m =>
               Len(e[n]) >= Len(m[n]) + Len(calls[j].val)

LEMMA CallLeaves ==
  ASSUME NEW T, NEW m, \A n \in DOMAIN m : m[n] \in Seq(T),
         NEW calls, NEW i \in Nat \ {0}, NEW e, Leaves(T, m, calls, i - 1, e),
         calls[i].do \in {"set", "prepend"}, calls[i].val \in Seq(T)
  PROVE  Leaves(T, m, calls, i, Call(e, calls[i]))
<1> DEFINE n == calls[i].name
           val == calls[i].val
           old == IF n \in DOMAIN e THEN e[n] ELSE <<>>
           new == Call(e, calls[i])
<1>1. old \in Seq(T) /\ Len(old) \in Nat /\ Len(val) \in Nat
  BY EmptySeq, LenProperties DEF Leaves
<1>2. /\ DOMAIN new = DOMAIN e \cup {n}
      /\ \A k \in DOMAIN e \ {n} : new[k] = e[k]
      /\ new[n] = IF calls[i].do = "set" THEN val ELSE val \o old
  BY DEF Call, SetVar, PrependVar
<1>3. /\ new[n] \in Seq(T) /\ IsPrefix(val, new[n])
      /\ calls[i].do = "set" => new[n] = val
      /\ calls[i].do = "prepend" =>
           /\ Len(new[n]) = Len(val) + Len(old)
           /\ \A w \in Seq(T) : IsSuffix(w, old) => IsSuffix(w, new[n])
  <2> HIDE DEF val, old, new, n
  <2>1. CASE calls[i].do = "set"
    <3>1. new[n] = val /\ val \in Seq(T)
      BY <1>2, <2>1 DEF val
    <3> QED BY <2>1, <3>1, OwnEnds
  <2>2. CASE calls[i].do = "prepend"
    <3>1. new[n] = val \o old /\ val \in Seq(T)
      BY <1>2, <2>2 DEF val
    <3> QED BY <1>1, <2>2, <3>1, Prepending
  <2> QED BY <2>1, <2>2
<1>4. 1..i = 1..(i - 1) \cup {i}
  OBVIOUS
<1> HIDE DEF new
<1>5. DOMAIN new = DOMAIN m \cup {calls[j].name : j \in 1..i}
  BY <1>2, <1>4 DEF Leaves
<1>6. \A k \in DOMAIN new : new[k] \in Seq(T)
  BY <1>2, <1>3 DEF Leaves
<1>7. ASSUME NEW k \in DOMAIN m, \A j \in 1..i : calls[j].name # k
      PROVE  new[k] = m[k]
  BY <1>2, <1>4, <1>7 DEF Leaves
<1>8. ASSUME NEW k \in DOMAIN m, \A j \in 1..i : calls[j].name = k => calls[j].do = "prepend"
      PROVE  /\ IsSuffix(m[k], new[k]) /\ Len(new[k]) >= Len(m[k])
             /\ k = n => Len(new[k]) >= Len(m[k]) + Len(val)
  <2>1. k \in DOMAIN e /\ IsSuffix(m[k], e[k]) /\ Len(e[k]) >= Len(m[k]) /\ Len(m[k]) \in Nat
    BY <1>4, <1>8, LenProperties DEF Leaves
  <2>2. CASE k # n
    BY <1>2, <2>1, <2>2
  <2>3. CASE k = n
    <3>1. calls[i].do = "prepend" /\ old = e[n]
      BY <1>4, <1>8, <2>1, <2>3
    <3>2. IsSuffix(m[k], new[k])
      BY <1>3, <2>1, <2>3, <3>1
    <3>3. Len(new[k]) = Len(val) + Len(old) /\ Len(old) >= Len(m[k])
      BY <1>3, <2>1, <2>3, <3>1
    <3> HIDE DEF n, val, old
    <3> QED BY <1>1, <2>1, <2>3, <3>2, <3>3
  <2> QED BY <2>2, <2>3
<1>9. ASSUME NEW j \in 1..i, \A k \in 1..i : calls[k].name = calls[j].name => k <= j
      PROVE  LET q == calls[j].name
             IN /\ IsPrefix(calls[j].val, new[q])
                /\ calls[j].do = "set" => new[q] = calls[j].val
                /\ (\A k \in 1..i : calls[k].name = q => calls[k].do = "prepend") /\ q \in DOMAIN m =>
                     Len(new[q]) >= Len(m[q]) + Len(calls[j].val)
  <2>1. CASE j = i
    BY <1>3, <1>8, <2>1
  <2>2. CASE j # i
    <3>1. j \in 1..(i - 1) /\ calls[j].name # n /\ calls[j].name \in DOMAIN e
      BY <1>4, <1>9, <2>2 DEF Leaves
    <3>2. new[calls[j].name] = e[calls[j].name]
      BY <1>2, <3>1
    <3> QED BY <1>4, <1>9, <3>1, <3>2 DEF Leaves
  <2> QED BY <2>1, <2>2
<1> HIDE DEF n, val, old
<1>10. Leaves(T, m, calls, i, new)
  BY <1>5, <1>6, <1>7, <1>8, <1>9 DEF Leaves
<1> QED BY <1>10 DEF new

LEMMA NothingDone ==
  ASSUME NEW T, NEW m, \A n \in DOMAIN m : m[n] \in Seq(T), NEW calls
  PROVE  Leaves(T, m, calls, 0, m)
<1>1. \A n \in DOMAIN m : IsSuffix(m[n], m[n]) /\ Len(m[n]) >= Len(m[n])
  <2>1. \A n \in DOMAIN m : Len(m[n]) \in Nat
    BY LenProperties
  <2> QED BY <2>1, OwnEnds
<1>2. \A j \in 1..0 : FALSE
  OBVIOUS
<1>3. DOMAIN m = DOMAIN m \cup {calls[j].name : j \in 1..0}
  BY <1>2
<1> QED BY <1>1, <1>2, <1>3 DEF Leaves

LEMMA EditsLeave ==
  ASSUME NEW T, NEW m, \A n \in DOMAIN m : m[n] \in Seq(T), NEW calls, Len(calls) \in Nat,
         \A i \in 1..Len(calls) : calls[i].do \in {"set", "prepend"} /\ calls[i].val \in Seq(T)
  PROVE  Leaves(T, m, calls, Len(calls), Edited(m, calls))
<1> DEFINE len == Len(calls)
           f == CHOOSE map : EditRounds(m, calls, len, map)
<1>1. EditRounds(m, calls, len, f)
  BY EditRoundsExist, Zenon
<1>2. Edited(m, calls) = f[len]
  BY Zenon DEF Edited, EditRounds
<1> HIDE DEF f, len
<1>3. len \in Nat /\ \A i \in 1..len : calls[i].do \in {"set", "prepend"} /\ calls[i].val \in Seq(T)
  BY DEF len
<1>4. /\ f[0] = m
      /\ \A i \in 1..len : f[i] = Call(f[i - 1], calls[i])
  BY <1>1, <1>3 DEF EditRounds
<1>5. \A i \in 0..len : Leaves(T, m, calls, i, f[i])
  <2> DEFINE Bad == {i \in 0..len : ~Leaves(T, m, calls, i, f[i])}
  <2> SUFFICES ASSUME Bad # {} PROVE FALSE
    OBVIOUS
  <2>1. PICK i \in Bad : \A k \in Bad : i <= k
    <3>1. Bad \in SUBSET Nat
      BY <1>3
    <3> HIDE DEF Bad
    <3> QED BY <3>1, LeastNumber
  <2>2. i # 0
    BY <1>4, NothingDone
  <2>3. i \in 1..len /\ i \in Nat \ {0}
    BY <1>3, <2>2
  <2>4. Leaves(T, m, calls, i - 1, f[i - 1])
    BY <1>3, <2>1, <2>3
  <2>5. Leaves(T, m, calls, i, Call(f[i - 1], calls[i]))
    BY <1>3, <2>3, <2>4, CallLeaves
  <2> QED BY <1>4, <2>3, <2>5
<1> QED BY <1>2, <1>3, <1>5 DEF len

\* set_var and prepend_var, in any number and order (env_vars.cpp:33-39): the last
\* call about a name says how its value begins, or what it is, and calls that only
\* prepend keep what there was at its end.
THEOREM EditsAsAsked ==
  ASSUME NEW T, NEW m, \A n \in DOMAIN m : m[n] \in Seq(T),
         NEW N, NEW calls \in Seq([do : {"set", "prepend"}, name : N, val : Seq(T)])
  PROVE  /\ Leaves(T, m, calls, Len(calls), Edited(m, calls))
         /\ IsFiniteSet(DOMAIN m) => IsFiniteSet(DOMAIN Edited(m, calls))
<1>1. Len(calls) \in Nat
  BY LenProperties
<1>2. \A i \in 1..Len(calls) : calls[i] \in [do : {"set", "prepend"}, name : N, val : Seq(T)]
  BY ElementOfSeq
<1>3. \A i \in 1..Len(calls) : calls[i].do \in {"set", "prepend"} /\ calls[i].val \in Seq(T)
  BY <1>2
<1>4. Leaves(T, m, calls, Len(calls), Edited(m, calls))
  BY <1>1, <1>3, EditsLeave
<1>5. DOMAIN Edited(m, calls) = DOMAIN m \cup {calls[j].name : j \in 1..Len(calls)}
  BY <1>4 DEF Leaves
<1>6. IsFiniteSet({calls[j].name : j \in 1..Len(calls)})
  BY <1>1, NamesFinite
<1> QED BY <1>4, <1>5, <1>6, FS_Union
=============================================================================
