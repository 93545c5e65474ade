------------------------------ MODULE EnvVars ------------------------------
(***************************************************************************)
(* EnvVars (src/process/env_vars.h, env_vars.cpp): an environment, a list  *)
(* of assignments in which the first one of a name counts, as a map that   *)
(* is edited and turned back into a list.  A value is a sequence, because  *)
(* prepend_var concatenates.                                               *)
(***************************************************************************)
EXTENDS SequencesExt

\* getenv: the value of a name, as a set that is empty when there is none.
Getenv(list, n) ==
  {list[i].val : i \in {j \in DOMAIN list :
     list[j].name = n /\ \A k \in DOMAIN list : k < j => list[k].name # n}}

\* vars_[var] = val
SetVar(m, n, v) == [k \in DOMAIN m \cup {n} |-> IF k = n THEN v ELSE m[k]]

\* vars_[var] = val + vars_[var]: operator[] makes a missing value empty.
PrependVar(m, n, v) == SetVar(m, n, v \o (IF n \in DOMAIN m THEN m[n] ELSE <<>>))

\* Mutant of Insert: vars_[var] = val, the last assignment counts.
InsertLast(m, a) == SetVar(m, a.name, a.val)

\* vars_.insert leaves a name alone that is in the map already.
Insert(m, a) == IF a.name \in DOMAIN m THEN m ELSE SetVar(m, a.name, a.val)

\* The constructor, after the first i assignments.
FromEnv(list) ==
  LET map[i \in 0..Len(list)] == IF i = 0 THEN <<>> ELSE Insert(map[i - 1], list[i])
  IN map[Len(list)]

\* vars(): one assignment for each name.
Vars(m) ==
  LET names == SetToSeq(DOMAIN m)
  IN [i \in DOMAIN names |-> [name |-> names[i], val |-> m[names[i]]]]

\* set_var and prepend_var, one call after the other.
Call(m, c) == IF c.do = "set" THEN SetVar(m, c.name, c.val) ELSE PrependVar(m, c.name, c.val)
Edited(m, calls) ==
  LET map[i \in 0..Len(calls)] == IF i = 0 THEN m ELSE Call(map[i - 1], calls[i])
  IN map[Len(calls)]
=============================================================================
