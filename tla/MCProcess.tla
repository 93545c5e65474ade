----------------------------- MODULE MCProcess -----------------------------
(* Instances of Process for TLC: a launcher without stdin, with a descriptor *)
(* of its own between the free ones and an environment that names x twice.   *)
EXTENDS Process

CONSTANTS p1, p2, x, y

TheEnviron == <<[name |-> x, val |-> <<"a">>], [name |-> x, val |-> <<"b">>]>>

Request(out, err, env, calls) == [out |-> out, err |-> err, env |-> env, calls |-> calls]
Does(do, n, v) == [do |-> do, name |-> n, val |-> <<v>>]

\* The environments of weston_backend.cpp:37-39 and of reaper.cpp:36, and others.
Edits == {<<Does("set", x, "c"), Does("set", y, "c")>>, <<Does("prepend", x, "c"), Does("prepend", x, "d")>>,
          <<Does("prepend", y, "c"), Does("set", y, "d")>>}

\* One launch asks for every pair of streams, the other for those that take most
\* descriptors and leave some behind.
AllStreams == {Request(out, err, "null", <<>>) : out \in Kinds, err \in Kinds}
Environments == {Request("none", "none", "copy", c) : c \in Edits}
                \cup {Request("none", "none", "empty", <<Does("prepend", x, "c")>>)}
TheRequests == [p \in Procs |->
  IF p = p1 THEN AllStreams \cup Environments
  ELSE {Request("pipe", "pipe", "null", <<>>), Request("file", "none", "null", <<>>)}]
=============================================================================
