----------------------------- MODULE MCMainSub -----------------------------
(* Both programs, with and without -mainread, and processes in a system     *)
(* that is out of descriptors: with one sub reactor, whose unix socket is   *)
(* full with one connection; with two, which get one connection each; and   *)
(* with two main reactors, which get one connection each.                   *)
EXTENDS MainSub, TLC

CONSTANTS m1, m2, c1, c2

Deploy(o, sub, m) == [options |-> o, sub |-> sub, home |-> c1 :> m1 @@ c2 :> m]

MCDeployments ==
  {Deploy(o, 1, m1) : o \in {{"mainread"}, {"toomany"}, {"toomany", "mainread"}}}
    \cup {Deploy(o, 2, m1) : o \in {{"threads"}, {"mainread"}}}
    \cup {Deploy(o, 1, m2) : o \in {{"threads", "mainread"}, {}}}
=============================================================================
