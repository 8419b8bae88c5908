------------------------------ MODULE Handoff ------------------------------
(***************************************************************************)
(* What the servers with main and sub reactors promise about a connection: *)
(* a main reactor accepts it, one sub reactor gets it and keeps it to the  *)
(* end, and nothing the client has sent is lost on the way.  Only a main   *)
(* reactor that cannot hand a connection over closes it.                   *)
(***************************************************************************)
EXTENDS Naturals

CONSTANTS
  Conns, Mains, Subs,
  None, Gone   \* no owner yet, no owner any more

VARIABLES
  reliable, \* whether a hand-over always succeeds; it does not change
  owner,    \* owner[c]: None, a main reactor, a sub reactor, Gone
  waiting   \* waiting[c]: how much the client has sent that nobody has read

Init ==
  /\ reliable \in BOOLEAN
  /\ owner = [c \in Conns |-> None]
  /\ waiting = [c \in Conns |-> 0]

Move(c, from, to) ==
  /\ owner[c] \in from
  /\ \E o \in to : owner' = [owner EXCEPT ![c] = o]
  /\ UNCHANGED <<reliable, waiting>>

Accept(c)  == Move(c, {None}, Mains \cup Subs)
Migrate(c) == Move(c, Mains, Subs)
Close(c)   == Move(c, Subs, {Gone})
GiveUp(c)  == ~reliable /\ Move(c, Mains, {Gone})

Arrive(c) ==
  /\ owner[c] # Gone
  /\ waiting' = [waiting EXCEPT ![c] = @ + 1]
  /\ UNCHANGED <<reliable, owner>>

\* Only the sub reactor that has the connection reads.
Take(c) ==
  /\ owner[c] \in Subs
  /\ \E n \in 0 .. waiting[c] : waiting' = [waiting EXCEPT ![c] = n]
  /\ UNCHANGED <<reliable, owner>>

Next == \E c \in Conns :
  Accept(c) \/ Migrate(c) \/ Close(c) \/ GiveUp(c) \/ Arrive(c) \/ Take(c)

vars == <<reliable, owner, waiting>>

Spec == Init /\ [][Next]_vars
=============================================================================
