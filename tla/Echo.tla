-------------------------------- MODULE Echo --------------------------------
(***************************************************************************)
(* What every server of the repository promises one client: the replies    *)
(* are the requests, unchanged, in the order they were asked, each of them *)
(* sent once, until one of the two ends gives the connection up.           *)
(***************************************************************************)
EXTENDS Naturals, Sequences

VARIABLES
  asked,      \* the requests the client has sent, in order
  answered,   \* the replies it can read, in order
  open        \* FALSE once the server has released the connection

vars == <<asked, answered, open>>

Init == asked = <<>> /\ answered = <<>> /\ open = TRUE

\* One more request follows the ones already asked.
Ask ==
  /\ Len(asked') = Len(asked) + 1
  /\ \A i \in DOMAIN asked : asked'[i] = asked[i]
  /\ UNCHANGED <<answered, open>>

\* The oldest request without a reply is echoed.
Answer ==
  /\ open
  /\ Len(answered) < Len(asked)
  /\ answered' = Append(answered, asked[Len(answered) + 1])
  /\ UNCHANGED <<asked, open>>

Close ==
  /\ open
  /\ open' = FALSE
  /\ UNCHANGED <<asked, answered>>

Next == Ask \/ Answer \/ Close

Spec == Init /\ [][Next]_vars
=============================================================================
