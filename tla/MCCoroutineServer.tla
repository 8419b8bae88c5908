------------------------- MODULE MCCoroutineServer -------------------------
(* Two coroutines.  Of two connections, the second may come after the first *)
(* has gone and get its coroutine; with three a coroutine may be lacking.   *)
EXTENDS CoroutineServer

MCLoads == {[connections |-> 2, requests |-> 2], [connections |-> 3, requests |-> 1]}
=============================================================================
