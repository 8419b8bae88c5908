---------------------------- MODULE MCCoroutine ----------------------------
(* Three coroutines, and stacks enough to use one of them several times. *)
EXTENDS Coroutine
=============================================================================
