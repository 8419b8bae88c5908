------------------------------- MODULE MCHSHA -------------------------------
(* Two threads of each kind and two connections, with and without -direct. *)
EXTENDS HSHA

MCOptions == SUBSET {"direct"}
=============================================================================
