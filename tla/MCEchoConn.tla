----------------------------- MODULE MCEchoConn -----------------------------
(***************************************************************************)
(* Instances of EchoConn for TLC.                                          *)
(*                                                                         *)
(* A head of 2 bytes and 8 values of uint32_t are enough for a head cut in *)
(* two, an empty body, a body longer than the buffer of the last request,  *)
(* and a length that makes 4 + body_len_ wrap.                             *)
(***************************************************************************)
EXTENDS EchoConn

MCBodyLens == {0, 1, 3, 6}

\* All usages but the one that can go wrong, and that one.
MCUsages == {{}, {"reuse"}, {"pipelined"}}
MCReusedPipelined == {{"reuse", "pipelined"}}
=============================================================================
