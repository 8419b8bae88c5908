----------------------------- MODULE MCReactor -----------------------------
(* Two connections: one can be slow, or close, while the other goes on.     *)
(* The edge triggered program has no options but what is built in;          *)
(* EpollReactorThreadPool is {"multiio", "la"}.                             *)
EXTENDS Reactor

MCOptions ==
  {{"et", "multiio", "la"}, {"multiio", "la"}, {"multiio", "la", "writefirst"},
   {}, {"writefirst"}, {"poll", "multiio", "la"}, {"poll", "multiio", "la", "few"}}
=============================================================================
