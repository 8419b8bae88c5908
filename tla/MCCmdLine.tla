----------------------------- MODULE MCCmdLine -----------------------------
(* The options of a server with a switch, an optional number as in the      *)
(* benchmark, and two mistakes a program can make in declaring them.        *)
EXTENDS CmdLine

Cut(dashes, opt_len, name, arg) ==
  [dashes |-> dashes, opt_len |-> opt_len, name |-> name, arg |-> arg]
MCLex ==
  [w \in {"-ip", "--port", "-port=1688", "-la", "--la=no", "1688", "-h", "---la", "-=1"} |->
     CASE w = "-ip"        -> Cut(1, 2, "ip", None)
       [] w = "--port"     -> Cut(2, 4, "port", None)
       [] w = "-port=1688" -> Cut(1, 9, "port", "1688")
       [] w = "-la"        -> Cut(1, 2, "la", None)
       [] w = "--la=no"    -> Cut(2, 5, "la", "no")
       [] w = "1688"       -> Cut(0, 4, "1688", None)
       [] w = "-h"         -> Cut(1, 1, "h", None)
       [] w = "---la"      -> Cut(3, 3, "la", None)
       [] w = "-=1"        -> Cut(1, 2, "", "1")]
MCWords == DOMAIN MCLex
MCAtoll == [w \in MCWords \cup {"no", "1"} |-> IF w \in {"1688", "1"} THEN w ELSE "0"]

Opt(name, type, required, default) ==
  [name |-> name, type |-> type, required |-> required, default |-> default]
MCDeclarations ==
  LET ip   == Opt("ip", "string", TRUE, "")
      port == Opt("port", "int64", TRUE, "0")
      la   == Opt("la", "bool", FALSE, "false")
      rate == Opt("port", "int64", FALSE, "100")
  IN  {<<ip, port>>, <<ip, port, la>>, <<la, rate>>, <<ip, ip>>,
       <<la, Opt("-la", "bool", FALSE, "false")>>}
=============================================================================
