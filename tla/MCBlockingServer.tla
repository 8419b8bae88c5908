-------------------------- MODULE MCBlockingServer --------------------------
(* The ten programs, and the ones that differ when descriptors run out.     *)
EXTENDS BlockingServer

MCPrograms ==
  {{"single"}, {"spawn", "processes"}, {"spawn"},
   {"processes"}, {"processes", "reuseport"}, {"reuseport"},
   {"mutex"}, {"mutex", "few"},
   {"single", "watch"}, {"single", "watch", "one"},
   {"single", "watch", "few"}, {"single", "watch", "few", "select"}}
=============================================================================
