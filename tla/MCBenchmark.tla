---------------------------- MODULE MCBenchmark ----------------------------
(* Two clients that share a rate limit, with every single fault.           *)
EXTENDS Benchmark

MCFaults == {{}, {"eintr"}, {"mismatch"}}
=============================================================================
