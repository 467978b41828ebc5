----------------------------- MODULE MCStartup -----------------------------
(* Startup on a small instance. *)
EXTENDS Startup, TLC

Interchangeable == Permutations(Procs)
=============================================================================
