----------------------------- MODULE MCRequestCycle -----------------------------
(* Instances of RequestCycle for TLC. *)
EXTENDS RequestCycle, TLC

CONSTANTS t1, t2

(* Threads of the pool are alike. *)
Symmetry == Permutations(Threads)
===============================================================================
