------------------------------ MODULE MCAccounts ------------------------------
(* Instances of Accounts for TLC. *)
EXTENDS Accounts, TLC

CONSTANTS p1, p2, u1, u2

Symmetry == Permutations(Procs) \cup Permutations(Ids)
===============================================================================
