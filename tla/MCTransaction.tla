----------------------------- MODULE MCTransaction -----------------------------
(* Instances of Transaction for TLC: more requests than connections. *)
EXTENDS Transaction

CONSTANTS r1, r2, c1
===============================================================================
