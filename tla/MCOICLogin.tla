-------------------------------- MODULE MCOICLogin --------------------------------
(* Instances of OICLogin for TLC. *)
EXTENDS OICLogin, TLC

(* Logins, and requests, do not differ from each other. *)
Symmetry == Permutations(Logins) \cup Permutations(Auths)
===================================================================================
