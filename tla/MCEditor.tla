-------------------------------- MODULE MCEditor --------------------------------
(* Instances of Editor for TLC. *)
EXTENDS Editor, TLC

CONSTANTS s1, s2, l1, l2

(* Cells, and tabs, are told apart by what is drawn only. *)
Symmetry == Permutations(StatusIds) \cup Permutations(LinkIds) \cup Permutations(Tabs)
=================================================================================
