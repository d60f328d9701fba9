------------------------------ MODULE MCBinaryStore ------------------------------
(* Instances of BinaryStore for TLC. *)
EXTENDS BinaryStore
===================================================================================
