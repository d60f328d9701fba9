---------------------------- MODULE MCPushSessions ----------------------------
(* Instances of PushSessions for TLC. *)
EXTENDS PushSessions

CONSTANTS a, b, s1, s2, s3

TwoUsers == s1 :> a @@ s2 :> a @@ s3 :> b
OneUser == s1 :> a @@ s2 :> a
===============================================================================
