------------------------------ MODULE MCWorkflow ------------------------------
(* Instances of Workflow for TLC: two departments whose routes join, as in *)
(* the masters of the test application (handywedge-test-app/sql/dml.sql).  *)
EXTENDS Workflow, TLC

CONSTANTS p1, p2, w1, w2

MCProcs == {p1, p2}
MCWfIds == {w1, w2}
MCRoles == {"staff", "head"}

(* Two departments whose routes join: "applied" has two statuses before it. *)
JoinStatuses == {"new", "savedA", "savedB", "applied", "decided"}
JoinRote ==
    [saveA  |-> [pre |-> "new",     post |-> "savedA"],
     saveB  |-> [pre |-> "new",     post |-> "savedB"],
     applyA |-> [pre |-> "savedA",  post |-> "applied"],
     applyB |-> [pre |-> "savedB",  post |-> "applied"],
     decide |-> [pre |-> "applied", post |-> "decided"]]
JoinCodes == DOMAIN JoinRote
JoinRoleAction ==
    {<<"staff", "saveA">>, <<"staff", "saveB">>, <<"staff", "applyA">>,
     <<"staff", "applyB">>, <<"head", "applyB">>, <<"head", "decide">>}

(* One department. *)
LineStatuses == {"new", "saved", "applied", "decided"}
LineRote ==
    [save   |-> [pre |-> "new",     post |-> "saved"],
     apply  |-> [pre |-> "saved",   post |-> "applied"],
     decide |-> [pre |-> "applied", post |-> "decided"]]
LineCodes == DOMAIN LineRote
LineRoleAction ==
    {<<"staff", "save">>, <<"staff", "apply">>, <<"head", "apply">>, <<"head", "decide">>}

Symmetry == Permutations(MCProcs) \cup Permutations(MCWfIds)
===============================================================================
