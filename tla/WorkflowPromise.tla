---------------------------- MODULE WorkflowPromise ----------------------------
(***************************************************************************)
(* What the workflow engine promises to an application whose requests work *)
(* on a workflow one at a time inside transactions (developper-guide,      *)
(* commonlib/workflow.rst; FWWFManager): a workflow is its history and the *)
(* part of it that is its route. An action adds one entry to the history,  *)
(* and                                                                     *)
(*   - an ordinary action extends the route by this entry,                 *)
(*   - a last action ends the route,                                       *)
(*   - a rollback takes the last entry off the route and returns to the    *)
(*     status of the entry before it.                                      *)
(* There is nothing in between and no action without its entry.            *)
(***************************************************************************)
EXTENDS Naturals, Sequences

CONSTANTS WfIds, Codes, Rote, Rollback, NoStatus

VARIABLES
    status,   \* the current status of each workflow
    history,  \* the actions executed on it, with the status each led to
    route     \* the entries of the history it may still go back along

vars == <<status, history, route>>

IsLast(code) == \A c \in Codes : Rote[c].pre # Rote[code].post

Init ==
    /\ status = [w \in WfIds |-> NoStatus]
    /\ history = [w \in WfIds |-> <<>>]
    /\ route = [w \in WfIds |-> {}]

(* One entry more, and the workflow is in the status the entry names. *)
Record(w, code, s) ==
    /\ status' = [status EXCEPT ![w] = s]
    /\ history' = [history EXCEPT ![w] = Append(@, [code |-> code, status |-> s])]

Begin(w, c) ==
    /\ history[w] = <<>>
    /\ Record(w, c, Rote[c].post)
    /\ route' = [route EXCEPT ![w] = {1}]

Advance(w, c) ==
    /\ history[w] # <<>>
    /\ ~IsLast(c)
    /\ Record(w, c, Rote[c].post)
    /\ route' = [route EXCEPT ![w] = @ \cup {Len(history[w]) + 1}]

Decide(w, c) ==
    /\ history[w] # <<>>
    /\ IsLast(c)
    /\ Record(w, c, Rote[c].post)
    /\ route' = [route EXCEPT ![w] = {}]

(* i is the entry the workflow is at, j the one before it on the route. *)
Back(w) ==
    \E i, j \in route[w] :
        /\ j < i
        /\ \A k \in route[w] : k = i \/ k <= j
        /\ Record(w, Rollback, history[w][j].status)
        /\ route' = [route EXCEPT ![w] = @ \ {i}]

Next ==
    \E w \in WfIds :
        Back(w) \/ \E c \in Codes : Begin(w, c) \/ Advance(w, c) \/ Decide(w, c)

Spec == Init /\ [][Next]_vars
===============================================================================
