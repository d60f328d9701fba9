------------------------------ MODULE Transaction ------------------------------
(***************************************************************************)
(* Methods annotated @FWTransactional: FWTransactionalInterceptor around   *)
(* each call, with FWTransactionManager (the layer) and                    *)
(* FWConnectionManagerImpl (the connection), both of them one per request, *)
(* on a pool of connections that all requests share.                       *)
(*                                                                         *)
(* The outermost annotated method of a request takes a connection in the   *)
(* mode its annotation asks for, the methods it calls join it, and what    *)
(* was written is committed or rolled back when the outermost one ends.    *)
(* An exception of a method reaches the method that called it, which may   *)
(* let it pass (and throw too) or catch it and go on.                      *)
(***************************************************************************)
EXTENDS Integers, Sequences

CONSTANTS
    Requests,   \* request threads
    Conns,      \* connections of the pool
    NoCon,      \* a connection that is null
    Types,      \* which of TxTypes the application uses
    Breaks,     \* connections may break
    MaxDepth,   \* bound: annotated methods that have called each other
    MaxWrites   \* bound: writes of one outermost method

TxTypes == {"REQUIRED", "NON_TRANSACTION", "READ_ONLY"}

ASSUME TransactionAssumption ==
    /\ NoCon \notin Conns
    /\ Types \subseteq TxTypes
    /\ Breaks \in BOOLEAN
    /\ MaxDepth \in Nat \ {0}
    /\ MaxWrites \in Nat

VARIABLES
    flow,     \* "idle": no request; "app": the application runs; "connect":
              \* an outermost method waits for a connection
    stack,    \* the annotated methods of the request that are running
    layer,    \* FWTransactionManager.layer
    field,    \* FWConnectionManagerImpl.connection
    free,     \* connections in the pool
    broken,   \* connections the database does not answer on any more
    mode,     \* autoCommit and readOnly of each connection
    pending,  \* writes on each connection that are not committed
    work      \* what became of the writes of the last outermost method

vars == <<flow, stack, layer, field, free, broken, mode, pending, work>>

-------------------------------------------------------------------------------
(* A running method: its type and `connection' of its interceptor.         *)
Frame == [type : TxTypes, con : Conns \cup {NoCon}]

Innermost(r) == stack[r][Len(stack[r])]

(* The writes of an outermost method, how many of them are committed, and  *)
(* how the last method of its transaction ended: "threw" for an exception  *)
(* that rolls back, "excepted" for one that dontRollbackOn names, "failed" *)
(* if the interceptor could not do what it had to.                         *)
NoWork == [type |-> "REQUIRED", done |-> 0, kept |-> 0, ended |-> "none"]
Ends == {"none", "returned", "threw", "excepted", "failed"}

(* What setReadOnly and setAutoCommit make of a connection for a method.   *)
ModeOf(type) == [auto |-> type # "REQUIRED", ro |-> type = "READ_ONLY"]

(* A fault the runs must find: readOnly is not reset for REQUIRED. *)
SetUpStale(type, c) == [auto |-> type # "REQUIRED", ro |-> type = "READ_ONLY" \/ mode[c].ro]

SetUp(type, c) == ModeOf(type)

(* A fault: the connection stays with the request that is over. *)
ReleaseNothing(r) ==
    /\ field' = [field EXCEPT ![r] = NoCon]
    /\ UNCHANGED <<free, broken>>

(* FWConnectionManagerImpl.close. The pool replaces a broken connection.   *)
Release(r) ==
    /\ free' = free \cup {field[r]}
    /\ broken' = broken \ {field[r]}
    /\ field' = [field EXCEPT ![r] = NoCon]

Pop(r) == stack' = [stack EXCEPT ![r] = SubSeq(@, 1, Len(@) - 1)]

-------------------------------------------------------------------------------
Init ==
    /\ flow = [r \in Requests |-> "idle"]
    /\ stack = [r \in Requests |-> <<>>]
    /\ layer = [r \in Requests |-> 0]
    /\ field = [r \in Requests |-> NoCon]
    /\ free = Conns
    /\ broken = {}
    /\ mode = [c \in Conns |-> ModeOf("NON_TRANSACTION")]
    /\ pending = [c \in Conns |-> 0]
    /\ work = [r \in Requests |-> NoWork]

(* The request-scoped beans are new for each request. *)
BeginRequest(r) ==
    /\ flow[r] = "idle"
    /\ flow' = [flow EXCEPT ![r] = "app"]
    /\ layer' = [layer EXCEPT ![r] = 0]
    /\ field' = [field EXCEPT ![r] = NoCon]
    /\ work' = [work EXCEPT ![r] = NoWork]
    /\ UNCHANGED <<stack, free, broken, mode, pending>>

EndRequest(r) ==
    /\ flow[r] = "app"
    /\ stack[r] = <<>>
    /\ flow' = [flow EXCEPT ![r] = "idle"]
    /\ UNCHANGED <<stack, layer, field, free, broken, mode, pending, work>>

(* A connection breaks, in use or in the pool: the database drops what it  *)
(* has not committed of it.                                                *)
Break(c) ==
    /\ Breaks
    /\ c \notin broken
    /\ broken' = broken \cup {c}
    /\ pending' = [pending EXCEPT ![c] = 0]
    /\ UNCHANGED <<flow, stack, layer, field, free, mode, work>>

-------------------------------------------------------------------------------
(* An annotated method is called. *)

(* A fault: every annotated method takes a connection of its own. *)
CallAlways(r) ==
    /\ flow[r] = "app"
    /\ Len(stack[r]) < MaxDepth
    /\ flow' = [flow EXCEPT ![r] = "connect"]
    /\ UNCHANGED <<stack, layer, field, free, broken, mode, pending, work>>

(* isTopLayer: it needs a connection and waits while the pool has none;    *)
Call(r) ==
    /\ flow[r] = "app"
    /\ layer[r] = 0
    /\ Len(stack[r]) < MaxDepth
    /\ flow' = [flow EXCEPT ![r] = "connect"]
    /\ UNCHANGED <<stack, layer, field, free, broken, mode, pending, work>>

(* at last the pool gives up and the caller gets an exception,             *)
NoConnection(r) ==
    /\ flow[r] = "connect"
    /\ free = {}
    /\ flow' = [flow EXCEPT ![r] = "app"]
    /\ UNCHANGED <<stack, layer, field, free, broken, mode, pending, work>>

(* or it takes one, whatever the last user has left it in.                 *)
Connect(r) ==
    /\ flow[r] = "connect"
    /\ \E c \in free, type \in Types :
        /\ free' = free \ {c}
        /\ field' = [field EXCEPT ![r] = c]
        /\ mode' = [mode EXCEPT ![c] = SetUp(type, c)]
        /\ stack' = [stack EXCEPT ![r] = Append(@, [type |-> type, con |-> c])]
        /\ work' = [work EXCEPT ![r] = [NoWork EXCEPT !.type = type]]
    /\ layer' = [layer EXCEPT ![r] = @ + 1]
    /\ flow' = [flow EXCEPT ![r] = "app"]
    /\ UNCHANGED <<broken, pending>>

(* setReadOnly or setAutoCommit fails on a broken one. They are outside    *)
(* the try of the interceptor: nobody closes this connection.              *)
SetUpFails(r) ==
    /\ flow[r] = "connect"
    /\ \E c \in free \cap broken :
        /\ free' = free \ {c}
        /\ field' = [field EXCEPT ![r] = c]
    /\ flow' = [flow EXCEPT ![r] = "app"]
    /\ UNCHANGED <<stack, layer, broken, mode, pending, work>>

(* Any other annotated method joins, whatever its type and data source.    *)
Join(r) ==
    /\ flow[r] = "app"
    /\ layer[r] # 0
    /\ Len(stack[r]) < MaxDepth
    /\ \E type \in Types :
        stack' = [stack EXCEPT ![r] = Append(@, [type |-> type, con |-> NoCon])]
    /\ layer' = [layer EXCEPT ![r] = @ + 1]
    /\ UNCHANGED <<flow, field, free, broken, mode, pending, work>>

(* The method writes to FWConnectionManager.getConnection(): committed at  *)
(* once, or pending. A connection that is read only or broken refuses.     *)
Write(r) ==
    /\ flow[r] = "app"
    /\ stack[r] # <<>>
    /\ field[r] \notin broken \cup {NoCon}
    /\ ~mode[field[r]].ro
    /\ work[r].done < MaxWrites
    /\ IF mode[field[r]].auto
       THEN /\ work' = [work EXCEPT ![r].done = @ + 1, ![r].kept = @ + 1]
            /\ UNCHANGED pending
       ELSE /\ work' = [work EXCEPT ![r].done = @ + 1]
            /\ pending' = [pending EXCEPT ![field[r]] = @ + 1]
    /\ UNCHANGED <<flow, stack, layer, field, free, broken, mode>>

-------------------------------------------------------------------------------
(* A method ends: decrementLayer. *)
Ending(r) == flow[r] = "app" /\ stack[r] # <<>>

(* One that has joined leaves commit and rollback to the outermost. (A     *)
(* layer that is too low counts as outside any transaction: CheckFails.)   *)
EndInner(r, h) ==
    /\ Ending(r)
    /\ layer[r] # 1
    /\ layer' = [layer EXCEPT ![r] = @ - 1]
    /\ Pop(r)
    /\ work' = IF layer[r] > 1 THEN [work EXCEPT ![r].ended = h] ELSE work
    /\ UNCHANGED <<flow, field, free, broken, mode, pending>>

(* Two faults: it commits as well; it closes the connection as well. *)
ReturnInnerCommitting(r) ==
    /\ Ending(r)
    /\ layer[r] > 1
    /\ layer' = [layer EXCEPT ![r] = @ - 1]
    /\ Pop(r)
    /\ work' = [work EXCEPT ![r].ended = "returned", ![r].kept = @ + pending[field[r]]]
    /\ pending' = [pending EXCEPT ![field[r]] = 0]
    /\ UNCHANGED <<flow, field, free, broken, mode>>

ReturnInnerClosing(r) ==
    /\ Ending(r)
    /\ layer[r] > 1
    /\ layer' = [layer EXCEPT ![r] = @ - 1]
    /\ Pop(r)
    /\ work' = [work EXCEPT ![r].ended = "returned"]
    /\ Release(r)
    /\ UNCHANGED <<flow, mode, pending>>

ReturnInner(r) == EndInner(r, "returned")
ThrowInner(r) == EndInner(r, "threw")

(* The outermost: n of its pending writes are committed and the others     *)
(* dropped, and the finally block closes the connection.                   *)
OutermostEnding(r) == Ending(r) /\ layer[r] = 1

Settle(r, n, h) ==
    /\ layer' = [layer EXCEPT ![r] = 0]
    /\ Pop(r)
    /\ pending' = [pending EXCEPT ![Innermost(r).con] = 0]
    /\ work' = [work EXCEPT ![r].ended = h, ![r].kept = @ + n]
    /\ Release(r)
    /\ UNCHANGED <<flow, mode>>

Pending(r) == pending[Innermost(r).con]

(* There is something to do on the connection, and it will fail. *)
Broken(r) == Innermost(r).con \in broken /\ ~mode[Innermost(r).con].auto

(* It returns: commit, unless each write has been committed by itself.     *)
ReturnTop(r) ==
    /\ OutermostEnding(r)
    /\ ~Broken(r)
    /\ Settle(r, Pending(r), "returned")

(* The commit, or getWarnings after it, throws: the caller gets this       *)
(* exception and, if the connection broke just then, cannot know whether   *)
(* the database has committed.                                             *)
CommitFails(r) ==
    /\ OutermostEnding(r)
    /\ ~mode[Innermost(r).con].auto
    /\ \E n \in {0, Pending(r)} : Settle(r, n, "failed")

(* connection.getAutoCommit() throws before the commit: the layer has been *)
(* left already and is left once more by the catch block, which so is not  *)
(* in the top layer: no rollback, and no close by the finally block.       *)
CheckFails(r) ==
    /\ OutermostEnding(r)
    /\ Innermost(r).con \in broken
    /\ layer' = [layer EXCEPT ![r] = @ - 2]
    /\ Pop(r)
    /\ work' = [work EXCEPT ![r].ended = "failed"]
    /\ UNCHANGED <<flow, field, free, broken, mode, pending>>

(* It throws: rollback, unless dontRollbackOn names the exception.         *)
ThrowTop(r) ==
    /\ OutermostEnding(r)
    /\ ~Broken(r)
    /\ Settle(r, 0, "threw") \/ Settle(r, Pending(r), "excepted")

(* That fails, or getAutoCommit does: logged, or thrown in place of what   *)
(* the method threw, and the connection is closed.                         *)
ThrowTopFails(r) ==
    /\ OutermostEnding(r)
    /\ ~mode[Innermost(r).con].auto \/ Innermost(r).con \in broken
    /\ \E n \in {0, Pending(r)} : Settle(r, n, "failed")

End(r) ==
    \/ ReturnInner(r)
    \/ ThrowInner(r)
    \/ ReturnTop(r)
    \/ CommitFails(r)
    \/ CheckFails(r)
    \/ ThrowTop(r)
    \/ ThrowTopFails(r)

Next ==
    \/ \E c \in Conns : Break(c)
    \/ \E r \in Requests :
        \/ BeginRequest(r)
        \/ EndRequest(r)
        \/ Call(r)
        \/ NoConnection(r)
        \/ Connect(r)
        \/ SetUpFails(r)
        \/ Join(r)
        \/ Write(r)
        \/ End(r)

Spec == Init /\ [][Next]_vars

(* The application's methods end, however many others they call. *)
Fairness ==
    \A r \in Requests, d \in 1..MaxDepth : SF_vars(Len(stack[r]) = d /\ End(r))

FairSpec == Spec /\ Fairness

-------------------------------------------------------------------------------
TypeOK ==
    /\ flow \in [Requests -> {"idle", "app", "connect"}]
    /\ stack \in [Requests -> Seq(Frame)]
    /\ layer \in [Requests -> Int]
    /\ field \in [Requests -> Conns \cup {NoCon}]
    /\ free \subseteq Conns
    /\ broken \subseteq Conns
    /\ mode \in [Conns -> [auto : BOOLEAN, ro : BOOLEAN]]
    /\ pending \in [Conns -> Nat]
    /\ work \in [Requests -> [type : TxTypes, done : Nat, kept : Nat, ended : Ends]]

(* The running methods that took a connection. *)
Owners(c) ==
    {o \in Requests \X (1..MaxDepth) :
        o[2] <= Len(stack[o[1]]) /\ stack[o[1]][o[2]].con = c}

(* A connection is in the pool or belongs to one outermost method: every   *)
(* path through the interceptor gives it back and no two requests share    *)
(* it. Only a broken connection may be lost, and after that its request    *)
(* never works on a connection that is not its own.                        *)
ConnectionsAccounted ==
    \A c \in Conns :
        /\ c \in free => Owners(c) = {}
        /\ c \notin free \cup broken => Owners(c) # {}
        /\ \A o, p \in Owners(c) : o = p

(* A request does not find in its connection what another left there: the  *)
(* connections of the pool hold no open transaction, and one in use is in  *)
(* the mode its outermost method asks for.                                 *)
NothingLeftOver ==
    \A c \in Conns :
        /\ c \in free => pending[c] = 0
        /\ \A o \in Owners(c) : mode[c] = ModeOf(stack[o[1]][o[2]].type)

(* What becomes of the writes of an outermost REQUIRED method and of all   *)
(* that joined it is decided by how it ends, and is all or nothing         *)
(* whatever its inner methods threw and whatever failed or broke.          *)
AllOrNothing ==
    \A r \in Requests : work[r].type = "REQUIRED" =>
        /\ layer[r] > 0 => work[r].kept = 0
        /\ layer[r] <= 0 =>
            /\ work[r].kept \in {0, work[r].done}
            /\ work[r].ended \in {"returned", "excepted"} => work[r].kept = work[r].done
            /\ work[r].ended = "threw" => work[r].kept = 0

(* The pool does not stay empty unless it has lost a broken connection: a  *)
(* request never waits for a connection while it holds one, and gives back *)
(* the one it holds.                                                       *)
Lost == {c \in Conns \ free : Owners(c) = {}}
PoolRefills == free = {} ~> free # {} \/ Lost # {}
===============================================================================
