------------------------------- MODULE Workflow -------------------------------
(***************************************************************************)
(* The workflow engine (FWWFManagerImpl and FWWFService of                 *)
(* handywedge-core): requests that start a workflow (doInitAction) and     *)
(* move it along its routes or back (checkAction, doAction), each a        *)
(* sequence of statements on three tables that other requests use too:     *)
(*                                                                         *)
(*   fw_wf_id_management        the current status of a workflow           *)
(*   fw_wf_log                  its history, one numbered row per action   *)
(*   fw_wf_progress_management  the route it came along: what a rollback   *)
(*                              goes back to                               *)
(*                                                                         *)
(* The engine's own statements are each one transaction unless the         *)
(* application calls it inside an @FWTransactional method of its own:      *)
(* Joined says which.  The database is PostgreSQL at its default level,    *)
(* READ COMMITTED: a statement sees what is committed when it starts and   *)
(* an UPDATE of a row waits for the transaction that changed it last.      *)
(***************************************************************************)
EXTENDS Naturals, FiniteSets

CONSTANTS
    Procs,       \* request threads of the application
    WfIds,       \* the workflow ids UUID.randomUUID can draw
    Statuses,    \* rows of fw_status_master
    Codes,       \* action codes, the key of fw_wf_rote
    Roles,       \* roles of the users
    Rote,        \* fw_wf_rote: the status before and after each action
    RoleAction,  \* fw_role_action: the actions a role may execute
    Rollback,    \* ROLLBACK_ACTION_CODE
    NoStatus,    \* there is no row in fw_wf_id_management
    NoWf,        \* a request that has no workflow id yet
    Ops,         \* which of AllOps the application uses
    Joined,      \* the application calls inside a transaction of its own
    Serialized,  \* it lets one request at a time work on a workflow
    Failures,    \* a statement, the commit or the application may fail
    MaxLog       \* bound: no request starts on a workflow with MaxLog rows

(* "init": doInitAction; "act": checkAction then doAction with its result, *)
(* the documented use; "direct": doAction(FWWFAction) alone; "string":     *)
(* doAction(String wfId, String actionCode).                               *)
AllOps == {"init", "act", "direct", "string"}

ASSUME MastersAssumption ==
    /\ Rote \in [Codes -> [pre : Statuses, post : Statuses]]
    /\ RoleAction \subseteq Roles \X Codes
    /\ Roles # {}
    /\ Rollback \notin Codes
    /\ NoStatus \notin Statuses
    /\ NoWf \notin WfIds

ASSUME UseAssumption ==
    /\ Ops \subseteq AllOps
    /\ {Joined, Serialized, Failures} \subseteq BOOLEAN
    /\ MaxLog \in Nat

VARIABLES
    db,       \* what is committed: the three tables, by workflow
    tx,       \* Joined: what each open transaction has written and not committed
    known,    \* the workflow ids the application holds in its own data
    pc,       \* the statement each request executes next
    req,      \* what it was asked
    post,     \* action.getPostStatus() of the action it generated
    ser,      \* wf_ser_no of the log row it writes
    outcome   \* how its last request ended

vars == <<db, tx, known, pc, req, post, ser, outcome>>

-------------------------------------------------------------------------------
(* The tables. A row of fw_wf_log and one of fw_wf_progress_management     *)
(* carry the same columns; both have the primary key (wf_id, wf_ser_no).   *)

Row == [ser : Nat, code : Codes \cup {Rollback}, status : Statuses]

Tables == [status : Statuses \cup {NoStatus}, log : SUBSET Row, prog : SUBSET Row]

NoRows == [status |-> NoStatus, log |-> {}, prog |-> {}]

Serials(rows) == {r.ser : r \in rows}

(* MAX(wf_ser_no), read by getInt: 0 when there is no row. *)
MaxSer(rows) ==
    IF rows = {} THEN 0
    ELSE CHOOSE m \in Serials(rows) : \A n \in Serials(rows) : n <= m

(* The rows that hold the largest serial number. *)
Last(rows) == {r \in rows : r.ser = MaxSer(rows)}

(* The status of the last row. *)
StatusOf(rows) == (CHOOSE r \in Last(rows) : TRUE).status

-------------------------------------------------------------------------------
(* The masters and the questions the engine asks of them. *)

Permitted(role, code) == <<role, code>> \in RoleAction

(* A fault the runs must find: the status is missing from the WHERE. *)
GoActionsOfRole(status, role) == {c \in Codes : Permitted(role, c)}

(* getActions(status, role): what the role may do in this status. *)
GoActions(status, role) ==
    {c \in Codes : Rote[c].pre = status /\ Permitted(role, c)}

(* A fault: the status an action starts at for the one it leads to. *)
IsLastByPre(code) == \A c \in Codes : Rote[c].pre # Rote[code].pre

(* last_action: no route starts at the status the action leads to. *)
IsLast(code) == \A c \in Codes : Rote[c].pre # Rote[code].post

(* getRollbackAction finds the last two rows of the progress; the action   *)
(* it builds leads to the status of the last but one.                      *)
HasRollback(prog) == prog \ Last(prog) # {}
RollbackStatus(prog) == StatusOf(prog \ Last(prog))

(* getActions(wfId, role) of the manager: what a screen offers. *)
Offered(t, role) ==
    LET go == GoActions(t.status, role)
    IN  go \cup {c \in {Rollback} : go # {} /\ HasRollback(t.prog)}

-------------------------------------------------------------------------------
(* A request sees what its own transaction wrote, else what is committed. *)

InTx(p) == tx[p] # NoRows

View(p) == IF InTx(p) THEN tx[p] ELSE db[req[p].wf]

(* Its statements write into its transaction, or are committed at once. *)
Write(p, w, t) ==
    IF Joined
    THEN tx' = [tx EXCEPT ![p] = t] /\ UNCHANGED db
    ELSE db' = [db EXCEPT ![w] = t] /\ UNCHANGED tx

(* The UPDATE of a row waits for the transaction that holds it. *)
RowFree(w) == \A q \in Procs : InTx(q) => req[q].wf # w

Goto(p, label) == pc' = [pc EXCEPT ![p] = label]

(* The request ends with an exception: its transaction, if one is open, is *)
(* rolled back; its local variables are gone.                              *)
NoRequest ==
    [op |-> "none", wf |-> NoWf, code |-> Rollback, role |-> CHOOSE r \in Roles : TRUE]

(* A fault: nobody ends the transaction. *)
ThrowLeaking(p, o) ==
    /\ Goto(p, "idle")
    /\ outcome' = [outcome EXCEPT ![p] = o]
    /\ UNCHANGED <<db, tx, known, req, post, ser>>

Throw(p, o) ==
    /\ Goto(p, "idle")
    /\ outcome' = [outcome EXCEPT ![p] = o]
    /\ tx' = [tx EXCEPT ![p] = NoRows]
    /\ req' = [req EXCEPT ![p] = NoRequest]
    /\ post' = [post EXCEPT ![p] = NoStatus]
    /\ ser' = [ser EXCEPT ![p] = 0]
    /\ UNCHANGED <<db, known>>

-------------------------------------------------------------------------------
Init ==
    /\ db = [w \in WfIds |-> NoRows]
    /\ tx = [p \in Procs |-> NoRows]
    /\ known = {}
    /\ pc = [p \in Procs |-> "idle"]
    /\ req = [p \in Procs |-> NoRequest]
    /\ post = [p \in Procs |-> NoStatus]
    /\ ser = [p \in Procs |-> 0]
    /\ outcome = [p \in Procs |-> "none"]

Begin(p, r, label) ==
    /\ pc[p] = "idle"
    /\ r.op \in Ops
    /\ Goto(p, label)
    /\ req' = [req EXCEPT ![p] = r]
    /\ post' = [post EXCEPT ![p] = NoStatus]
    /\ ser' = [ser EXCEPT ![p] = 0]
    /\ outcome' = [outcome EXCEPT ![p] = "none"]
    /\ UNCHANGED <<db, tx, known>>

(* A user with some role starts a workflow with doInitAction. UUIDs do not *)
(* run out: the bound on WfIds keeps requests from starting, and not from  *)
(* finding an id.                                                          *)
StartInit(p) ==
    /\ Cardinality({q \in Procs : pc[q] # "idle" /\ req[q].op = "init"})
         < Cardinality({w \in WfIds : db[w] = NoRows})
    /\ \E role \in Roles, c \in Codes \cup {Rollback} :
          Begin(p, [op |-> "init", wf |-> NoWf, code |-> c, role |-> role], "generate")

(* A user acts on a workflow whose id the application holds. *)
StartAction(p) ==
    \E op \in AllOps \ {"init"}, w \in known, role \in Roles, c \in Codes \cup {Rollback} :
        /\ MaxSer(db[w].log) < MaxLog
        /\ Serialized => \A q \in Procs : pc[q] # "idle" => req[q].wf # w
        /\ Begin(p, [op |-> op, wf |-> w, code |-> c, role |-> role],
                 IF op = "act" THEN "check" ELSE "generate")

(* checkAction: the action must be a route out of the current status that  *)
(* the role may take. service.getAction returns null otherwise, and        *)
(* action.setWfId fails on it before the FWWFException is reached.         *)
CheckGo(p) ==
    /\ pc[p] = "check"
    /\ req[p].code # Rollback
    /\ IF req[p].code \in GoActions(db[req[p].wf].status, req[p].role)
       THEN /\ Goto(p, "generate")
            /\ UNCHANGED <<db, tx, known, req, post, ser, outcome>>
       ELSE Throw(p, "npe")

(* A fault: no look at the current status. *)
RollbackUnchecked(p, from, to) ==
    /\ pc[p] = from
    /\ req[p].code = Rollback
    /\ req[p].op \in {"act", "direct"}
    /\ Goto(p, to)
    /\ UNCHANGED <<db, tx, known, req, post, ser, outcome>>

(* generateRollbackAction, in checkAction and again in doAction: first the *)
(* current status, which must offer the role an action,                    *)
RollbackByStatus(p, from, to) ==
    /\ pc[p] = from
    /\ req[p].code = Rollback
    /\ req[p].op \in {"act", "direct"}
    /\ IF GoActions(db[req[p].wf].status, req[p].role) # {}
       THEN /\ Goto(p, to)
            /\ UNCHANGED <<db, tx, known, req, post, ser, outcome>>
       ELSE Throw(p, "unauthorized")

(* then, in a statement of its own, the progress to go back along.         *)
CheckRollback(p) ==
    /\ pc[p] = "checkRollback"
    /\ IF HasRollback(db[req[p].wf].prog)
       THEN /\ Goto(p, "generate")
            /\ UNCHANGED <<db, tx, known, req, post, ser, outcome>>
       ELSE Throw(p, "unauthorized")

GenerateRollback(p) ==
    /\ pc[p] = "generateRollback"
    /\ IF HasRollback(db[req[p].wf].prog)
       THEN /\ Goto(p, "update")
            /\ post' = [post EXCEPT ![p] = RollbackStatus(db[req[p].wf].prog)]
            /\ UNCHANGED <<db, tx, known, req, ser, outcome>>
       ELSE Throw(p, "unauthorized")

(* generateAction for a route: whatever the current status is. *)
GenerateGo(p) ==
    /\ pc[p] = "generate"
    /\ req[p].op # "string"
    /\ req[p].code # Rollback
    /\ IF Permitted(req[p].role, req[p].code)
       THEN /\ Goto(p, IF req[p].op = "init" THEN "insertId" ELSE "update")
            /\ post' = [post EXCEPT ![p] = Rote[req[p].code].post]
            /\ UNCHANGED <<db, tx, known, req, ser, outcome>>
       ELSE Throw(p, "npe")

(* generateAction finds nothing: doAction(String, String) has put the code *)
(* where the name of the action belongs, so that there is no code; or the  *)
(* first action of a workflow is a rollback.                               *)
GenerateNothing(p) ==
    /\ pc[p] = "generate"
    /\ req[p].op = "string" \/ (req[p].op = "init" /\ req[p].code = Rollback)
    /\ Throw(p, "unauthorized")

(* doInitAction: the row of a new workflow, under an id nobody has.        *)
InsertWFIDManagement(p) ==
    /\ pc[p] = "insertId"
    /\ \E w \in WfIds :
        /\ db[w] = NoRows
        /\ \A q \in Procs : pc[q] # "idle" => req[q].wf # w
        /\ req' = [req EXCEPT ![p].wf = w]
        /\ Write(p, w, [NoRows EXCEPT !.status = post[p]])
    /\ Goto(p, "max")
    /\ UNCHANGED <<known, post, ser, outcome>>

(* A fault: the UPDATE runs on a connection of its own. *)
UpdateOutside(p) ==
    /\ pc[p] = "update"
    /\ RowFree(req[p].wf)
    /\ LET t == [db[req[p].wf] EXCEPT !.status = post[p]]
       IN  db' = [db EXCEPT ![req[p].wf] = t] /\ tx' = [tx EXCEPT ![p] = t]
    /\ Goto(p, "max")
    /\ UNCHANGED <<known, req, post, ser, outcome>>

(* doAction: the new status, whatever the old one has become. *)
UpdateWFIDManagement(p) ==
    /\ pc[p] = "update"
    /\ RowFree(req[p].wf)
    /\ Write(p, req[p].wf, [db[req[p].wf] EXCEPT !.status = post[p]])
    /\ Goto(p, "max")
    /\ UNCHANGED <<known, req, post, ser, outcome>>

(* insertWFLog: SELECT MAX(wf_ser_no), *)
SelectMaxSerNo(p) ==
    /\ pc[p] = "max"
    /\ ser' = [ser EXCEPT ![p] = MaxSer(View(p).log) + 1]
    /\ Goto(p, "insertLog")
    /\ UNCHANGED <<db, tx, known, req, post, outcome>>

(* A fault: the columns swapped. *)
NewRowSwapped(p) == [ser |-> ser[p], code |-> post[p], status |-> req[p].code]

(* then INSERT, which fails if the number has been taken meanwhile. *)
NewRow(p) == [ser |-> ser[p], code |-> req[p].code, status |-> post[p]]

(* A fault: a table without its primary key. *)
InsertWFLogNoKey(p) ==
    /\ pc[p] = "insertLog"
    /\ Write(p, req[p].wf, [View(p) EXCEPT !.log = @ \cup {NewRow(p)}])
    /\ Goto(p, "progress")
    /\ UNCHANGED <<known, req, post, ser, outcome>>

InsertWFLog(p) ==
    /\ pc[p] = "insertLog"
    /\ ser[p] \notin Serials(View(p).log)
    /\ Write(p, req[p].wf, [View(p) EXCEPT !.log = @ \cup {NewRow(p)}])
    /\ Goto(p, "progress")
    /\ UNCHANGED <<known, req, post, ser, outcome>>

(* A fault: the exception is caught and logged. *)
DuplicateIgnored(p) ==
    /\ pc[p] = "insertLog"
    /\ ser[p] \in Serials(View(p).log)
    /\ Goto(p, "progress")
    /\ UNCHANGED <<db, tx, known, req, post, ser, outcome>>

DuplicateSerNo(p) ==
    /\ pc[p] = "insertLog"
    /\ ser[p] \in Serials(View(p).log)
    /\ Throw(p, "error")

(* A fault: the number is read again. *)
ProgressRenumbered(p, prog) ==
    CASE req[p].code = Rollback -> prog \ Last(prog)
      [] req[p].code # Rollback /\ req[p].op # "init" /\ IsLast(req[p].code) -> {}
      [] OTHER -> prog \cup {[NewRow(p) EXCEPT !.ser = MaxSer(View(p).log)]}

(* The progress: a rollback drops the last row, the last action all rows,  *)
(* any other action and the first one of a workflow add one.               *)
Progress(p, prog) ==
    CASE req[p].code = Rollback -> prog \ Last(prog)
      [] req[p].code # Rollback /\ req[p].op # "init" /\ IsLast(req[p].code) -> {}
      [] OTHER -> prog \cup {NewRow(p)}

(* The request has succeeded; a new workflow is now known. *)
Succeed(p) ==
    /\ outcome' = [outcome EXCEPT ![p] = "ok"]
    /\ known' = known \cup {req[p].wf}

WriteProgress(p) ==
    /\ pc[p] = "progress"
    /\ Write(p, req[p].wf, [View(p) EXCEPT !.prog = Progress(p, @)])
    /\ IF Joined
       THEN Goto(p, "commit") /\ UNCHANGED <<known, outcome>>
       ELSE Goto(p, "idle") /\ Succeed(p)
    /\ UNCHANGED <<req, post, ser>>

(* The application's own method returns and its transaction is committed. *)
Commit(p) ==
    /\ pc[p] = "commit"
    /\ db' = [db EXCEPT ![req[p].wf] = tx[p]]
    /\ tx' = [tx EXCEPT ![p] = NoRows]
    /\ Goto(p, "idle")
    /\ Succeed(p)
    /\ UNCHANGED <<req, post, ser>>

(* A statement or the commit fails, or the application throws after        *)
(* doAction: what is committed stays.                                      *)
Fail(p) ==
    /\ Failures
    /\ pc[p] # "idle"
    /\ Throw(p, "error")

Step(p) ==
    \/ CheckGo(p)
    \/ RollbackByStatus(p, "check", "checkRollback")
    \/ CheckRollback(p)
    \/ RollbackByStatus(p, "generate", "generateRollback")
    \/ GenerateRollback(p)
    \/ GenerateGo(p)
    \/ GenerateNothing(p)
    \/ InsertWFIDManagement(p)
    \/ UpdateWFIDManagement(p)
    \/ SelectMaxSerNo(p)
    \/ InsertWFLog(p)
    \/ DuplicateSerNo(p)
    \/ WriteProgress(p)
    \/ Commit(p)

Next == \E p \in Procs : StartInit(p) \/ StartAction(p) \/ Step(p) \/ Fail(p)

Spec == Init /\ [][Next]_vars

(* A request thread keeps running; the database grants a row to those that *)
(* wait for it in the order they came.                                     *)
Fairness ==
    \A p \in Procs : WF_vars(Step(p)) /\ SF_vars(UpdateWFIDManagement(p))

FairSpec == Spec /\ Fairness

-------------------------------------------------------------------------------
(* Types. *)
Labels == {"idle", "check", "checkRollback", "generate", "generateRollback",
           "insertId", "update", "max", "insertLog", "progress", "commit"}

Request == [op : AllOps \cup {"none"}, wf : WfIds \cup {NoWf},
            code : Codes \cup {Rollback}, role : Roles]

TypeOK ==
    /\ db \in [WfIds -> Tables]
    /\ tx \in [Procs -> Tables]
    /\ known \subseteq WfIds
    /\ pc \in [Procs -> Labels]
    /\ req \in [Procs -> Request]
    /\ post \in [Procs -> Statuses \cup {NoStatus}]
    /\ ser \in [Procs -> Nat]
    /\ outcome \in [Procs -> {"none", "ok", "unauthorized", "npe", "error"}]

-------------------------------------------------------------------------------
(* Safety. *)

(* The history of a workflow is numbered 1, 2, 3, ... without a gap and no *)
(* number is used twice, however requests interleave between the MAX and   *)
(* the INSERT of insertWFLog and whatever fails.                           *)
Numbered(rows) ==
    /\ rows # {} => \E r \in rows : Serials(rows) = 1..r.ser
    /\ \A r, s \in rows : r.ser = s.ser => r = s

LogNumbered == \A w \in WfIds : Numbered(db[w].log)

(* The route a workflow came along consists of rows of its history, the    *)
(* same action and status under the same number, and never of a rollback:  *)
(* so a rollback leads to a status the workflow really had.                *)
ProgressLogged ==
    \A w \in WfIds : \A r \in db[w].prog : r \in db[w].log /\ r.code # Rollback

(* The current status is the one at the end of the route that a rollback   *)
(* will go back along.                                                     *)
StatusOnRoute ==
    \A w \in WfIds : db[w].prog # {} => db[w].status = StatusOf(db[w].prog)

(* Where all actions are checked the route is one through the masters:     *)
(* each entry's action starts at the status of the entry before it, and    *)
(* the status the workflow has now is where the last of them led           *)
(* (insertWFProgressManagement, deleteLastWFProgressManagement).           *)
RouteConnected ==
    /\ StatusOnRoute
    /\ \A w \in WfIds : \A r \in db[w].prog :
          LET before == {q \in db[w].prog : q.ser < r.ser}
          IN  before # {} => Rote[r.code].pre = StatusOf(before)

(* What callers were told is in the tables: the row doAction returned, with*)
(* its action and status, and no two callers were given the same; and an   *)
(* id doInitAction returned belongs to a workflow that has been started    *)
(* completely, with a status and a history.                                *)
AnswersLogged ==
    /\ \A p \in Procs : outcome[p] = "ok" => NewRow(p) \in db[req[p].wf].log
    /\ \A p, q \in Procs :
           p # q /\ outcome[p] = "ok" /\ outcome[q] = "ok" /\ req[p].wf = req[q].wf
           => ser[p] # ser[q]
    /\ \A w \in known : db[w].status # NoStatus /\ db[w].log # {}

-------------------------------------------------------------------------------
(* What a step may never do. *)

(* Inside a transaction of the application's an action happens as a whole: *)
(* the tables change together, by one row of history that records the new  *)
(* status under the next number.                                           *)
OneAction(t, u) ==
    \E r \in u.log :
        /\ r.ser = MaxSer(t.log) + 1
        /\ u.log = t.log \cup {r}
        /\ u.status = r.status
ActionAtomic == [][\A w \in WfIds : db'[w] = db[w] \/ OneAction(db[w], db'[w])]_vars

(* checkAction admits just what getActions offered: what a screen shows    *)
(* can be executed, and nothing else.                                      *)
CheckAdmitsOffered ==
    [][\A p \in Procs :
          LET offered == Offered(db[req[p].wf], req[p].role)
              decided == pc'[p] # pc[p] /\ outcome'[p] # "error"
          IN  /\ pc[p] \in {"check", "checkRollback"} /\ decided /\ pc'[p] = "generate"
                  => req[p].code \in offered
              /\ pc[p] \in {"check", "checkRollback"} /\ decided /\ pc'[p] = "idle"
                  => req[p].code \notin offered]_vars

(* Every request ends, whoever else holds or waits for the workflow's row. *)
RequestsEnd == \A p \in Procs : pc[p] # "idle" ~> pc[p] = "idle"

(* The three tables seen as the history and the route of WorkflowPromise.  *)
History(log) ==
    [n \in 1..MaxSer(log) |->
        LET r == CHOOSE r \in log : r.ser = n
        IN  [code |-> r.code, status |-> r.status]]

Promise == INSTANCE WorkflowPromise WITH
    status  <- [w \in WfIds |-> db[w].status],
    history <- [w \in WfIds |-> History(db[w].log)],
    route   <- [w \in WfIds |-> Serials(db[w].prog)]

(* The engine keeps the promise.                                           *)
KeepsPromise == Promise!Spec

===============================================================================
