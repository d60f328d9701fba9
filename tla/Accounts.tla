------------------------------- MODULE Accounts -------------------------------
(***************************************************************************)
(* User accounts of handywedge: FWUserManageController,                    *)
(* FWAPITokenPublisher and FWOICAPITokenPublisher, and the managers they   *)
(* call (FWUserManagerImpl, FWUserService, FWLoginManagerImpl,             *)
(* FWOICUserManager), with user management enabled.                        *)
(*                                                                         *)
(* Each method of a service is a transaction of its own and a request      *)
(* calls several of them. PostgreSQL, READ COMMITTED: a SELECT is a step;  *)
(* the writes of a transaction become visible together, in the step that   *)
(* commits it, and there the constraints of ddl.sql are checked. (Two      *)
(* transactions that write the same row run one after the other, so that   *)
(* nothing can come between the writes of one; a DELETE of several rows    *)
(* picks them in a step of its own.)                                       *)
(*                                                                         *)
(* Passwords and tokens are numbers drawn from a counter: a registration   *)
(* draws one number for its password and for its link.                     *)
(***************************************************************************)
EXTENDS Naturals, FiniteSets

CONSTANTS
    Procs,       \* request threads
    Ids,         \* user ids
    Ops,         \* which of AllOps are requested
    Serialized,  \* one request at a time concerns an id
    Failures,    \* a statement, a commit or a mail may fail
    MaxFresh     \* bound: passwords and tokens ever drawn

AllOps == {"register", "actual", "initReset", "reset", "change", "publish",
           "remove", "removeAll", "delete", "oic"}

ASSUME AccountsAssumption ==
    /\ Ops \subseteq AllOps
    /\ {Serialized, Failures} \subseteq BOOLEAN
    /\ MaxFresh \in Nat /\ Ids # {}

VARIABLES
    account,  \* the rows of an id in fw_user, fw_user_passwd, fw_user_management
    reset,    \* fw_user_passwd_reset: the token, 0 for no row
    tokens,   \* fw_api_token
    fresh,    \* the last number drawn
    known,    \* passwords and links that have been handed out
    pc,       \* the step each request executes next
    req,      \* what it was asked
    local,    \* what it has read
    outcome   \* how its last request ended

vars == <<account, reset, tokens, fresh, known, pc, req, local, outcome>>

-------------------------------------------------------------------------------
(* The tables. `stage' is the row of fw_user_management: "none", "pre" for *)
(* pre_register and "registered"; `link' is its pre_token; `born' tells    *)
(* one registration of an id from the next.                                *)
Secret == 0..MaxFresh

Account == [born : Secret, passwd : Secret, link : Secret, mail : BOOLEAN,
            stage : {"none", "pre", "registered"}]

NoAccount ==
    [born |-> 0, passwd |-> 0, link |-> 0, mail |-> FALSE, stage |-> "none"]

Exists(id) == account[id] # NoAccount

Token == [id : Ids, n : Secret, oic : BOOLEAN]

TokensOf(id) == {t \in tokens : t.id = id}

(* Who holds a link: pre_token and reset_token are unique. *)
HasLink(id, n) == n # 0 /\ account[id].link = n
HasReset(id, n) == n # 0 /\ reset[id] = n

(* A password or a link, as its owner got it. *)
Known == [kind : {"passwd", "link", "reset"}, id : Ids, n : Secret]

-------------------------------------------------------------------------------
(* Requests. `n' is the password or token presented; `flag' is pre_register *)
(* or multiple; `mail' whether an address is given.                         *)
Request == [op : AllOps \cup {"none"}, id : Ids, n : Secret, flag : BOOLEAN, mail : BOOLEAN]

NoRequest ==
    [op |-> "none", id |-> CHOOSE id \in Ids : TRUE, n |-> 0, flag |-> FALSE, mail |-> FALSE]

(* What it has read: a row it will replace or act on (0 for none), the      *)
(* rows its DELETE has found; and the number it has drawn.                  *)
Local == [row : Secret, victims : SUBSET Token, drawn : Secret]

NoLocal == [row |-> 0, victims |-> {}, drawn |-> 0]

Goto(p, label) == pc' = [pc EXCEPT ![p] = label]

(* The response; what has been read is gone. *)
Reply(p, o) ==
    /\ Goto(p, "idle")
    /\ outcome' = [outcome EXCEPT ![p] = o]
    /\ local' = [local EXCEPT ![p].row = 0, ![p].victims = {}]

Refuse(p) ==
    /\ Reply(p, "refused")
    /\ UNCHANGED <<account, reset, tokens, fresh, known, req>>

(* A constraint of ddl.sql is violated: the transaction is rolled back.     *)
Conflict(p) ==
    /\ Reply(p, "constraint")
    /\ UNCHANGED <<account, reset, tokens, fresh, known, req>>

(* Reading and going on. *)
Read(p, label) ==
    /\ Goto(p, label)
    /\ UNCHANGED <<account, reset, tokens, fresh, known, req, outcome>>

(* Draw a password or a token, in the step that commits it. *)
Draw(p) ==
    /\ fresh' = fresh + 1
    /\ local' = [local EXCEPT ![p] = [NoLocal EXCEPT !.drawn = fresh + 1]]

HandOut(kind, id, n) == known' = known \cup {[kind |-> kind, id |-> id, n |-> n]}

Init ==
    /\ account = [id \in Ids |-> NoAccount]
    /\ reset = [id \in Ids |-> 0]
    /\ tokens = {}
    /\ fresh = 0
    /\ known = {}
    /\ pc = [p \in Procs |-> "idle"]
    /\ req = [p \in Procs |-> NoRequest]
    /\ local = [p \in Procs |-> NoLocal]
    /\ outcome = [p \in Procs |-> "none"]

(* Who draws, as many numbers as are left.                                  *)
Drawing == {"register", "initReset", "reset", "change", "publish", "oic"}
Drawn(op) ==
    op \in Drawing =>
        fresh + Cardinality({q \in Procs : pc[q] # "idle" /\ req[q].op \in Drawing}) < MaxFresh

Begin(p, op, id, n, flag, mail, label) ==
    /\ pc[p] = "idle"
    /\ op \in Ops
    /\ Serialized => \A q \in Procs : pc[q] # "idle" => req[q].id # id
    /\ Drawn(op)
    /\ Goto(p, label)
    /\ req' = [req EXCEPT ![p] = [op |-> op, id |-> id, n |-> n, flag |-> flag, mail |-> mail]]
    /\ local' = [local EXCEPT ![p] = NoLocal]
    /\ outcome' = [outcome EXCEPT ![p] = "none"]
    /\ UNCHANGED <<account, reset, tokens, fresh, known>>

-------------------------------------------------------------------------------
(* POST /user: register. A pre-registration needs a mail address. *)
Register(p) ==
    \E id \in Ids, pre, mail \in BOOLEAN :
        /\ pre => mail
        /\ Begin(p, "register", id, 0, pre, mail, "stage")

(* A fault: any row of fw_user_management is replaced. *)
InsertStageAny(p) ==
    /\ pc[p] = "stage"
    /\ IF account[req[p].id].stage = "none"
       THEN Read(p, "exists") /\ UNCHANGED local
       ELSE Read(p, "insert") /\ local' = [local EXCEPT ![p].row = account[req[p].id].link]

(* insert: an account that is only pre-registered will be replaced, *)
InsertStage(p) ==
    /\ pc[p] = "stage"
    /\ LET a == account[req[p].id]
       IN  CASE a.stage = "registered" -> Refuse(p)
             [] a.stage = "pre"  -> Read(p, "insert") /\ local' = [local EXCEPT ![p].row = a.link]
             [] a.stage = "none" -> Read(p, "exists") /\ UNCHANGED local

(* an id without a row in fw_user_management must be free, *)
InsertExists(p) ==
    /\ pc[p] = "exists"
    /\ IF Exists(req[p].id) THEN Refuse(p) ELSE Read(p, "insert") /\ UNCHANGED local

(* and the rows are deleted and inserted: fw_user has one of the id at most *)
(* and none is deleted that a token or a reset refers to.                   *)
Insert(p) ==
    LET id == req[p].id
        clash == IF local[p].row # 0 THEN reset[id] # 0 \/ TokensOf(id) # {} ELSE Exists(id)
    IN  /\ pc[p] = "insert"
        /\ IF clash
           THEN Conflict(p)
           ELSE /\ Draw(p)
                /\ account' = [account EXCEPT ![id] =
                      [born |-> fresh + 1, passwd |-> fresh + 1, mail |-> req[p].mail,
                       link  |-> IF req[p].flag THEN fresh + 1 ELSE 0,
                       stage |-> IF req[p].flag THEN "pre" ELSE "none"]]
                /\ HandOut("passwd", id, fresh + 1)
                /\ IF req[p].flag
                   THEN Goto(p, "mail") /\ UNCHANGED outcome
                   ELSE Goto(p, "idle") /\ outcome' = [outcome EXCEPT ![p] = "ok"]
                /\ UNCHANGED <<reset, tokens, req>>

(* After the commit the link, or the new password, is mailed. *)
Mailed(op) ==
    CASE op = "register"  -> "link"
      [] op = "initReset" -> "reset"
      [] op = "reset"     -> "passwd"

SendMail(p) ==
    /\ pc[p] = "mail"
    /\ HandOut(Mailed(req[p].op), req[p].id, local[p].drawn)
    /\ Reply(p, "ok")
    /\ UNCHANGED <<account, reset, tokens, fresh, req>>

(* A fault: the exception is logged and the request succeeds. *)
MailFailsUnnoticed(p) ==
    /\ Failures
    /\ pc[p] = "mail"
    /\ Reply(p, "ok")
    /\ UNCHANGED <<account, reset, tokens, fresh, known, req>>

(* It cannot be sent: what has been committed stays. *)
MailFails(p) ==
    /\ Failures
    /\ pc[p] = "mail"
    /\ Reply(p, "unsent")
    /\ UNCHANGED <<account, reset, tokens, fresh, known, req>>

-------------------------------------------------------------------------------
(* GET /user/actual: a link out of a mail is followed. *)
Actual(p) ==
    \E k \in known :
        k.kind = "link" /\ Begin(p, "actual", k.id, k.n, FALSE, FALSE, "validPre")

(* validPreToken; whether it has expired is left open. *)
ValidPreToken(p) ==
    /\ pc[p] = "validPre"
    /\ \/ HasLink(req[p].id, req[p].n) /\ account[req[p].id].stage = "pre"
          /\ Read(p, "activate") /\ UNCHANGED local
       \/ Refuse(p)

(* actualRegister: UPDATE ... WHERE pre_token, and login. *)
ActualRegister(p) ==
    /\ pc[p] = "activate"
    /\ IF HasLink(req[p].id, req[p].n)
       THEN /\ account' = [account EXCEPT ![req[p].id].stage = "registered"]
            /\ Reply(p, "ok")
            /\ UNCHANGED <<reset, tokens, fresh, known, req>>
       ELSE Refuse(p)

-------------------------------------------------------------------------------
(* POST /user/password/reset: initResetPassword, *)
InitReset(p) == \E id \in Ids : Begin(p, "initReset", id, 0, FALSE, FALSE, "getMail")

GetMailAddress(p) ==
    /\ pc[p] = "getMail"
    /\ IF account[req[p].id].mail THEN Read(p, "isPre") /\ UNCHANGED local ELSE Refuse(p)

IsPreRegister(p) ==
    /\ pc[p] = "isPre"
    /\ IF account[req[p].id].stage = "pre"
       THEN Refuse(p)
       ELSE Read(p, "deleteReset") /\ UNCHANGED local

(* the DELETE of the old token, *)
DeleteReset(p) ==
    /\ pc[p] = "deleteReset"
    /\ Read(p, "insertReset")
    /\ local' = [local EXCEPT ![p].row = reset[req[p].id]]

(* A fault: the id is bound to both columns. *)
InsertResetId(p) ==
    LET id == req[p].id
    IN  /\ pc[p] = "insertReset"
        /\ Exists(id)
        /\ Draw(p)
        /\ reset' = [reset EXCEPT ![id] = id]
        /\ Goto(p, "mail")
        /\ UNCHANGED <<account, tokens, known, req, outcome>>

(* the INSERT of a new one: one row an id, of a user who exists. *)
InsertReset(p) ==
    LET id == req[p].id
    IN  /\ pc[p] = "insertReset"
        /\ IF Exists(id) /\ reset[id] \in {0, local[p].row}
           THEN /\ Draw(p)
                /\ reset' = [reset EXCEPT ![id] = fresh + 1]
                /\ Goto(p, "mail")
                /\ UNCHANGED <<account, tokens, known, req, outcome>>
           ELSE Conflict(p)

(* GET /user/password/reset: a link out of a mail is followed. *)
Reset(p) ==
    \E k \in known :
        k.kind = "reset" /\ Begin(p, "reset", k.id, k.n, FALSE, FALSE, "validReset")

(* validResetToken; whether it has expired is left open. *)
ValidResetToken(p) ==
    /\ pc[p] = "validReset"
    /\ \/ HasReset(req[p].id, req[p].n) /\ Read(p, "getUserId") /\ UNCHANGED local
       \/ Refuse(p)

(* resetPassword looks the token up again, *)
GetUserId(p) ==
    /\ pc[p] = "getUserId"
    /\ Read(p, "resetPasswd")
    /\ local' = [local EXCEPT ![p].row = IF HasReset(req[p].id, req[p].n) THEN req[p].n ELSE 0]

(* and gives the user it has found a new password. Without one nothing     *)
(* changes, and the password that nobody has is reported as a success. (A  *)
(* row another request has inserted meanwhile may be deleted or not.)      *)
ResetPassword(p) ==
    LET id == req[p].id
    IN  /\ pc[p] = "resetPasswd"
        /\ Draw(p)
        /\ IF local[p].row # 0 /\ Exists(id)
           THEN /\ account' = [account EXCEPT ![id].passwd = fresh + 1]
                /\ \E r \in {0, reset[id]} :
                      /\ r # req[p].n
                      /\ reset' = [reset EXCEPT ![id] = r]
                /\ Goto(p, "mail")
                /\ UNCHANGED <<tokens, known, req, outcome>>
           ELSE /\ Goto(p, "idle")
                /\ outcome' = [outcome EXCEPT ![p] = "ok"]
                /\ UNCHANGED <<account, reset, tokens, known, req>>

-------------------------------------------------------------------------------
(* A fault: fw_user_management is not asked. *)
CheckStageNot(p) ==
    /\ pc[p] = "checkStage"
    /\ Read(p, "checkPasswd")
    /\ UNCHANGED local

(* checkPassword: a SELECT on fw_user_management, one on fw_user_passwd. *)
CheckStage(p) ==
    /\ pc[p] = "checkStage"
    /\ IF account[req[p].id].stage = "pre"
       THEN Refuse(p)
       ELSE Read(p, "checkPasswd") /\ UNCHANGED local

CheckPasswd(p) ==
    /\ pc[p] = "checkPasswd"
    /\ IF Exists(req[p].id) /\ account[req[p].id].passwd = req[p].n
       THEN Read(p, IF req[p].op = "change" THEN "change" ELSE "deleteTokens") /\ UNCHANGED local
       ELSE Refuse(p)

(* PUT /user/password, by a user whose token the filter has accepted. *)
Change(p) ==
    \E k \in known :
        /\ k.kind = "passwd" /\ TokensOf(k.id) # {}
        /\ Begin(p, "change", k.id, k.n, FALSE, FALSE, "checkStage")

ChangePassword(p) ==
    LET id == req[p].id
    IN  /\ pc[p] = "change"
        /\ IF Exists(id)
           THEN /\ Draw(p)
                /\ account' = [account EXCEPT ![id].passwd = fresh + 1]
                /\ HandOut("passwd", id, fresh + 1)
                /\ Goto(p, "idle")
                /\ outcome' = [outcome EXCEPT ![p] = "ok"]
                /\ UNCHANGED <<reset, tokens, req>>
           ELSE Refuse(p)

-------------------------------------------------------------------------------
(* POST /token/pub: checkPassword, then publishAPIToken. *)
Publish(p) ==
    \E k \in known, multiple \in BOOLEAN :
        k.kind = "passwd" /\ Begin(p, "publish", k.id, k.n, multiple, FALSE, "checkStage")

(* DELETE FROM fw_api_token WHERE id: unless the request wants several.    *)
DeleteTokens(p) ==
    /\ pc[p] = "deleteTokens"
    /\ Read(p, IF req[p].op = "delete" THEN "deleteUser" ELSE "insertToken")
    /\ local' = [local EXCEPT ![p].victims = IF req[p].flag THEN {} ELSE TokensOf(req[p].id)]

InsertToken(p) ==
    LET id == req[p].id
    IN  /\ pc[p] = "insertToken"
        /\ IF Exists(id)
           THEN /\ Draw(p)
                /\ tokens' = (tokens \ local[p].victims)
                               \cup {[id |-> id, n |-> fresh + 1, oic |-> FALSE]}
                /\ Goto(p, "tokenUser")
                /\ UNCHANGED <<account, reset, known, req, outcome>>
           ELSE Conflict(p)

(* getUserByToken for the response. *)
TokenUser(p) ==
    /\ pc[p] = "tokenUser"
    /\ Reply(p, IF \E t \in tokens : t.n = local[p].drawn THEN "ok" ELSE "error")
    /\ UNCHANGED <<account, reset, tokens, fresh, known, req>>

(* DELETE /token/delete with a token; removeAllAPIToken. *)
Remove(p) ==
    \E t \in tokens : Begin(p, "remove", t.id, t.n, FALSE, FALSE, "remove")

RemoveAll(p) == \E id \in Ids : Begin(p, "removeAll", id, 0, FALSE, FALSE, "remove")

RemoveTokens(p) ==
    /\ pc[p] = "remove"
    /\ tokens' = {t \in tokens :
                    ~(t.id = req[p].id /\ (req[p].op = "removeAll" \/ t.n = req[p].n))}
    /\ Reply(p, "ok")
    /\ UNCHANGED <<account, reset, fresh, known, req>>

(* FWUserManager.delete: the tokens, the password, the management row, and *)
(* the user, if no other row refers to it.                                 *)
Delete(p) == \E id \in Ids : Begin(p, "delete", id, 0, FALSE, FALSE, "deleteTokens")

DeleteUser(p) ==
    LET id == req[p].id
    IN  /\ pc[p] = "deleteUser"
        /\ IF reset[id] # 0 \/ TokensOf(id) \ local[p].victims # {}
           THEN Conflict(p)
           ELSE /\ account' = [account EXCEPT ![id] = NoAccount]
                /\ tokens' = tokens \ local[p].victims
                /\ Reply(p, IF Exists(id) THEN "ok" ELSE "refused")
                /\ UNCHANGED <<reset, fresh, known, req>>

-------------------------------------------------------------------------------
(* POST of the OpenID Connect login: a user who is not there is added with *)
(* a password nobody knows, and gets a token.                              *)
OicLogin(p) ==
    \E id \in Ids, mail \in BOOLEAN : Begin(p, "oic", id, 0, TRUE, mail, "count")

CountUser(p) ==
    /\ pc[p] = "count"
    /\ Read(p, "oicInsert")
    /\ local' = [local EXCEPT ![p].row = account[req[p].id].born]

OicInsert(p) ==
    LET id == req[p].id
    IN  /\ pc[p] = "oicInsert"
        /\ IF Exists(id) <=> local[p].row # 0
           THEN /\ Draw(p)
                /\ IF Exists(id)
                   THEN UNCHANGED account
                   ELSE account' = [account EXCEPT ![id] =
                          [born |-> fresh + 1, passwd |-> fresh + 1, link |-> 0,
                           mail |-> req[p].mail, stage |-> "none"]]
                /\ tokens' = tokens \cup {[id |-> id, n |-> fresh + 1, oic |-> TRUE]}
                /\ Goto(p, "tokenUser")
                /\ UNCHANGED <<reset, known, req, outcome>>
           ELSE Conflict(p)

-------------------------------------------------------------------------------
(* A statement or a commit fails: the running transaction is rolled back   *)
(* and the request ends. (A mail that fails: MailFails.)                   *)
Fail(p) ==
    /\ Failures
    /\ pc[p] \notin {"idle", "mail"}
    /\ Reply(p, "error")
    /\ UNCHANGED <<account, reset, tokens, fresh, known, req>>

Start(p) ==
    \/ Register(p) \/ Actual(p) \/ InitReset(p) \/ Reset(p) \/ Change(p)
    \/ Publish(p) \/ Remove(p) \/ RemoveAll(p) \/ Delete(p) \/ OicLogin(p)

Step(p) ==
    \/ InsertStage(p) \/ InsertExists(p) \/ Insert(p)
    \/ SendMail(p) \/ MailFails(p)
    \/ ValidPreToken(p) \/ ActualRegister(p)
    \/ GetMailAddress(p) \/ IsPreRegister(p) \/ DeleteReset(p) \/ InsertReset(p)
    \/ ValidResetToken(p) \/ GetUserId(p) \/ ResetPassword(p)
    \/ CheckStage(p) \/ CheckPasswd(p) \/ ChangePassword(p)
    \/ DeleteTokens(p) \/ InsertToken(p) \/ TokenUser(p) \/ RemoveTokens(p)
    \/ DeleteUser(p)
    \/ CountUser(p) \/ OicInsert(p)
    \/ Fail(p)

Next == \E p \in Procs : Start(p) \/ Step(p)

Spec == Init /\ [][Next]_vars

-------------------------------------------------------------------------------
Labels ==
    {"idle", "stage", "exists", "insert", "mail", "validPre", "activate", "getMail",
     "isPre", "deleteReset", "insertReset", "validReset", "getUserId", "resetPasswd",
     "checkStage", "checkPasswd", "change", "deleteTokens", "insertToken",
     "tokenUser", "remove", "deleteUser", "count", "oicInsert"}

TypeOK ==
    /\ account \in [Ids -> Account]
    /\ reset \in [Ids -> Secret]
    /\ tokens \subseteq Token
    /\ fresh \in Secret
    /\ known \subseteq Known
    /\ pc \in [Procs -> Labels]
    /\ req \in [Procs -> Request]
    /\ local \in [Procs -> Local]
    /\ outcome \in [Procs -> {"none", "ok", "refused", "unsent", "constraint", "error"}]

-------------------------------------------------------------------------------
(* What holds where requests that concern the same id do not overlap. *)

(* While an account is only pre-registered nothing can be done with it: no *)
(* request has got a token with its password or begun to reset it          *)
(* ("仮登録ユーザーの場合はパスワードが正しい場合でもfalse", FWLoginManager).       *)
PreRegisteredLocked ==
    \A id \in Ids : account[id].stage = "pre" =>
        reset[id] = 0 /\ \A t \in TokensOf(id) : t.oic

(* An account that is not, or no longer, only pre-registered stays until   *)
(* it is deleted: register replaces pre-registrations alone.               *)
KeepsActivated ==
    [][\A id \in Ids :
          /\ Exists(id)
          /\ account[id].stage # "pre"
          /\ account'[id].born # account[id].born
          => \E p \in Procs : pc[p] = "deleteUser" /\ req[p].id = id]_vars

(* An account is activated by the link that was mailed last for its id,    *)
(* however often it has been pre-registered                                *)
(* ("仮登録を繰り返した場合は最後に発行されたトークンのみ有効", user.rst).           *)
ActivatedByLast ==
    [][\A p \in Procs :
          pc[p] = "activate" /\ outcome'[p] = "ok"
          => \A k \in known : k.kind = "link" /\ k.id = req[p].id => k.n <= req[p].n]_vars

(* No constraint of the database stands in the way of a registration: what *)
(* a pre-registration left behind never blocks the next one, unless an     *)
(* OpenID Connect login has been given a token for the id.                 *)
RegisterUnblocked ==
    [][\A p \in Procs :
          pc[p] = "insert" /\ outcome'[p] = "constraint"
          => \E t \in TokensOf(req[p].id) : t.oic]_vars

(* The life of an account, from pre-registration to deletion.              *)
AccountLife == KeepsActivated /\ ActivatedByLast /\ RegisterUnblocked

(* A request that is answered with success has done what it was asked to,  *)
(* and its user has been told what she needs to know.                      *)
Told(kind, p) == [kind |-> kind, id |-> req[p].id, n |-> local'[p].drawn] \in known'

Done(p) ==
    LET a == account'[req[p].id]
        n == local'[p].drawn
        own == {t \in tokens' : t.id = req[p].id}
    IN  CASE req[p].op = "register" ->
               /\ a.born = n /\ a.passwd = n /\ Told("passwd", p)
               /\ req[p].flag => a.stage = "pre" /\ a.link = n /\ Told("link", p)
          [] req[p].op = "actual" -> a.stage = "registered"
          [] req[p].op = "initReset" -> reset'[req[p].id] = n /\ Told("reset", p)
          [] req[p].op = "reset" -> a.passwd = n /\ reset'[req[p].id] = 0 /\ Told("passwd", p)
          [] req[p].op = "change" -> a.passwd = n /\ Told("passwd", p)
          [] req[p].op = "publish" ->
               /\ \E t \in own : t.n = n
               /\ ~req[p].flag => Cardinality(own) = 1
          [] req[p].op \in {"delete", "removeAll"} -> own = {}
          [] OTHER -> TRUE

ReportIsTrue ==
    [][\A p \in Procs : outcome[p] # "ok" /\ outcome'[p] = "ok" => Done(p)]_vars

===============================================================================
