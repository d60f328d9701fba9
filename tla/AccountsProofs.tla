---------------------------- MODULE AccountsProofs ----------------------------
(***************************************************************************)
(* What TLAPS proves about Accounts, for any number of requests and ids,   *)
(* and any bound of the numbers drawn.                                     *)
(***************************************************************************)
EXTENDS Accounts, FiniteSetTheorems, TLAPS

-------------------------------------------------------------------------------
(* The steps of each request. *)
StepsOf(op) ==
    CASE op = "register" -> {"stage", "exists", "insert", "mail"}
      [] op = "actual" -> {"validPre", "activate"}
      [] op = "initReset" -> {"getMail", "isPre", "deleteReset", "insertReset", "mail"}
      [] op = "reset" -> {"validReset", "getUserId", "resetPasswd", "mail"}
      [] op = "change" -> {"checkStage", "checkPasswd", "change"}
      [] op = "publish" -> {"checkStage", "checkPasswd", "deleteTokens", "insertToken", "tokenUser"}
      [] op = "remove" -> {"remove"}
      [] op = "removeAll" -> {"remove"}
      [] op = "delete" -> {"deleteTokens", "deleteUser"}
      [] op = "oic" -> {"count", "oicInsert", "tokenUser"}
      [] op = "none" -> {}

Busy(p) == pc[p] # "idle"

OnPath(p) == Busy(p) => pc[p] \in StepsOf(req[p].op) /\ outcome[p] = "none"

(* Numbers suffice for the requests that have yet to draw theirs.          *)
Drawers == {q \in Procs : Busy(q) /\ req[q].op \in Drawing}
Waiting == {q \in Drawers : pc[q] \notin {"mail", "tokenUser"}}

Suffices == IsFiniteSet(Drawers) /\ fresh + Cardinality(Waiting) <= MaxFresh

(* What holds overlapped or not. *)
TInv == TypeOK /\ (\A p \in Procs : OnPath(p)) /\ Suffices

-------------------------------------------------------------------------------
(* Where requests for the same id do not overlap: the rows of an id. The   *)
(* links that are known are older than the one that is valid.              *)
Rows(id) ==
    LET a == account[id] IN
    /\ ~Exists(id) => reset[id] = 0 /\ TokensOf(id) = {}
    /\ Exists(id) => a.born # 0
    /\ a.stage = "pre" => a.link # 0 /\ reset[id] = 0 /\ \A t \in TokensOf(id) : t.oic
    /\ a.link # 0 => \A k \in known : k.kind = "link" /\ k.id = id => k.n <= a.link

Alone(p) == \A q \in Procs \ {p} : Busy(p) /\ Busy(q) => req[q].id # req[p].id

(* What a request has read is still so at its next steps.                  *)
Current(p) ==
    LET id == req[p].id
        a == account[id]
        l == local[p]
    IN
    /\ pc[p] \in {"stage", "exists"} => l.row = 0
    /\ pc[p] = "insert" => IF l.row # 0 THEN a.stage = "pre" ELSE ~Exists(id)
    /\ pc[p] \in {"deleteReset", "insertReset", "checkPasswd", "change", "insertToken"}
         => a.stage # "pre"
    /\ pc[p] = "deleteTokens" /\ req[p].op = "publish" => a.stage # "pre"
    /\ pc[p] \in {"getUserId", "resetPasswd"} => reset[id] = req[p].n /\ reset[id] # 0
    /\ pc[p] = "resetPasswd" => l.row = req[p].n
    /\ \A t \in l.victims : t.id = id
    /\ pc[p] = "insertToken" /\ ~req[p].flag => TokensOf(id) \subseteq l.victims

(* What a request has done, until it is answered.                          *)
Committed(p) ==
    LET id == req[p].id
        a == account[id]
        n == local[p].drawn
    IN
    /\ pc[p] = "mail" /\ req[p].op = "register" =>
          /\ a.born = n /\ a.passwd = n /\ a.link = n /\ a.stage = "pre"
          /\ [kind |-> "passwd", id |-> id, n |-> n] \in known
    /\ pc[p] = "mail" /\ req[p].op = "initReset" => reset[id] = n
    /\ pc[p] = "mail" /\ req[p].op = "reset" => a.passwd = n /\ reset[id] = 0
    /\ pc[p] = "tokenUser" /\ req[p].op = "publish" =>
          /\ [id |-> id, n |-> n, oic |-> FALSE] \in tokens
          /\ ~req[p].flag => TokensOf(id) = {[id |-> id, n |-> n, oic |-> FALSE]}

SInv ==
    /\ \A k \in known : k.n <= fresh
    /\ \A id \in Ids : Rows(id)
    /\ \A p \in Procs : Alone(p) /\ Current(p) /\ Committed(p) /\ local[p].drawn <= fresh

AInv == TInv /\ (Serialized => SInv)

-------------------------------------------------------------------------------
(* Types. *)

Outcomes == {"none", "ok", "refused", "unsent", "constraint", "error"}

LEMMA Blank ==
    /\ MaxFresh \in Nat /\ 0 \in Secret /\ Secret \subseteq Nat
    /\ NoAccount \in Account /\ NoLocal \in Local /\ NoRequest \in Request
<1>1. MaxFresh \in Nat /\ Ids # {} /\ 0 \in Secret /\ Secret \subseteq Nat
  BY AccountsAssumption DEF Secret
<1>2. NoAccount \in Account /\ NoLocal \in Local
  BY <1>1 DEF NoAccount, Account, NoLocal, Local
<1>3. NoRequest \in Request
  <2>1. (CHOOSE id \in Ids : TRUE) \in Ids
    BY <1>1
  <2>2. QED
    BY <1>1, <2>1 DEF NoRequest, Request
<1>4. QED
  BY <1>1, <1>2, <1>3

(* Which request is at a step.                                             *)
LEMMA Paths ==
    ASSUME NEW p \in Procs, req[p] \in Request, OnPath(p), Busy(p)
    PROVE  /\ pc[p] \in StepsOf(req[p].op) /\ outcome[p] = "none"
           /\ pc[p] \in {"stage", "exists", "insert"} => req[p].op = "register"
           /\ pc[p] = "mail" => req[p].op \in {"register", "initReset", "reset"}
           /\ pc[p] \in {"validPre", "activate"} => req[p].op = "actual"
           /\ pc[p] \in {"getMail", "isPre", "deleteReset", "insertReset"}
                => req[p].op = "initReset"
           /\ pc[p] \in {"validReset", "getUserId", "resetPasswd"} => req[p].op = "reset"
           /\ pc[p] \in {"checkStage", "checkPasswd"} => req[p].op \in {"change", "publish"}
           /\ pc[p] = "change" => req[p].op = "change"
           /\ pc[p] = "deleteTokens" => req[p].op \in {"publish", "delete"}
           /\ pc[p] = "insertToken" => req[p].op = "publish"
           /\ pc[p] = "tokenUser" => req[p].op \in {"publish", "oic"}
           /\ pc[p] = "remove" => req[p].op \in {"remove", "removeAll"}
           /\ pc[p] = "deleteUser" => req[p].op = "delete"
           /\ pc[p] \in {"count", "oicInsert"} => req[p].op = "oic"
<1>1. req[p].op \in AllOps \cup {"none"}
  BY DEF Request
<1>2. pc[p] \in StepsOf(req[p].op) /\ outcome[p] = "none"
  BY DEF OnPath
<1>3. QED
  BY <1>1, <1>2 DEF AllOps, StepsOf

(* The number that a request draws is within the bound.                    *)
LEMMA NextNumber ==
    ASSUME TInv, NEW p \in Waiting
    PROVE  fresh + 1 \in Secret /\ fresh + 1 # 0
<1>1. IsFiniteSet(Waiting)
  BY FS_Subset DEF TInv, Suffices, Waiting
<1>2. Cardinality(Waiting) \in Nat /\ Cardinality(Waiting) # 0
  BY <1>1, FS_CardinalityType, FS_EmptySet
<1>3. fresh \in Nat /\ MaxFresh \in Nat /\ fresh + Cardinality(Waiting) <= MaxFresh
  BY Blank DEF TInv, TypeOK, Suffices
<1>4. QED
  BY <1>2, <1>3 DEF Secret

(* What every step of a request looks like.                                *)
Went(p) ==
    /\ pc' = [pc EXCEPT ![p] = pc'[p]]
    /\ local' = [local EXCEPT ![p] = local'[p]]
    /\ outcome' = [outcome EXCEPT ![p] = outcome'[p]]
    /\ req' = req
    /\ Busy(p)
    /\ pc'[p] = "idle" \/ (pc'[p] \in StepsOf(req[p].op) /\ outcome'[p] = "none")
    /\ pc[p] \in {"mail", "tokenUser"} => pc'[p] = "idle"
    /\ \/ fresh' = fresh
       \/ fresh' = fresh + 1 /\ p \in Waiting /\ pc'[p] \in {"idle", "mail", "tokenUser"}

Typed(p) ==
    /\ local'[p] \in Local /\ outcome'[p] \in Outcomes
    /\ account' \in [Ids -> Account]
    /\ reset' \in [Ids -> Secret]
    /\ tokens' \subseteq Token
    /\ known' \subseteq Known

LEMMA FewerWaiting ==
    ASSUME TInv, NEW p \in Procs, Went(p)
    PROVE  Suffices' /\ fresh' \in Secret
<1> USE DEF Went
<1>1. \A q \in Procs : q # p => pc'[q] = pc[q] /\ req'[q] = req[q]
  BY DEF TInv, TypeOK
<1>2. Drawers' \subseteq Drawers /\ Waiting' \subseteq Waiting /\ Waiting \subseteq Drawers
  BY <1>1 DEF Drawers, Waiting, Busy
<1>3. IsFiniteSet(Drawers) /\ IsFiniteSet(Waiting) /\ IsFiniteSet(Drawers') /\ IsFiniteSet(Waiting')
  <2>1. IsFiniteSet(Drawers)
    BY DEF TInv, Suffices
  <2>2. QED
    BY <1>2, <2>1, FS_Subset
<1>4. /\ Cardinality(Waiting) \in Nat /\ Cardinality(Waiting') \in Nat
      /\ fresh \in Nat /\ MaxFresh \in Nat /\ fresh + Cardinality(Waiting) <= MaxFresh
      /\ Cardinality(Waiting') <= Cardinality(Waiting)
  BY <1>2, <1>3, FS_CardinalityType, FS_Subset, Blank DEF TInv, TypeOK, Suffices
<1>5. CASE fresh' = fresh
  BY <1>3, <1>4, <1>5 DEF Suffices, Secret
<1>6. CASE fresh' = fresh + 1 /\ p \in Waiting /\ pc'[p] \in {"idle", "mail", "tokenUser"}
  <2>1. Waiting' \subseteq Waiting \ {p}
    BY <1>2, <1>6 DEF Waiting, Drawers, Busy
  <2>2. IsFiniteSet(Waiting \ {p}) /\ Cardinality(Waiting \ {p}) = Cardinality(Waiting) - 1
    BY <1>3, <1>6, FS_RemoveElement
  <2>3. Cardinality(Waiting') <= Cardinality(Waiting \ {p})
    BY <2>1, <2>2, FS_Subset
  <2>4. QED
    BY <1>3, <1>4, <1>6, <2>2, <2>3 DEF Suffices, Secret
<1>7. QED
  BY <1>5, <1>6

LEMMA StepTyped ==
    ASSUME TInv, NEW p \in Procs, Went(p), Typed(p)
    PROVE  TInv'
<1>1. Suffices' /\ fresh' \in Secret
  BY FewerWaiting
<1>2. req[p].op \in AllOps \cup {"none"} /\ req' = req
  BY DEF TInv, TypeOK, Request, Went
<1>3. StepsOf(req[p].op) \subseteq Labels
  BY <1>2 DEF StepsOf, Labels, AllOps
<1>4. pc'[p] \in Labels
  BY <1>3 DEF Went, Labels
<1>5. TypeOK'
  BY <1>1, <1>4 DEF TInv, TypeOK, Went, Typed, Outcomes
<1>6. ASSUME NEW q \in Procs PROVE OnPath(q)'
  <2>1. CASE q = p
    BY <2>1 DEF Went, OnPath, Busy
  <2>2. CASE q # p
    <3>1. pc'[q] = pc[q] /\ outcome'[q] = outcome[q] /\ req' = req
      BY <2>2 DEF TInv, TypeOK, Went
    <3>2. QED
      BY <3>1 DEF TInv, OnPath, Busy
  <2>3. QED
    BY <2>1, <2>2
<1>7. QED
  BY <1>1, <1>5, <1>6 DEF TInv

(* What each step does to the request that takes it.                       *)
LEMMA ReplyWent ==
    ASSUME TInv, NEW p \in Procs, NEW o \in Outcomes, Busy(p), Reply(p, o), req' = req
    PROVE  /\ pc'[p] = "idle" /\ outcome'[p] = o
           /\ local'[p] = [local[p] EXCEPT !.row = 0, !.victims = {}]
           /\ pc' = [pc EXCEPT ![p] = pc'[p]]
           /\ local' = [local EXCEPT ![p] = local'[p]]
           /\ outcome' = [outcome EXCEPT ![p] = outcome'[p]]
           /\ local'[p] \in Local
           /\ fresh' = fresh => Went(p)
<1>1. local[p] \in Local /\ local \in [Procs -> Local] /\ pc \in [Procs -> Labels]
      /\ outcome \in [Procs -> Outcomes]
  BY DEF TInv, TypeOK, Outcomes
<1>2. local' = [local EXCEPT ![p] = [local[p] EXCEPT !.row = 0, !.victims = {}]]
  BY <1>1 DEF Reply, Local
<1>3. [local[p] EXCEPT !.row = 0, !.victims = {}] \in Local
  BY <1>1, Blank DEF Local
<1>4. pc' = [pc EXCEPT ![p] = "idle"] /\ outcome' = [outcome EXCEPT ![p] = o]
  BY DEF Reply, Goto
<1> DEFINE x == [local[p] EXCEPT !.row = 0, !.victims = {}]
<1> HIDE DEF x
<1>5. local' = [local EXCEPT ![p] = x] /\ x \in Local
  BY <1>2, <1>3 DEF x
<1>6. /\ pc'[p] = "idle" /\ outcome'[p] = o /\ local'[p] = x
      /\ pc' = [pc EXCEPT ![p] = pc'[p]]
      /\ local' = [local EXCEPT ![p] = local'[p]]
      /\ outcome' = [outcome EXCEPT ![p] = outcome'[p]]
  BY <1>1, <1>4, <1>5
<1>7. fresh' = fresh => Went(p)
  BY <1>6 DEF Went
<1>8. QED
  BY <1>5, <1>6, <1>7 DEF x

LEMMA RefuseWent ==
    ASSUME TInv, NEW p \in Procs, Busy(p), Refuse(p) \/ Conflict(p)
    PROVE  /\ Went(p) /\ Typed(p)
           /\ pc'[p] = "idle" /\ local'[p] = [local[p] EXCEPT !.row = 0, !.victims = {}]
           /\ outcome'[p] \in {"refused", "constraint"}
           /\ UNCHANGED <<account, reset, tokens, fresh, known, req>>
<1>1. PICK o \in {"refused", "constraint"} : Reply(p, o)
  BY DEF Refuse, Conflict
<1>2. UNCHANGED <<account, reset, tokens, fresh, known, req>>
  BY DEF Refuse, Conflict
<1>3. o \in Outcomes
  BY DEF Outcomes
<1>4. QED
  BY <1>1, <1>2, <1>3, ReplyWent DEF Typed, TInv, TypeOK

LEMMA ReadWent ==
    ASSUME TInv, NEW p \in Procs, NEW label, Busy(p), Read(p, label),
           label \in StepsOf(req[p].op), pc[p] \notin {"mail", "tokenUser"},
           NEW x \in Local, local' = [local EXCEPT ![p] = x]
    PROVE  /\ Went(p) /\ Typed(p)
           /\ pc'[p] = label /\ local'[p] = x /\ outcome'[p] = outcome[p]
           /\ UNCHANGED <<account, reset, tokens, fresh, known, req>>
<1>1. local \in [Procs -> Local] /\ pc \in [Procs -> Labels] /\ outcome \in [Procs -> Outcomes]
  BY DEF TInv, TypeOK, Outcomes
<1>2. pc' = [pc EXCEPT ![p] = label] /\ outcome' = outcome
  BY DEF Read, Goto
<1>3. UNCHANGED <<account, reset, tokens, fresh, known, req>>
  BY DEF Read
<1>4. outcome[p] = "none"
  BY Paths DEF TInv, TypeOK
<1>5. QED
  BY <1>1, <1>2, <1>3, <1>4 DEF Typed, Went, TInv, TypeOK

LEMMA DrawWent ==
    ASSUME TInv, NEW p \in Waiting, Draw(p), req' = req,
           NEW label \in {"idle", "mail", "tokenUser"}, NEW o \in Outcomes,
           pc' = [pc EXCEPT ![p] = label], outcome' = [outcome EXCEPT ![p] = o],
           label # "idle" => label \in StepsOf(req[p].op) /\ o = "none"
    PROVE  /\ Went(p)
           /\ pc'[p] = label /\ outcome'[p] = o
           /\ local'[p] \in Local
           /\ local'[p].drawn = fresh + 1 /\ local'[p].row = 0 /\ local'[p].victims = {}
           /\ fresh' = fresh + 1 /\ fresh + 1 \in Secret /\ fresh + 1 # 0
<1>1. local \in [Procs -> Local] /\ pc \in [Procs -> Labels] /\ outcome \in [Procs -> Outcomes]
      /\ p \in Procs
  BY DEF TInv, TypeOK, Outcomes, Waiting, Drawers
<1>2. fresh + 1 \in Secret /\ fresh + 1 # 0
  BY NextNumber
<1>3. local' = [local EXCEPT ![p] = [NoLocal EXCEPT !.drawn = fresh + 1]] /\ fresh' = fresh + 1
  BY DEF Draw
<1>4. [NoLocal EXCEPT !.drawn = fresh + 1] = [row |-> 0, victims |-> {}, drawn |-> fresh + 1]
  BY DEF NoLocal
<1>5. Busy(p)
  BY DEF Waiting, Drawers
<1>6. pc[p] \notin {"mail", "tokenUser"}
  BY DEF Waiting
<1> DEFINE x == [row |-> 0, victims |-> {}, drawn |-> fresh + 1]
<1>7. x \in Local /\ x.drawn = fresh + 1 /\ x.row = 0 /\ x.victims = {}
  BY <1>2, Blank DEF Local
<1>8. local' = [local EXCEPT ![p] = x]
  BY <1>3, <1>4
<1> HIDE DEF x
<1>9. /\ pc'[p] = label /\ outcome'[p] = o /\ local'[p] = x
      /\ pc' = [pc EXCEPT ![p] = pc'[p]]
      /\ local' = [local EXCEPT ![p] = local'[p]]
      /\ outcome' = [outcome EXCEPT ![p] = outcome'[p]]
  BY <1>1, <1>8
<1>10. Went(p)
  BY <1>3, <1>5, <1>6, <1>9 DEF Went
<1>11. QED
  BY <1>2, <1>3, <1>7, <1>9, <1>10

LEMMA WaitsAt ==
    ASSUME TInv, NEW p \in Procs,
           pc[p] \in {"insert", "insertReset", "resetPasswd", "change", "insertToken", "oicInsert"}
    PROVE  p \in Waiting /\ Busy(p)
<1>1. Busy(p) /\ req[p] \in Request /\ OnPath(p)
  BY DEF Busy, TInv, TypeOK
<1>2. req[p].op \in Drawing
  BY <1>1, Paths DEF Drawing
<1>3. QED
  BY <1>1, <1>2 DEF Waiting, Drawers

LEMMA StepWent ==
    ASSUME TInv, NEW p \in Procs, Step(p)
    PROVE  Went(p) /\ Typed(p)
<1> DEFINE id == req[p].id
<1>1. /\ account \in [Ids -> Account] /\ reset \in [Ids -> Secret] /\ tokens \subseteq Token
      /\ known \subseteq Known /\ fresh \in Secret /\ req \in [Procs -> Request]
      /\ local \in [Procs -> Local] /\ pc \in [Procs -> Labels]
      /\ outcome \in [Procs -> Outcomes]
      /\ req[p] \in Request /\ local[p] \in Local /\ account[id] \in Account
      /\ id \in Ids /\ req[p].n \in Secret /\ req[p].flag \in BOOLEAN /\ req[p].mail \in BOOLEAN
      /\ req[p].op \in AllOps \cup {"none"}
      /\ local[p].row \in Secret /\ local[p].victims \in SUBSET Token
      /\ local[p].drawn \in Secret
  BY DEF TInv, TypeOK, Outcomes, Request, Local
<1>2. Busy(p) => /\ pc[p] \in StepsOf(req[p].op) /\ outcome[p] = "none"
                 /\ OnPath(p)
  BY <1>1, Paths DEF TInv
<1>3. ASSUME NEW label, Busy(p), Read(p, label), UNCHANGED local,
             label \in StepsOf(req[p].op), pc[p] \notin {"mail", "tokenUser"}
      PROVE  Went(p) /\ Typed(p)
  <2>1. local' = [local EXCEPT ![p] = local[p]]
    BY <1>1, <1>3
  <2>2. QED
    BY <1>1, <1>3, <2>1, ReadWent
<1>4. ASSUME NEW label, Busy(p), Read(p, label), NEW r \in Secret,
             local' = [local EXCEPT ![p].row = r],
             label \in StepsOf(req[p].op), pc[p] \notin {"mail", "tokenUser"}
      PROVE  Went(p) /\ Typed(p)
  <2>1. [local[p] EXCEPT !.row = r] \in Local
    BY <1>1, <1>4 DEF Local
  <2>2. local' = [local EXCEPT ![p] = [local[p] EXCEPT !.row = r]]
    BY <1>1, <1>4
  <2>3. QED
    BY <1>1, <1>4, <2>1, <2>2, ReadWent
<1>5. ASSUME NEW o \in Outcomes, Busy(p), Reply(p, o), req' = req, fresh' = fresh,
             account' \in [Ids -> Account], reset' \in [Ids -> Secret],
             tokens' \subseteq Token, known' \subseteq Known
      PROVE  Went(p) /\ Typed(p)
  BY <1>1, <1>5, ReplyWent DEF Typed
<1>6. ASSUME Refuse(p) \/ Conflict(p), Busy(p)
      PROVE  Went(p) /\ Typed(p)
  BY <1>6, RefuseWent
<1>7. ASSUME Draw(p), req' = req, p \in Waiting,
             NEW label \in {"idle", "mail", "tokenUser"}, NEW o \in Outcomes,
             pc' = [pc EXCEPT ![p] = label], outcome' = [outcome EXCEPT ![p] = o],
             label # "idle" => label \in StepsOf(req[p].op) /\ o = "none",
             account' \in [Ids -> Account], reset' \in [Ids -> Secret],
             tokens' \subseteq Token, known' \subseteq Known
      PROVE  Went(p) /\ Typed(p)
  BY <1>1, <1>7, DrawWent DEF Typed
<1>8. ASSUME Goto(p, "mail") \/ Goto(p, "tokenUser"), UNCHANGED outcome, Busy(p)
      PROVE  /\ \/ pc' = [pc EXCEPT ![p] = "mail"]
                \/ pc' = [pc EXCEPT ![p] = "tokenUser"]
             /\ outcome' = [outcome EXCEPT ![p] = "none"]
  BY <1>1, <1>2, <1>8 DEF Goto
<1>9. ASSUME NEW kind \in {"passwd", "link", "reset"}, NEW n \in Secret, HandOut(kind, id, n)
      PROVE  known' \subseteq Known
  <2>1. [kind |-> kind, id |-> id, n |-> n] \in Known
    BY <1>1 DEF Known
  <2>2. QED
    BY <1>1, <1>9, <2>1 DEF HandOut
<1>10. p \in Waiting => fresh + 1 \in Secret
  BY NextNumber
<1>11. /\ {"ok", "refused", "unsent", "constraint", "error", "none"} \subseteq Outcomes
       /\ 0 \in Secret
       /\ {"pre", "none", "registered"} = {"none", "pre", "registered"}
  BY Blank DEF Outcomes
<1>12. ASSUME NEW n \in Secret, account' = [account EXCEPT ![id].passwd = n]
       PROVE  account' \in [Ids -> Account]
  BY <1>1, <1>12 DEF Account
<1> HIDE DEF id
<1>a. CASE InsertStage(p)
  <2>1. Busy(p) /\ pc[p] = "stage" /\ req[p].op = "register"
    BY <1>1, <1>2, <1>a, Paths DEF InsertStage, Busy
  <2>2. {"insert", "exists"} \subseteq StepsOf(req[p].op)
    BY <2>1 DEF StepsOf
  <2>3. account[id].link \in Secret /\ account[id].stage \in {"none", "pre", "registered"}
    BY <1>1 DEF Account
  <2>4. \/ Refuse(p)
        \/ Read(p, "insert") /\ local' = [local EXCEPT ![p].row = account[id].link]
        \/ Read(p, "exists") /\ UNCHANGED local
    BY <1>a, <2>3 DEF InsertStage, id
  <2>5. QED
    BY <1>3, <1>4, <1>6, <2>1, <2>2, <2>3, <2>4
<1>b. CASE InsertExists(p)
  <2>1. Busy(p) /\ pc[p] = "exists" /\ req[p].op = "register"
    BY <1>1, <1>2, <1>b, Paths DEF InsertExists, Busy
  <2>2. "insert" \in StepsOf(req[p].op)
    BY <2>1 DEF StepsOf
  <2>3. QED
    BY <1>3, <1>6, <1>b, <2>1, <2>2 DEF InsertExists
<1>c. CASE Insert(p)
  <2>1. Busy(p) /\ pc[p] = "insert" /\ req[p].op = "register" /\ p \in Waiting
    BY <1>1, <1>2, <1>c, Paths, WaitsAt DEF Insert, Busy
  <2>2. CASE Conflict(p)
    BY <1>6, <2>1, <2>2
  <2>3. CASE ~Conflict(p)
    <3> DEFINE a == [born |-> fresh + 1, passwd |-> fresh + 1, mail |-> req[p].mail,
                     link  |-> IF req[p].flag THEN fresh + 1 ELSE 0,
                     stage |-> IF req[p].flag THEN "pre" ELSE "none"]
    <3>1. a \in Account
      BY <1>1, <1>10, <1>11, <2>1 DEF Account
    <3>2. account' = [account EXCEPT ![id] = a]
      BY <1>c, <2>3 DEF Insert, id
    <3> HIDE DEF a
    <3>3. account' \in [Ids -> Account]
      BY <1>1, <3>1, <3>2
    <3>4. Draw(p) /\ HandOut("passwd", id, fresh + 1) /\ UNCHANGED <<reset, tokens, req>>
      BY <1>c, <2>3 DEF Insert, id
    <3>5. known' \subseteq Known
      BY <1>9, <1>10, <2>1, <3>4
    <3>6. \/ Goto(p, "mail") /\ UNCHANGED outcome
          \/ Goto(p, "idle") /\ outcome' = [outcome EXCEPT ![p] = "ok"]
      BY <1>c, <2>3 DEF Insert
    <3>7. "mail" \in StepsOf(req[p].op)
      BY <2>1 DEF StepsOf
    <3>8. CASE Goto(p, "mail") /\ UNCHANGED outcome
      <4>1. pc' = [pc EXCEPT ![p] = "mail"] /\ outcome' = [outcome EXCEPT ![p] = "none"]
        BY <1>1, <1>2, <2>1, <3>8 DEF Goto
      <4>2. QED
        BY <1>1, <1>7, <1>11, <2>1, <3>3, <3>4, <3>5, <3>7, <4>1
    <3>9. CASE Goto(p, "idle") /\ outcome' = [outcome EXCEPT ![p] = "ok"]
      BY <1>1, <1>7, <1>11, <2>1, <3>3, <3>4, <3>5, <3>9 DEF Goto
    <3>10. QED
      BY <3>6, <3>8, <3>9
  <2>4. QED
    BY <2>2, <2>3
<1>d. CASE SendMail(p)
  <2>1. Busy(p) /\ req[p].op \in {"register", "initReset", "reset"}
    BY <1>1, <1>2, <1>d, Paths DEF SendMail, Busy
  <2>2. Mailed(req[p].op) \in {"passwd", "link", "reset"}
    BY <2>1 DEF Mailed
  <2>3. HandOut(Mailed(req[p].op), id, local[p].drawn)
    BY <1>d DEF SendMail, id
  <2>4. known' \subseteq Known
    BY <1>1, <1>9, <2>2, <2>3
  <2>5. QED
    BY <1>1, <1>5, <1>11, <1>d, <2>1, <2>4 DEF SendMail
<1>e. CASE MailFails(p)
  BY <1>1, <1>5, <1>11, <1>e DEF MailFails, Busy
<1>f. CASE ValidPreToken(p)
  <2>1. Busy(p) /\ pc[p] = "validPre" /\ req[p].op = "actual"
    BY <1>1, <1>2, <1>f, Paths DEF ValidPreToken, Busy
  <2>2. "activate" \in StepsOf(req[p].op)
    BY <2>1 DEF StepsOf
  <2>3. QED
    BY <1>3, <1>6, <1>f, <2>1, <2>2 DEF ValidPreToken
<1>g. CASE ActualRegister(p)
  <2>1. Busy(p)
    BY <1>g DEF ActualRegister, Busy
  <2>2. CASE Refuse(p)
    BY <1>6, <2>1, <2>2
  <2>3. CASE ~Refuse(p)
    <3>1. account' = [account EXCEPT ![id].stage = "registered"] /\ Reply(p, "ok")
          /\ UNCHANGED <<reset, tokens, fresh, known, req>>
      BY <1>g, <2>3 DEF ActualRegister, id
    <3>2. account' \in [Ids -> Account]
      BY <1>1, <1>11, <3>1 DEF Account
    <3>3. QED
      BY <1>1, <1>5, <1>11, <2>1, <3>1, <3>2
  <2>4. QED
    BY <2>2, <2>3
<1>h. CASE GetMailAddress(p)
  <2>1. Busy(p) /\ pc[p] = "getMail" /\ req[p].op = "initReset"
    BY <1>1, <1>2, <1>h, Paths DEF GetMailAddress, Busy
  <2>2. "isPre" \in StepsOf(req[p].op)
    BY <2>1 DEF StepsOf
  <2>3. QED
    BY <1>3, <1>6, <1>h, <2>1, <2>2 DEF GetMailAddress
<1>i. CASE IsPreRegister(p)
  <2>1. Busy(p) /\ pc[p] = "isPre" /\ req[p].op = "initReset"
    BY <1>1, <1>2, <1>i, Paths DEF IsPreRegister, Busy
  <2>2. "deleteReset" \in StepsOf(req[p].op)
    BY <2>1 DEF StepsOf
  <2>3. QED
    BY <1>3, <1>6, <1>i, <2>1, <2>2 DEF IsPreRegister
<1>j. CASE DeleteReset(p)
  <2>1. Busy(p) /\ pc[p] = "deleteReset" /\ req[p].op = "initReset"
    BY <1>1, <1>2, <1>j, Paths DEF DeleteReset, Busy
  <2>2. "insertReset" \in StepsOf(req[p].op)
    BY <2>1 DEF StepsOf
  <2>3. reset[id] \in Secret
    BY <1>1 DEF id
  <2>4. QED
    BY <1>4, <1>j, <2>1, <2>2, <2>3 DEF DeleteReset, id
<1>k. CASE InsertReset(p)
  <2>1. Busy(p) /\ pc[p] = "insertReset" /\ req[p].op = "initReset" /\ p \in Waiting
    BY <1>1, <1>2, <1>k, Paths, WaitsAt DEF InsertReset, Busy
  <2>2. CASE Conflict(p)
    BY <1>6, <2>1, <2>2
  <2>3. CASE ~Conflict(p)
    <3>1. /\ Draw(p) /\ reset' = [reset EXCEPT ![id] = fresh + 1] /\ Goto(p, "mail")
          /\ UNCHANGED <<account, tokens, known, req, outcome>>
      BY <1>k, <2>3 DEF InsertReset, id
    <3>2. reset' \in [Ids -> Secret]
      BY <1>1, <1>10, <2>1, <3>1
    <3>3. "mail" \in StepsOf(req[p].op)
      BY <2>1 DEF StepsOf
    <3>4. pc' = [pc EXCEPT ![p] = "mail"] /\ outcome' = [outcome EXCEPT ![p] = "none"]
      BY <1>1, <1>2, <2>1, <3>1 DEF Goto
    <3>5. QED
      BY <1>1, <1>7, <1>11, <2>1, <3>1, <3>2, <3>3, <3>4
  <2>4. QED
    BY <2>2, <2>3
<1>l. CASE ValidResetToken(p)
  <2>1. Busy(p) /\ pc[p] = "validReset" /\ req[p].op = "reset"
    BY <1>1, <1>2, <1>l, Paths DEF ValidResetToken, Busy
  <2>2. "getUserId" \in StepsOf(req[p].op)
    BY <2>1 DEF StepsOf
  <2>3. QED
    BY <1>3, <1>6, <1>l, <2>1, <2>2 DEF ValidResetToken
<1>m. CASE GetUserId(p)
  <2>1. Busy(p) /\ pc[p] = "getUserId" /\ req[p].op = "reset"
    BY <1>1, <1>2, <1>m, Paths DEF GetUserId, Busy
  <2>2. "resetPasswd" \in StepsOf(req[p].op)
    BY <2>1 DEF StepsOf
  <2> DEFINE r == IF HasReset(req[p].id, req[p].n) THEN req[p].n ELSE 0
  <2>3. r \in Secret
    BY <1>1, <1>11
  <2>4. Read(p, "resetPasswd") /\ local' = [local EXCEPT ![p].row = r]
    BY <1>m DEF GetUserId
  <2> HIDE DEF r
  <2>5. QED
    BY <1>4, <2>1, <2>2, <2>3, <2>4
<1>n. CASE ResetPassword(p)
  <2>1. Busy(p) /\ pc[p] = "resetPasswd" /\ req[p].op = "reset" /\ p \in Waiting
    BY <1>1, <1>2, <1>n, Paths, WaitsAt DEF ResetPassword, Busy
  <2>2. Draw(p)
    BY <1>n DEF ResetPassword
  <2>3. CASE local[p].row # 0 /\ Exists(id)
    <3>1. /\ account' = [account EXCEPT ![id].passwd = fresh + 1] /\ Goto(p, "mail")
          /\ \E r \in {0, reset[id]} : reset' = [reset EXCEPT ![id] = r]
          /\ UNCHANGED <<tokens, known, req, outcome>>
      BY <1>n, <2>3 DEF ResetPassword, id
    <3>2. reset' \in [Ids -> Secret]
      <4>1. reset[id] \in Secret
        BY <1>1 DEF id
      <4>2. QED
        BY <1>1, <1>11, <3>1, <4>1
    <3>3. account' \in [Ids -> Account]
      BY <1>10, <1>12, <2>1, <3>1
    <3>4. "mail" \in StepsOf(req[p].op)
      BY <2>1 DEF StepsOf
    <3>5. pc' = [pc EXCEPT ![p] = "mail"] /\ outcome' = [outcome EXCEPT ![p] = "none"]
      BY <1>1, <1>2, <2>1, <3>1 DEF Goto
    <3>6. QED
      BY <1>1, <1>7, <1>11, <2>1, <2>2, <3>1, <3>2, <3>3, <3>4, <3>5
  <2>4. CASE ~(local[p].row # 0 /\ Exists(id))
    <3>1. /\ Goto(p, "idle") /\ outcome' = [outcome EXCEPT ![p] = "ok"]
          /\ UNCHANGED <<account, reset, tokens, known, req>>
      BY <1>n, <2>4 DEF ResetPassword, id
    <3>2. QED
      BY <1>1, <1>7, <1>11, <2>1, <2>2, <3>1 DEF Goto
  <2>5. QED
    BY <2>3, <2>4
<1>o. CASE CheckStage(p)
  <2>1. Busy(p) /\ pc[p] = "checkStage" /\ req[p].op \in {"change", "publish"}
    BY <1>1, <1>2, <1>o, Paths DEF CheckStage, Busy
  <2>2. "checkPasswd" \in StepsOf(req[p].op)
    BY <2>1 DEF StepsOf
  <2>3. QED
    BY <1>3, <1>6, <1>o, <2>1, <2>2 DEF CheckStage
<1>q. CASE CheckPasswd(p)
  <2>1. Busy(p) /\ pc[p] = "checkPasswd" /\ req[p].op \in {"change", "publish"}
    BY <1>1, <1>2, <1>q, Paths DEF CheckPasswd, Busy
  <2> DEFINE l == IF req[p].op = "change" THEN "change" ELSE "deleteTokens"
  <2>2. l \in StepsOf(req[p].op)
    BY <2>1 DEF StepsOf
  <2>3. Refuse(p) \/ (Read(p, l) /\ UNCHANGED local)
    BY <1>q DEF CheckPasswd
  <2> HIDE DEF l
  <2>4. QED
    BY <1>3, <1>6, <2>1, <2>2, <2>3
<1>r. CASE ChangePassword(p)
  <2>1. Busy(p) /\ pc[p] = "change" /\ p \in Waiting
    BY <1>1, <1>2, <1>r, WaitsAt DEF ChangePassword, Busy
  <2>2. CASE Refuse(p)
    BY <1>6, <2>1, <2>2
  <2>3. CASE ~Refuse(p)
    <3>1. /\ Draw(p) /\ account' = [account EXCEPT ![id].passwd = fresh + 1]
          /\ HandOut("passwd", id, fresh + 1) /\ Goto(p, "idle")
          /\ outcome' = [outcome EXCEPT ![p] = "ok"] /\ UNCHANGED <<reset, tokens, req>>
      BY <1>r, <2>3 DEF ChangePassword, id
    <3>2. account' \in [Ids -> Account] /\ known' \subseteq Known
      BY <1>9, <1>10, <1>12, <2>1, <3>1
    <3>3. QED
      BY <1>1, <1>7, <1>11, <2>1, <3>1, <3>2 DEF Goto
  <2>4. QED
    BY <2>2, <2>3
<1>s. CASE DeleteTokens(p)
  <2>1. Busy(p) /\ pc[p] = "deleteTokens" /\ req[p].op \in {"publish", "delete"}
    BY <1>1, <1>2, <1>s, Paths DEF DeleteTokens, Busy
  <2> DEFINE l == IF req[p].op = "delete" THEN "deleteUser" ELSE "insertToken"
             v == IF req[p].flag THEN {} ELSE TokensOf(id)
             x == [local[p] EXCEPT !.victims = v]
  <2>2. l \in StepsOf(req[p].op)
    BY <2>1 DEF StepsOf
  <2>3. v \in SUBSET Token
    BY <1>1 DEF TokensOf
  <2>4. Read(p, l) /\ local' = [local EXCEPT ![p] = x]
    BY <1>1, <1>s DEF DeleteTokens, id
  <2> HIDE DEF v
  <2>5. x \in Local
    BY <1>1, <2>3 DEF Local
  <2> HIDE DEF x, l
  <2>6. QED
    BY <2>1, <2>2, <2>4, <2>5, ReadWent
<1>t. CASE InsertToken(p)
  <2>1. Busy(p) /\ pc[p] = "insertToken" /\ req[p].op = "publish" /\ p \in Waiting
    BY <1>1, <1>2, <1>t, Paths, WaitsAt DEF InsertToken, Busy
  <2>2. CASE Conflict(p)
    BY <1>6, <2>1, <2>2
  <2>3. CASE ~Conflict(p)
    <3>1. /\ Draw(p) /\ Goto(p, "tokenUser") /\ UNCHANGED <<account, reset, known, req, outcome>>
          /\ tokens' = (tokens \ local[p].victims)
                          \cup {[id |-> id, n |-> fresh + 1, oic |-> FALSE]}
      BY <1>t, <2>3 DEF InsertToken, id
    <3>2. [id |-> id, n |-> fresh + 1, oic |-> FALSE] \in Token
      BY <1>1, <1>10, <2>1 DEF Token
    <3>3. tokens' \subseteq Token
      BY <1>1, <3>1, <3>2
    <3>4. "tokenUser" \in StepsOf(req[p].op)
      BY <2>1 DEF StepsOf
    <3>5. pc' = [pc EXCEPT ![p] = "tokenUser"] /\ outcome' = [outcome EXCEPT ![p] = "none"]
      BY <1>1, <1>2, <2>1, <3>1 DEF Goto
    <3>6. QED
      BY <1>1, <1>7, <1>11, <2>1, <3>1, <3>3, <3>4, <3>5
  <2>4. QED
    BY <2>2, <2>3
<1>u. CASE TokenUser(p)
  <2>1. PICK o \in {"ok", "error"} : Reply(p, o)
    BY <1>u DEF TokenUser
  <2>2. Busy(p) /\ UNCHANGED <<account, reset, tokens, fresh, known, req>>
    BY <1>u DEF TokenUser, Busy
  <2>3. QED
    BY <1>1, <1>5, <1>11, <2>1, <2>2
<1>v. CASE RemoveTokens(p)
  BY <1>1, <1>5, <1>11, <1>v DEF RemoveTokens, Busy
<1>w. CASE DeleteUser(p)
  <2>1. Busy(p)
    BY <1>w DEF DeleteUser, Busy
  <2>2. CASE Conflict(p)
    BY <1>6, <2>1, <2>2
  <2>3. CASE ~Conflict(p)
    <3>1. /\ account' = [account EXCEPT ![id] = NoAccount]
          /\ tokens' = tokens \ local[p].victims
          /\ UNCHANGED <<reset, fresh, known, req>>
      BY <1>w, <2>3 DEF DeleteUser, id
    <3>2. PICK o \in {"ok", "refused"} : Reply(p, o)
      BY <1>w, <2>3 DEF DeleteUser
    <3>3. account' \in [Ids -> Account]
      BY <1>1, <3>1, Blank
    <3>4. QED
      BY <1>1, <1>5, <1>11, <2>1, <3>1, <3>2, <3>3
  <2>4. QED
    BY <2>2, <2>3
<1>x. CASE CountUser(p)
  <2>1. Busy(p) /\ pc[p] = "count" /\ req[p].op = "oic"
    BY <1>1, <1>2, <1>x, Paths DEF CountUser, Busy
  <2>2. "oicInsert" \in StepsOf(req[p].op)
    BY <2>1 DEF StepsOf
  <2>3. account[id].born \in Secret
    BY <1>1 DEF Account
  <2>4. Read(p, "oicInsert") /\ local' = [local EXCEPT ![p].row = account[id].born]
    BY <1>x DEF CountUser, id
  <2>5. QED
    BY <1>4, <2>1, <2>2, <2>3, <2>4
<1>y. CASE OicInsert(p)
  <2>1. Busy(p) /\ pc[p] = "oicInsert" /\ req[p].op = "oic" /\ p \in Waiting
    BY <1>1, <1>2, <1>y, Paths, WaitsAt DEF OicInsert, Busy
  <2>2. CASE Conflict(p)
    BY <1>6, <2>1, <2>2
  <2>3. CASE ~Conflict(p)
    <3> DEFINE a == [born |-> fresh + 1, passwd |-> fresh + 1, link |-> 0,
                     mail |-> req[p].mail, stage |-> "none"]
    <3>1. a \in Account
      BY <1>1, <1>10, <1>11, <2>1 DEF Account
    <3>2. account' = account \/ account' = [account EXCEPT ![id] = a]
      BY <1>y, <2>3 DEF OicInsert, id
    <3> HIDE DEF a
    <3>3. account' \in [Ids -> Account]
      BY <1>1, <3>1, <3>2
    <3>4. /\ Draw(p) /\ Goto(p, "tokenUser") /\ UNCHANGED <<reset, known, req, outcome>>
          /\ tokens' = tokens \cup {[id |-> id, n |-> fresh + 1, oic |-> TRUE]}
      BY <1>y, <2>3 DEF OicInsert, id
    <3>5. [id |-> id, n |-> fresh + 1, oic |-> TRUE] \in Token
      BY <1>1, <1>10, <2>1 DEF Token
    <3>6. tokens' \subseteq Token
      BY <1>1, <3>4, <3>5
    <3>7. "tokenUser" \in StepsOf(req[p].op)
      BY <2>1 DEF StepsOf
    <3>8. pc' = [pc EXCEPT ![p] = "tokenUser"] /\ outcome' = [outcome EXCEPT ![p] = "none"]
      BY <1>1, <1>2, <2>1, <3>4 DEF Goto
    <3>9. QED
      BY <1>1, <1>7, <1>11, <2>1, <3>3, <3>4, <3>6, <3>7, <3>8
  <2>4. QED
    BY <2>2, <2>3
<1>z. CASE Fail(p)
  <2>1. Busy(p) /\ Reply(p, "error") /\ UNCHANGED <<account, reset, tokens, fresh, known, req>>
    BY <1>z DEF Fail, Busy
  <2>2. QED
    BY <1>1, <1>5, <1>11, <2>1
<1>99. QED
  BY <1>a, <1>b, <1>c, <1>d, <1>e, <1>f, <1>g, <1>h, <1>i, <1>j, <1>k, <1>l, <1>m, <1>n,
     <1>o, <1>q, <1>r, <1>s, <1>t, <1>u, <1>v, <1>w, <1>x, <1>y, <1>z DEF Step

(* Where each request begins.                                              *)
Begins(p, op, id, n, flag, mail) ==
    \E label \in StepsOf(op) :
        /\ label \in {"stage", "validPre", "getMail", "validReset", "checkStage",
                      "remove", "deleteTokens", "count"}
        /\ label = "deleteTokens" => op = "delete"
        /\ Begin(p, op, id, n, flag, mail, label)

LEMMA StartBegins ==
    ASSUME TInv, NEW p \in Procs, Start(p)
    PROVE  \E op \in AllOps, id \in Ids, n \in Secret, flag, mail \in BOOLEAN :
               Begins(p, op, id, n, flag, mail)
<1>1. ASSUME NEW op \in AllOps, NEW id \in Ids, NEW n \in Secret,
             NEW flag \in BOOLEAN, NEW mail \in BOOLEAN,
             NEW label \in StepsOf(op), Begin(p, op, id, n, flag, mail, label),
             label \in {"stage", "validPre", "getMail", "validReset", "checkStage",
                        "remove", "deleteTokens", "count"},
             label = "deleteTokens" => op = "delete"
      PROVE  \E op1 \in AllOps, id1 \in Ids, n1 \in Secret, flag1, mail1 \in BOOLEAN :
                 Begins(p, op1, id1, n1, flag1, mail1)
  <2>1. Begins(p, op, id, n, flag, mail)
    BY <1>1 DEF Begins
  <2>2. QED
    BY <2>1
<1>2. /\ AllOps = {"register", "actual", "initReset", "reset", "change", "publish",
                   "remove", "removeAll", "delete", "oic"}
      /\ "stage" \in StepsOf("register") /\ "validPre" \in StepsOf("actual")
      /\ "getMail" \in StepsOf("initReset") /\ "validReset" \in StepsOf("reset")
      /\ "checkStage" \in StepsOf("change") /\ "checkStage" \in StepsOf("publish")
      /\ "remove" \in StepsOf("remove") /\ "remove" \in StepsOf("removeAll")
      /\ "deleteTokens" \in StepsOf("delete") /\ "count" \in StepsOf("oic")
  BY DEF AllOps, StepsOf
<1>3. \A k \in known : k.id \in Ids /\ k.n \in Secret
  BY DEF TInv, TypeOK, Known
<1>4. \A t \in tokens : t.id \in Ids /\ t.n \in Secret
  BY DEF TInv, TypeOK, Token
<1>5. 0 \in Secret
  BY Blank
<1>6. CASE Register(p)
  <2>1. PICK id \in Ids, pre \in BOOLEAN, mail \in BOOLEAN :
            Begin(p, "register", id, 0, pre, mail, "stage")
    BY <1>6 DEF Register
  <2>2. QED
    BY <1>1, <1>2, <1>5, <2>1
<1>7. CASE Actual(p)
  <2>1. PICK k \in known : Begin(p, "actual", k.id, k.n, FALSE, FALSE, "validPre")
    BY <1>7 DEF Actual
  <2>2. QED
    BY <1>1, <1>2, <1>3, <2>1
<1>8. CASE InitReset(p)
  <2>1. PICK id \in Ids : Begin(p, "initReset", id, 0, FALSE, FALSE, "getMail")
    BY <1>8 DEF InitReset
  <2>2. QED
    BY <1>1, <1>2, <1>5, <2>1
<1>9. CASE Reset(p)
  <2>1. PICK k \in known : Begin(p, "reset", k.id, k.n, FALSE, FALSE, "validReset")
    BY <1>9 DEF Reset
  <2>2. QED
    BY <1>1, <1>2, <1>3, <2>1
<1>10. CASE Change(p)
  <2>1. PICK k \in known : Begin(p, "change", k.id, k.n, FALSE, FALSE, "checkStage")
    BY <1>10 DEF Change
  <2>2. QED
    BY <1>1, <1>2, <1>3, <2>1
<1>11. CASE Publish(p)
  <2>1. PICK k \in known, multiple \in BOOLEAN :
            Begin(p, "publish", k.id, k.n, multiple, FALSE, "checkStage")
    BY <1>11 DEF Publish
  <2>2. QED
    BY <1>1, <1>2, <1>3, <2>1
<1>12. CASE Remove(p)
  <2>1. PICK t \in tokens : Begin(p, "remove", t.id, t.n, FALSE, FALSE, "remove")
    BY <1>12 DEF Remove
  <2>2. QED
    BY <1>1, <1>2, <1>4, <2>1
<1>13. CASE RemoveAll(p)
  <2>1. PICK id \in Ids : Begin(p, "removeAll", id, 0, FALSE, FALSE, "remove")
    BY <1>13 DEF RemoveAll
  <2>2. QED
    BY <1>1, <1>2, <1>5, <2>1
<1>14. CASE Delete(p)
  <2>1. PICK id \in Ids : Begin(p, "delete", id, 0, FALSE, FALSE, "deleteTokens")
    BY <1>14 DEF Delete
  <2>2. QED
    BY <1>1, <1>2, <1>5, <2>1
<1>15. CASE OicLogin(p)
  <2>1. PICK id \in Ids, mail \in BOOLEAN : Begin(p, "oic", id, 0, TRUE, mail, "count")
    BY <1>15 DEF OicLogin
  <2>2. QED
    BY <1>1, <1>2, <1>5, <2>1
<1>16. QED
  BY <1>6, <1>7, <1>8, <1>9, <1>10, <1>11, <1>12, <1>13, <1>14, <1>15 DEF Start

LEMMA BeginTyped ==
    ASSUME TInv, NEW p \in Procs, NEW op \in AllOps, NEW id \in Ids, NEW n \in Secret,
           NEW flag \in BOOLEAN, NEW mail \in BOOLEAN, Begins(p, op, id, n, flag, mail)
    PROVE  TInv'
<1>1. PICK label \in StepsOf(op) :
          /\ label \in {"stage", "validPre", "getMail", "validReset", "checkStage",
                        "remove", "deleteTokens", "count"}
          /\ Begin(p, op, id, n, flag, mail, label)
  BY DEF Begins
<1> DEFINE r == [op |-> op, id |-> id, n |-> n, flag |-> flag, mail |-> mail]
<1>2. /\ pc' = [pc EXCEPT ![p] = label] /\ req' = [req EXCEPT ![p] = r]
      /\ local' = [local EXCEPT ![p] = NoLocal] /\ outcome' = [outcome EXCEPT ![p] = "none"]
      /\ UNCHANGED <<account, reset, tokens, fresh, known>>
      /\ pc[p] = "idle" /\ Drawn(op)
  BY <1>1 DEF Begin, Goto
<1>3. r \in Request /\ r.op = op
  BY DEF Request
<1>4. label \in Labels /\ label # "idle"
  BY <1>1 DEF Labels
<1> HIDE DEF r
<1>5. TypeOK'
  BY <1>2, <1>3, <1>4, Blank DEF TInv, TypeOK
<1>6. ASSUME NEW q \in Procs PROVE OnPath(q)'
  BY <1>1, <1>2, <1>3 DEF TInv, TypeOK, OnPath, Busy
<1>7. Suffices'
  <2>1. \A q \in Procs : q # p => pc'[q] = pc[q] /\ req'[q] = req[q]
    BY <1>2 DEF TInv, TypeOK
  <2>2. req'[p].op = op /\ p \notin Drawers
    BY <1>2, <1>3 DEF TInv, TypeOK, Drawers, Busy
  <2>3. Waiting \subseteq Drawers
    BY DEF Waiting
  <2>4. CASE op \in Drawing
    <3>1. Drawers' \subseteq Drawers \cup {p} /\ Waiting' \subseteq Waiting \cup {p}
      BY <2>1 DEF Drawers, Waiting, Busy
    <3>2. IsFiniteSet(Drawers) /\ IsFiniteSet(Waiting) /\ Cardinality(Waiting) <= Cardinality(Drawers)
      BY <2>3, FS_Subset DEF TInv, Suffices
    <3>3. /\ IsFiniteSet(Drawers \cup {p}) /\ IsFiniteSet(Waiting \cup {p})
          /\ Cardinality(Waiting \cup {p}) = Cardinality(Waiting) + 1
      BY <2>2, <2>3, <3>2, FS_AddElement
    <3>4. IsFiniteSet(Drawers') /\ Cardinality(Waiting') <= Cardinality(Waiting) + 1
          /\ IsFiniteSet(Waiting')
      BY <3>1, <3>3, FS_Subset
    <3>5. {q \in Procs : pc[q] # "idle" /\ req[q].op \in Drawing} = Drawers
      BY DEF Drawers, Busy
    <3>6. fresh + Cardinality(Drawers) < MaxFresh
      BY <1>2, <2>4, <3>5 DEF Drawn
    <3>7. Cardinality(Drawers) \in Nat /\ Cardinality(Waiting) \in Nat
          /\ Cardinality(Waiting') \in Nat /\ fresh \in Nat /\ MaxFresh \in Nat
      BY <3>2, <3>4, FS_CardinalityType, Blank DEF TInv, TypeOK
    <3>8. fresh + Cardinality(Waiting') <= MaxFresh
      BY <3>2, <3>4, <3>6, <3>7
    <3>9. QED
      BY <1>2, <3>4, <3>8 DEF Suffices
  <2>5. CASE op \notin Drawing
    <3>1. Drawers' = Drawers /\ Waiting' = Waiting
      BY <2>1, <2>2, <2>5 DEF Drawers, Waiting, Busy
    <3>2. QED
      BY <1>2, <3>1 DEF TInv, Suffices
  <2>6. QED
    BY <2>4, <2>5
<1>8. QED
  BY <1>5, <1>6, <1>7 DEF TInv

(* The invariant that holds overlapped or not.                             *)
THEOREM TInvariance == Spec => []TInv
<1>1. Init => TInv
  <2>1. SUFFICES ASSUME Init PROVE TInv
    OBVIOUS
  <2>2. TypeOK
    BY <2>1, Blank DEF Init, TypeOK, Labels
  <2>3. Drawers = {} /\ Waiting = {}
    BY <2>1 DEF Init, Drawers, Waiting, Busy
  <2>4. Suffices
    BY <2>1, <2>3, FS_EmptySet, Blank DEF Init, Suffices
  <2>5. QED
    BY <2>1, <2>2, <2>4 DEF Init, TInv, OnPath, Busy
<1>2. TInv /\ [Next]_vars => TInv'
  <2>1. ASSUME TInv, NEW p \in Procs, Start(p) PROVE TInv'
    BY <2>1, StartBegins, BeginTyped
  <2>2. ASSUME TInv, NEW p \in Procs, Step(p) PROVE TInv'
    BY <2>2, StepWent, StepTyped
  <2>3. ASSUME TInv, UNCHANGED vars PROVE TInv'
    BY <2>3 DEF vars, TInv, TypeOK, OnPath, Busy, Suffices, Drawers, Waiting
  <2>4. QED
    BY <2>1, <2>2, <2>3 DEF Next
<1>3. QED
  BY <1>1, <1>2, PTL DEF Spec

(* Every variable keeps its type. That the numbers drawn stay within their *)
(* bound is a matter of counting: whoever begins a request that draws one  *)
(* leaves enough for those that have yet to draw theirs.                   *)
THEOREM TypeCorrect == Spec => []TypeOK
<1>1. TInv => TypeOK
  BY DEF TInv
<1>2. QED
  BY <1>1, TInvariance, PTL

-------------------------------------------------------------------------------
(* Where requests for the same id do not overlap. A step of p concerns the *)
(* rows of its id alone.                                                   *)
Own(p, id) ==
    /\ req'[p].id = id
    /\ \A q \in Procs \ {p} :
          /\ pc'[q] = pc[q] /\ req'[q] = req[q] /\ local'[q] = local[q]
          /\ Busy(q) => req[q].id # id
    /\ \A i \in Ids \ {id} :
          /\ account'[i] = account[i] /\ reset'[i] = reset[i]
          /\ {t \in tokens' : t.id = i} = {t \in tokens : t.id = i}
          /\ {k \in known' : k.id = i} = {k \in known : k.id = i}
    /\ fresh \in Nat /\ fresh' \in {fresh, fresh + 1}

LEMMA OwnKeeps ==
    ASSUME TypeOK, SInv, NEW p \in Procs, NEW id \in Ids, Own(p, id),
           \A k \in known' : k.n <= fresh', local'[p].drawn <= fresh',
           Rows(id)', Current(p)', Committed(p)'
    PROVE  SInv'
<1>1. ASSUME NEW i \in Ids PROVE Rows(i)'
  <2>1. CASE i # id
    <3>1. /\ account'[i] = account[i] /\ reset'[i] = reset[i]
          /\ {t \in tokens' : t.id = i} = {t \in tokens : t.id = i}
          /\ \A k : k \in known' /\ k.id = i => k \in known
      BY <2>1 DEF Own
    <3>2. Rows(i)
      BY DEF SInv
    <3>3. QED
      BY <3>1, <3>2 DEF Rows, Exists, TokensOf
  <2>2. QED
    BY <2>1
<1>2. ASSUME NEW q \in Procs, q # p PROVE Current(q)' /\ Committed(q)' /\ local'[q].drawn <= fresh'
  <2>1. /\ pc'[q] = pc[q] /\ req'[q] = req[q] /\ local'[q] = local[q]
        /\ Current(q) /\ Committed(q) /\ local[q].drawn <= fresh
    BY <1>2 DEF Own, SInv
  <2>2. local'[q].drawn <= fresh'
    <3>1. local[q].drawn \in Nat
      BY Blank DEF TypeOK, Local
    <3>2. QED
      BY <2>1, <3>1 DEF Own
  <2>3. CASE Busy(q)
    <3> DEFINE i == req[q].id
    <3>1. i \in Ids /\ i # id
      BY <1>2, <2>3 DEF Own, TypeOK, Request
    <3>2. /\ account'[i] = account[i] /\ reset'[i] = reset[i]
          /\ {t \in tokens' : t.id = i} = {t \in tokens : t.id = i}
          /\ {k \in known' : k.id = i} = {k \in known : k.id = i}
      BY <3>1 DEF Own
    <3>3. Current(q)'
      BY <2>1, <3>2 DEF Current, Exists, TokensOf
    <3>4. \A n : /\ [kind |-> "passwd", id |-> i, n |-> n] \in known
                      => [kind |-> "passwd", id |-> i, n |-> n] \in known'
                 /\ [id |-> i, n |-> n, oic |-> FALSE] \in tokens
                      => [id |-> i, n |-> n, oic |-> FALSE] \in tokens'
      <4>1. ASSUME NEW n, [kind |-> "passwd", id |-> i, n |-> n] \in known
            PROVE  [kind |-> "passwd", id |-> i, n |-> n] \in known'
        BY <3>2, <4>1
      <4>2. ASSUME NEW n, [id |-> i, n |-> n, oic |-> FALSE] \in tokens
            PROVE  [id |-> i, n |-> n, oic |-> FALSE] \in tokens'
        <5>1. [id |-> i, n |-> n, oic |-> FALSE] \in {t \in tokens : t.id = i}
          BY <4>2
        <5>2. QED
          BY <3>2, <5>1
      <4>3. QED
        BY <4>1, <4>2
    <3>5. Committed(q)'
      BY <2>1, <3>2, <3>4 DEF Committed, TokensOf
    <3>6. QED
      BY <2>2, <3>3, <3>5
  <2>4. CASE ~Busy(q)
    <3>1. Current(q)' /\ Committed(q)'
      BY <2>1, <2>4 DEF Busy, Current, Committed
    <3>2. QED
      BY <2>2, <3>1
  <2>5. QED
    BY <2>3, <2>4
<1>3. ASSUME NEW q \in Procs PROVE Alone(q)'
  BY DEF Alone, Busy, Own, SInv
<1>4. QED
  BY <1>1, <1>2, <1>3 DEF SInv

(* After the response nothing is left of what has been read.               *)
LEMMA IdleKeeps ==
    ASSUME NEW p, pc'[p] = "idle", local'[p].victims = {}
    PROVE  Current(p)' /\ Committed(p)'
BY DEF Current, Committed

(* A request that has read leaves the tables as they are.                  *)
LEMMA ReadKeeps ==
    ASSUME TInv, SInv, NEW p \in Procs, Went(p),
           UNCHANGED <<account, reset, tokens, fresh, known, req>>,
           local'[p].drawn = local[p].drawn, Current(p)', Committed(p)'
    PROVE  SInv'
<1> DEFINE id == req[p].id
<1>1. id \in Ids /\ TypeOK /\ fresh \in Nat
  BY Blank DEF TInv, TypeOK, Request
<1>2. Alone(p) /\ Rows(id) /\ Busy(p) /\ local[p].drawn <= fresh /\ \A k \in known : k.n <= fresh
  BY <1>1 DEF SInv, Went
<1>3. Own(p, id)
  <2>1. \A q \in Procs \ {p} : pc'[q] = pc[q] /\ local'[q] = local[q]
    BY <1>1 DEF Went, TypeOK
  <2>2. QED
    BY <1>1, <1>2, <2>1 DEF Own, Alone
<1>4. Rows(id)'
  BY <1>2 DEF Rows, Exists, TokensOf
<1>5. QED
  BY <1>1, <1>2, <1>3, <1>4, OwnKeeps

(* One that writes, writes the rows of its id.                             *)
LEMMA WriteKeeps ==
    ASSUME TInv, SInv, NEW p \in Procs, Went(p), fresh' \in {fresh, fresh + 1},
           NEW a, account' = account \/ account' = [account EXCEPT ![req[p].id] = a],
           NEW r, reset' = reset \/ reset' = [reset EXCEPT ![req[p].id] = r],
           \A t : t.id # req[p].id => (t \in tokens' <=> t \in tokens),
           \A k : k.id # req[p].id => (k \in known' <=> k \in known),
           \A k \in known' : k.n <= fresh', local'[p].drawn <= fresh',
           Rows(req[p].id)', Current(p)', Committed(p)'
    PROVE  SInv'
<1> DEFINE id == req[p].id
<1>1. id \in Ids /\ TypeOK /\ fresh \in Nat /\ req' = req
  BY Blank DEF TInv, TypeOK, Request, Went
<1>2. Alone(p) /\ Busy(p)
  BY DEF SInv, Went
<1>3. Own(p, id)
  <2>1. ASSUME NEW i \in Ids, i # id
        PROVE  /\ account'[i] = account[i] /\ reset'[i] = reset[i]
               /\ {t \in tokens' : t.id = i} = {t \in tokens : t.id = i}
               /\ {k \in known' : k.id = i} = {k \in known : k.id = i}
    <3>1. account'[i] = account[i] /\ reset'[i] = reset[i]
      BY <1>1, <2>1 DEF TypeOK
    <3>2. {t \in tokens' : t.id = i} = {t \in tokens : t.id = i}
      BY <2>1
    <3>3. {k \in known' : k.id = i} = {k \in known : k.id = i}
      BY <2>1
    <3>4. QED
      BY <3>1, <3>2, <3>3
  <2>2. \A q \in Procs \ {p} : pc'[q] = pc[q] /\ local'[q] = local[q]
    BY <1>1 DEF Went, TypeOK
  <2>3. \A q \in Procs \ {p} : Busy(q) => req[q].id # id
    BY <1>2 DEF Alone
  <2>4. QED
    BY <1>1, <2>1, <2>2, <2>3 DEF Own
<1>4. QED
  BY <1>1, <1>3, OwnKeeps

LEMMA StepKeeps ==
    ASSUME TInv, SInv, NEW p \in Procs, Step(p)
    PROVE  SInv'
<1> DEFINE id == req[p].id
           l == local[p]
           a == account[id]
<1>1. /\ TypeOK /\ Went(p) /\ Typed(p) /\ req' = req
      /\ account \in [Ids -> Account] /\ reset \in [Ids -> Secret] /\ tokens \subseteq Token
      /\ fresh \in Nat /\ req \in [Procs -> Request] /\ known \subseteq Known
      /\ local \in [Procs -> Local] /\ pc \in [Procs -> Labels]
      /\ req[p] \in Request /\ l \in Local /\ a \in Account /\ id \in Ids
      /\ req[p].op \in AllOps \cup {"none"} /\ req[p].flag \in BOOLEAN
      /\ \A n \in Secret : n \in Nat
      /\ Busy(p) /\ OnPath(p)
  BY StepWent, Blank DEF TInv, TypeOK, Request, Local, Went, Busy
<1>2. /\ Rows(id) /\ Alone(p) /\ Current(p) /\ Committed(p) /\ l.drawn <= fresh
      /\ \A k \in known : k.n <= fresh
      /\ req[p].n \in Secret /\ reset[id] \in Secret /\ l.row \in Secret
      /\ a.stage \in {"none", "pre", "registered"} /\ a.link \in Secret
  BY <1>1 DEF SInv, Request, Local, Account
<1>3. ASSUME NEW label, Read(p, label)
      PROVE  /\ pc'[p] = label
             /\ UNCHANGED <<account, reset, tokens, fresh, known, req>>
  BY <1>1, <1>3 DEF Read, Goto
(* Nothing is read that later steps rely on.                               *)
<1>4. ASSUME UNCHANGED <<account, reset, tokens, fresh, known, req>>,
             pc'[p] = "idle", Reply(p, outcome'[p])
      PROVE  SInv'
  <2>1. local'[p].victims = {} /\ local'[p].drawn = l.drawn
    BY <1>1, <1>4 DEF Reply, Local
  <2>2. QED
    BY <1>1, <1>4, <2>1, IdleKeeps, ReadKeeps
<1>5. ASSUME Refuse(p) \/ Conflict(p) PROVE SInv'
  <2>1. /\ pc'[p] = "idle" /\ local'[p] = [local[p] EXCEPT !.row = 0, !.victims = {}]
        /\ UNCHANGED <<account, reset, tokens, fresh, known, req>>
    BY <1>1, <1>5, RefuseWent
  <2>2. local'[p].victims = {} /\ local'[p].drawn = l.drawn
    BY <1>1, <2>1 DEF Local
  <2>3. QED
    BY <1>1, <2>1, <2>2, IdleKeeps, ReadKeeps
(* What is read is so at the next step.                                    *)
<1>6. ASSUME NEW label, Read(p, label), label \notin {"mail", "tokenUser"},
             local'[p].drawn = l.drawn, Current(p)'
      PROVE  SInv'
  <2>1. Committed(p)'
    BY <1>3, <1>6 DEF Committed
  <2>2. QED
    BY <1>1, <1>3, <1>6, <2>1, ReadKeeps
<1>7. p \in Waiting /\ Draw(p) =>
          /\ fresh' = fresh + 1 /\ fresh + 1 # 0
          /\ local'[p].drawn = fresh + 1 /\ local'[p].victims = {}
  <2>1. SUFFICES ASSUME p \in Waiting, Draw(p)
                 PROVE  /\ fresh' = fresh + 1 /\ fresh + 1 # 0
                        /\ local'[p].drawn = fresh + 1 /\ local'[p].victims = {}
    OBVIOUS
  <2>2. fresh' = fresh + 1 /\ local' = [local EXCEPT ![p] = [NoLocal EXCEPT !.drawn = fresh + 1]]
    BY <2>1 DEF Draw
  <2>3. local'[p] = [NoLocal EXCEPT !.drawn = fresh + 1]
    BY <1>1, <2>2
  <2>4. QED
    BY <1>1, <2>2, <2>3 DEF NoLocal
<1>8. Went(p) /\ req' = req /\ fresh + 1 <= fresh + 1
  BY <1>1
<1>a. CASE InsertStage(p)
  <2>1. pc[p] = "stage" /\ l.row = 0
    BY <1>2, <1>a DEF InsertStage, Current
  <2>2. CASE Refuse(p)
    BY <1>5, <2>2
  <2>3. CASE Read(p, "insert") /\ local' = [local EXCEPT ![p].row = a.link] /\ a.stage = "pre"
    <3>1. local'[p].row = a.link /\ local'[p].drawn = l.drawn /\ local'[p].victims = l.victims
      BY <1>1, <2>3 DEF Local
    <3>2. a.link # 0
      BY <1>2, <2>3 DEF Rows
    <3>3. Current(p)'
      BY <1>1, <1>2, <1>3, <2>3, <3>1, <3>2 DEF Current
    <3>4. QED
      BY <1>6, <2>3, <3>1, <3>3
  <2>4. CASE Read(p, "exists") /\ UNCHANGED local
    <3>1. Current(p)'
      BY <1>1, <1>2, <1>3, <2>1, <2>4 DEF Current
    <3>2. QED
      BY <1>6, <2>4, <3>1
  <2>5. QED
    BY <1>2, <1>a, <2>2, <2>3, <2>4 DEF InsertStage
<1>b. CASE InsertExists(p)
  <2>1. pc[p] = "exists" /\ l.row = 0
    BY <1>2, <1>b DEF InsertExists, Current
  <2>2. CASE Refuse(p)
    BY <1>5, <2>2
  <2>3. CASE Read(p, "insert") /\ UNCHANGED local /\ ~Exists(id)
    <3>1. Current(p)'
      BY <1>1, <1>2, <1>3, <2>1, <2>3 DEF Current, Exists
    <3>2. QED
      BY <1>6, <2>3, <3>1
  <2>4. QED
    BY <1>b, <2>2, <2>3 DEF InsertExists
<1>c. CASE Insert(p)
  <2>1. pc[p] = "insert" /\ p \in Waiting /\ req[p].op = "register"
    BY <1>1, <1>c, WaitsAt, Paths DEF Insert, TInv
  <2>2. CASE Conflict(p)
    BY <1>5, <2>2
  <2>3. CASE ~Conflict(p)
    <3> DEFINE b == [born |-> fresh + 1, passwd |-> fresh + 1, mail |-> req[p].mail,
                     link  |-> IF req[p].flag THEN fresh + 1 ELSE 0,
                     stage |-> IF req[p].flag THEN "pre" ELSE "none"]
               k0 == [kind |-> "passwd", id |-> id, n |-> fresh + 1]
    <3>1. /\ account' = [account EXCEPT ![id] = b] /\ Draw(p)
          /\ UNCHANGED <<reset, tokens, req>>
          /\ known' = known \cup {k0}
          /\ IF req[p].flag THEN Goto(p, "mail") ELSE Goto(p, "idle")
      BY <1>c, <2>3 DEF Insert, HandOut
    <3>2. reset[id] = 0 /\ TokensOf(id) = {}
      <4>1. CASE l.row # 0
        BY <1>c, <2>3, <4>1 DEF Insert
      <4>2. CASE l.row = 0
        BY <1>2, <2>1, <4>2 DEF Current, Rows
      <4>3. QED
        BY <4>1, <4>2
    <3>3. /\ b.born = fresh + 1 /\ b.passwd = fresh + 1
          /\ req[p].flag => b.link = fresh + 1 /\ b.stage = "pre"
          /\ ~req[p].flag => b.link = 0 /\ b.stage = "none"
          /\ k0.kind = "passwd" /\ k0.id = id /\ k0.n = fresh + 1
      OBVIOUS
    <3>4. account'[id] = b
      BY <1>1, <3>1
    <3> HIDE DEF b
    <3>5. /\ fresh' = fresh + 1 /\ fresh + 1 # 0
          /\ local'[p].drawn = fresh + 1 /\ local'[p].victims = {}
      BY <1>7, <2>1, <3>1
    <3>6. \A k \in known' : k.n <= fresh' /\ (k.kind = "link" => k \in known)
      <4>1. \A k \in known : k.n \in Nat
        BY <1>1 DEF Known
      <4> HIDE DEF k0
      <4>2. QED
        BY <1>1, <1>2, <3>1, <3>3, <3>5, <4>1
    <3>7. Rows(id)'
      <4>1. \A k \in known' : k.kind = "link" => k.n <= fresh + 1
        BY <3>5, <3>6
      <4>2. Exists(id)'
        <5>1. b.born # NoAccount.born
          BY <3>3, <3>5 DEF NoAccount
        <5>2. QED
          BY <1>8, <3>4, <5>1 DEF Exists
      <4>3. reset'[id] = 0 /\ TokensOf(id)' = {}
        BY <3>1, <3>2 DEF TokensOf
      <4>4. QED
        BY <1>1, <3>3, <3>4, <3>5, <4>1, <4>2, <4>3 DEF Rows
    <3>8. pc'[p] = IF req[p].flag THEN "mail" ELSE "idle"
      BY <1>1, <3>1 DEF Goto
    <3>9. k0 \in known'
      BY <3>1
    <3>10. Current(p)' /\ Committed(p)'
      BY <1>1, <2>1, <3>1, <3>3, <3>4, <3>5, <3>8, <3>9 DEF Current, Committed
    <3>11. /\ \A t : t.id # id => (t \in tokens' <=> t \in tokens)
           /\ \A k : k.id # id => (k \in known' <=> k \in known)
      BY <3>1, <3>3
    <3>12. QED
      BY <1>8, <3>1, <3>5, <3>6, <3>7, <3>10, <3>11, WriteKeeps
  <2>4. QED
    BY <2>2, <2>3
<1>d. CASE SendMail(p)
  <2> DEFINE k0 == [kind |-> Mailed(req[p].op), id |-> id, n |-> l.drawn]
  <2>1. /\ known' = known \cup {k0} /\ Reply(p, "ok") /\ pc[p] = "mail"
        /\ UNCHANGED <<account, reset, tokens, fresh, req>>
    BY <1>d DEF SendMail, HandOut
  <2>2. k0.kind = Mailed(req[p].op) /\ k0.id = id /\ k0.n = l.drawn
    OBVIOUS
  <2>3. pc'[p] = "idle" /\ local'[p].victims = {} /\ local'[p].drawn = l.drawn
    BY <1>1, <2>1 DEF Reply, Goto, Local
  <2> HIDE DEF k0
  <2>4. k0.kind = "link" => l.drawn <= a.link
    <3>1. k0.kind = "link" => req[p].op = "register"
      BY <1>1, <2>1, <2>2, Paths DEF Mailed
    <3>2. QED
      BY <1>1, <1>2, <2>1, <3>1 DEF Committed, Account
  <2>5. Rows(id)'
    BY <1>2, <2>1, <2>2, <2>4 DEF Rows, Exists, TokensOf
  <2>6. \A k \in known' : k.n <= fresh'
    BY <1>2, <2>1, <2>2
  <2>7. QED
    BY <1>1, <1>2, <2>1, <2>2, <2>3, <2>5, <2>6, IdleKeeps, WriteKeeps
<1>e. CASE MailFails(p)
  <2>1. Reply(p, "unsent") /\ UNCHANGED <<account, reset, tokens, fresh, known, req>>
    BY <1>e DEF MailFails
  <2>2. pc'[p] = "idle" /\ outcome'[p] = "unsent"
    BY <1>1, <2>1 DEF Reply, Goto, TypeOK
  <2>3. QED
    BY <1>4, <2>1, <2>2
<1>f. CASE ValidPreToken(p)
  <2>1. CASE Refuse(p)
    BY <1>5, <2>1
  <2>2. CASE Read(p, "activate") /\ UNCHANGED local
    <3>1. Current(p)'
      BY <1>1, <1>2, <1>3, <2>2 DEF Current
    <3>2. QED
      BY <1>6, <2>2, <3>1
  <2>3. QED
    BY <1>f, <2>1, <2>2 DEF ValidPreToken
<1>g. CASE ActualRegister(p)
  <2>1. CASE Refuse(p)
    BY <1>5, <2>1
  <2>2. CASE ~Refuse(p)
    <3> DEFINE b == [a EXCEPT !.stage = "registered"]
    <3>1. /\ account' = [account EXCEPT ![id] = b] /\ Reply(p, "ok")
          /\ UNCHANGED <<reset, tokens, fresh, known, req>> /\ HasLink(id, req[p].n)
      BY <1>g, <2>2 DEF ActualRegister
    <3>2. b.stage = "registered" /\ b.link = a.link /\ b.born = a.born
      BY <1>1 DEF Account
    <3>3. account'[id] = b
      BY <1>1, <3>1
    <3>4. a.link # 0 /\ Exists(id) /\ a.born # 0
      <4>1. a.link # 0
        BY <3>1 DEF HasLink
      <4>2. NoAccount.link = 0
        BY DEF NoAccount
      <4>3. Exists(id)
        BY <4>1, <4>2 DEF Exists
      <4>4. QED
        BY <1>2, <4>1, <4>3 DEF Rows
    <3>5. NoAccount.stage = "none"
      BY DEF NoAccount
    <3> HIDE DEF b
    <3>6. Rows(id)'
      BY <1>2, <3>1, <3>2, <3>3, <3>4, <3>5 DEF Rows, Exists, TokensOf
    <3>7. pc'[p] = "idle" /\ local'[p].victims = {} /\ local'[p].drawn = l.drawn
      BY <1>1, <3>1 DEF Reply, Goto, Local
    <3>8. QED
      BY <1>1, <1>2, <3>1, <3>6, <3>7, IdleKeeps, WriteKeeps
  <2>3. QED
    BY <2>1, <2>2
<1>h. CASE GetMailAddress(p)
  <2>1. CASE Refuse(p)
    BY <1>5, <2>1
  <2>2. CASE Read(p, "isPre") /\ UNCHANGED local
    <3>1. Current(p)'
      BY <1>1, <1>2, <1>3, <2>2 DEF Current
    <3>2. QED
      BY <1>6, <2>2, <3>1
  <2>3. QED
    BY <1>h, <2>1, <2>2 DEF GetMailAddress
<1>i. CASE IsPreRegister(p)
  <2>1. CASE Refuse(p)
    BY <1>5, <2>1
  <2>2. CASE Read(p, "deleteReset") /\ UNCHANGED local /\ a.stage # "pre"
    <3>1. Current(p)'
      BY <1>1, <1>2, <1>3, <2>2 DEF Current
    <3>2. QED
      BY <1>6, <2>2, <3>1
  <2>3. QED
    BY <1>i, <2>1, <2>2 DEF IsPreRegister
<1>j. CASE DeleteReset(p)
  <2>1. Read(p, "insertReset") /\ local' = [local EXCEPT ![p].row = reset[id]]
        /\ pc[p] = "deleteReset"
    BY <1>j DEF DeleteReset
  <2>2. local'[p].drawn = l.drawn /\ local'[p].victims = l.victims
    BY <1>1, <2>1 DEF Local
  <2>3. Current(p)'
    BY <1>1, <1>2, <1>3, <2>1, <2>2 DEF Current
  <2>4. QED
    BY <1>6, <2>1, <2>2, <2>3
<1>k. CASE InsertReset(p)
  <2>1. pc[p] = "insertReset" /\ p \in Waiting /\ req[p].op = "initReset"
    BY <1>1, <1>k, WaitsAt, Paths DEF InsertReset
  <2>2. CASE Conflict(p)
    BY <1>5, <2>2
  <2>3. CASE ~Conflict(p)
    <3>1. /\ Exists(id) /\ Draw(p) /\ reset' = [reset EXCEPT ![id] = fresh + 1]
          /\ Goto(p, "mail") /\ UNCHANGED <<account, tokens, known, req, outcome>>
      BY <1>k, <2>3 DEF InsertReset
    <3>2. /\ fresh' = fresh + 1 /\ fresh + 1 # 0
          /\ local'[p].drawn = fresh + 1 /\ local'[p].victims = {}
      BY <1>7, <2>1, <3>1
    <3>3. reset'[id] = fresh + 1 /\ pc'[p] = "mail"
      BY <1>1, <3>1 DEF Goto
    <3>4. a.stage # "pre"
      BY <1>2, <2>1 DEF Current
    <3>5. Rows(id)'
      BY <1>2, <3>1, <3>4 DEF Rows, Exists, TokensOf
    <3>6. Current(p)' /\ Committed(p)'
      BY <1>1, <2>1, <3>1, <3>2, <3>3 DEF Current, Committed
    <3>7. \A k \in known' : k.n <= fresh'
      BY <1>1, <1>2, <3>1, <3>2 DEF Known
    <3>8. QED
      BY <1>8, <3>1, <3>2, <3>5, <3>6, <3>7, WriteKeeps
  <2>4. QED
    BY <2>2, <2>3
<1>l. CASE ValidResetToken(p)
  <2>1. CASE Refuse(p)
    BY <1>5, <2>1
  <2>2. CASE Read(p, "getUserId") /\ UNCHANGED local /\ HasReset(id, req[p].n)
    <3>1. Current(p)'
      BY <1>1, <1>2, <1>3, <2>2 DEF Current, HasReset
    <3>2. QED
      BY <1>6, <2>2, <3>1
  <2>3. QED
    BY <1>l, <2>1, <2>2 DEF ValidResetToken
<1>m. CASE GetUserId(p)
  <2>1. Read(p, "resetPasswd") /\ pc[p] = "getUserId"
        /\ local' = [local EXCEPT ![p].row = IF HasReset(id, req[p].n) THEN req[p].n ELSE 0]
    BY <1>m DEF GetUserId
  <2>2. HasReset(id, req[p].n)
    BY <1>2, <2>1 DEF Current, HasReset
  <2>3. local'[p].row = req[p].n /\ local'[p].drawn = l.drawn /\ local'[p].victims = l.victims
    BY <1>1, <2>1, <2>2 DEF Local
  <2>4. Current(p)'
    BY <1>1, <1>2, <1>3, <2>1, <2>3 DEF Current
  <2>5. QED
    BY <1>6, <2>1, <2>3, <2>4
<1>n. CASE ResetPassword(p)
  <2> DEFINE b == [a EXCEPT !.passwd = fresh + 1]
  <2>1. pc[p] = "resetPasswd" /\ p \in Waiting /\ req[p].op = "reset" /\ Draw(p)
    BY <1>1, <1>n, WaitsAt, Paths DEF ResetPassword
  <2>2. reset[id] = req[p].n /\ reset[id] # 0 /\ l.row = req[p].n /\ a.stage # "pre" /\ Exists(id)
    BY <1>2, <2>1 DEF Current, Rows
  <2>3. PICK r \in {0, reset[id]} : r # req[p].n /\ reset' = [reset EXCEPT ![id] = r]
    BY <1>n, <2>2 DEF ResetPassword
  <2>4. reset' = [reset EXCEPT ![id] = 0] /\ reset'[id] = 0
    BY <1>1, <2>2, <2>3
  <2>5. account' = [account EXCEPT ![id] = b] /\ Goto(p, "mail")
        /\ UNCHANGED <<tokens, known, req, outcome>>
    BY <1>n, <2>2 DEF ResetPassword
  <2>6. b.stage = a.stage /\ b.link = a.link /\ b.born = a.born /\ b.passwd = fresh + 1
    BY <1>1 DEF Account
  <2>7. account'[id] = b
    BY <1>1, <2>5
  <2> HIDE DEF b
  <2>8. /\ fresh' = fresh + 1 /\ fresh + 1 # 0
        /\ local'[p].drawn = fresh + 1 /\ local'[p].victims = {}
    BY <1>7, <2>1
  <2>9. Exists(id)'
    <3>1. NoAccount.passwd = 0
      BY DEF NoAccount
    <3>2. QED
      BY <1>8, <2>6, <2>7, <2>8, <3>1 DEF Exists
  <2>10. Rows(id)'
    BY <1>2, <2>2, <2>4, <2>5, <2>6, <2>7, <2>9 DEF Rows, TokensOf
  <2>11. pc'[p] = "mail"
    BY <1>1, <2>5 DEF Goto
  <2>12. Current(p)' /\ Committed(p)'
    BY <1>1, <2>1, <2>4, <2>6, <2>7, <2>8, <2>11 DEF Current, Committed
  <2>13. \A k \in known' : k.n <= fresh'
    BY <1>1, <1>2, <2>5, <2>8 DEF Known
  <2>14. QED
    BY <1>8, <2>4, <2>5, <2>8, <2>10, <2>12, <2>13, WriteKeeps
<1>o. CASE CheckStage(p)
  <2>1. CASE Refuse(p)
    BY <1>5, <2>1
  <2>2. CASE Read(p, "checkPasswd") /\ UNCHANGED local /\ a.stage # "pre"
    <3>1. Current(p)'
      BY <1>1, <1>2, <1>3, <2>2 DEF Current
    <3>2. QED
      BY <1>6, <2>2, <3>1
  <2>3. QED
    BY <1>o, <2>1, <2>2 DEF CheckStage
<1>q. CASE CheckPasswd(p)
  <2>1. CASE Refuse(p)
    BY <1>5, <2>1
  <2>2. CASE ~Refuse(p)
    <3>1. PICK label \in {"change", "deleteTokens"} : Read(p, label) /\ UNCHANGED local
      BY <1>q, <2>2 DEF CheckPasswd
    <3>2. a.stage # "pre"
      BY <1>2, <1>q DEF CheckPasswd, Current
    <3>3. Current(p)'
      BY <1>1, <1>2, <1>3, <3>1, <3>2 DEF Current
    <3>4. QED
      BY <1>6, <3>1, <3>3
  <2>3. QED
    BY <2>1, <2>2
<1>r. CASE ChangePassword(p)
  <2>1. pc[p] = "change" /\ p \in Waiting
    BY <1>r, WaitsAt DEF ChangePassword
  <2>2. CASE Refuse(p)
    BY <1>5, <2>2
  <2>3. CASE ~Refuse(p)
    <3> DEFINE b == [a EXCEPT !.passwd = fresh + 1]
               k0 == [kind |-> "passwd", id |-> id, n |-> fresh + 1]
    <3>1. /\ account' = [account EXCEPT ![id] = b] /\ Draw(p) /\ Exists(id)
          /\ Goto(p, "idle") /\ UNCHANGED <<reset, tokens, req>>
          /\ known' = known \cup {k0}
      BY <1>r, <2>3 DEF ChangePassword, HandOut
    <3>2. b.stage = a.stage /\ b.link = a.link /\ b.born = a.born /\ b.passwd = fresh + 1
          /\ k0.kind = "passwd" /\ k0.id = id /\ k0.n = fresh + 1
      BY <1>1 DEF Account
    <3>3. account'[id] = b
      BY <1>1, <3>1
    <3> HIDE DEF b, k0
    <3>4. /\ fresh' = fresh + 1 /\ fresh + 1 # 0
          /\ local'[p].drawn = fresh + 1 /\ local'[p].victims = {}
      BY <1>7, <2>1, <3>1
    <3>5. Exists(id)'
      <4>1. NoAccount.passwd = 0
        BY DEF NoAccount
      <4>2. QED
        BY <1>8, <3>2, <3>3, <3>4, <4>1 DEF Exists
    <3>6. Rows(id)'
      BY <1>2, <3>1, <3>2, <3>3, <3>5 DEF Rows, TokensOf
    <3>7. pc'[p] = "idle"
      BY <1>1, <3>1 DEF Goto
    <3>8. \A k \in known' : k.n <= fresh'
      <4>1. \A k \in known : k.n \in Nat
        BY <1>1 DEF Known
      <4>2. QED
        BY <1>1, <1>2, <3>1, <3>2, <3>4, <4>1
    <3>9. \A k : k.id # id => (k \in known' <=> k \in known)
      BY <3>1, <3>2
    <3>10. QED
      BY <1>8, <3>1, <3>4, <3>6, <3>7, <3>8, <3>9, IdleKeeps, WriteKeeps
  <2>4. QED
    BY <2>2, <2>3
<1>s. CASE DeleteTokens(p)
  <2> DEFINE v == IF req[p].flag THEN {} ELSE TokensOf(id)
             label == IF req[p].op = "delete" THEN "deleteUser" ELSE "insertToken"
  <2>1. Read(p, label) /\ local' = [local EXCEPT ![p].victims = v] /\ pc[p] = "deleteTokens"
    BY <1>s DEF DeleteTokens
  <2>2. local'[p].drawn = l.drawn /\ local'[p].victims = v
    BY <1>1, <2>1 DEF Local
  <2>3. req[p].op \in {"publish", "delete"}
    BY <1>1, <2>1, Paths
  <2>4. Current(p)'
    <3>1. \A t \in v : t.id = id
      BY DEF TokensOf
    <3>2. ~req[p].flag => TokensOf(id)' \subseteq v
      BY <1>3, <2>1 DEF TokensOf
    <3>3. label = "insertToken" => a.stage # "pre"
      BY <1>2, <2>1, <2>3 DEF Current
    <3>4. pc'[p] = label /\ label \in {"deleteUser", "insertToken"}
          /\ UNCHANGED <<account, reset, tokens, req>>
      BY <1>3, <2>1
    <3> HIDE DEF v, label
    <3>5. QED
      BY <1>1, <2>2, <3>1, <3>2, <3>3, <3>4 DEF Current, TokensOf
  <2>5. label \notin {"mail", "tokenUser"}
    OBVIOUS
  <2> HIDE DEF v, label
  <2>6. QED
    BY <1>6, <2>1, <2>2, <2>4, <2>5
<1>t. CASE InsertToken(p)
  <2>1. pc[p] = "insertToken" /\ p \in Waiting /\ req[p].op = "publish"
    BY <1>1, <1>t, WaitsAt, Paths DEF InsertToken
  <2>2. CASE Conflict(p)
    BY <1>5, <2>2
  <2>3. CASE ~Conflict(p)
    <3> DEFINE t0 == [id |-> id, n |-> fresh + 1, oic |-> FALSE]
    <3>1. /\ Exists(id) /\ Draw(p) /\ tokens' = (tokens \ l.victims) \cup {t0}
          /\ Goto(p, "tokenUser") /\ UNCHANGED <<account, reset, known, req, outcome>>
      BY <1>t, <2>3 DEF InsertToken
    <3>2. t0.id = id /\ t0 \in tokens'
      BY <3>1
    <3>3. /\ fresh' = fresh + 1 /\ fresh + 1 # 0
          /\ local'[p].drawn = fresh + 1 /\ local'[p].victims = {}
      BY <1>7, <2>1, <3>1
    <3>4. /\ a.stage # "pre" /\ \A t \in l.victims : t.id = id
          /\ ~req[p].flag => TokensOf(id) \subseteq l.victims
      BY <1>2, <2>1 DEF Current
    <3>5. ~req[p].flag => TokensOf(id)' = {t0}
      BY <3>1, <3>2, <3>4 DEF TokensOf
    <3>6. Rows(id)'
      BY <1>2, <3>1, <3>4 DEF Rows, Exists
    <3>7. pc'[p] = "tokenUser"
      BY <1>1, <3>1 DEF Goto
    <3>8. Current(p)' /\ Committed(p)'
      BY <1>1, <2>1, <3>2, <3>3, <3>5, <3>7 DEF Current, Committed, TokensOf
    <3>9. \A k \in known' : k.n <= fresh'
      BY <1>1, <1>2, <3>1, <3>3 DEF Known
    <3>10. \A t : t.id # id => (t \in tokens' <=> t \in tokens)
      BY <3>1, <3>2, <3>4
    <3>11. QED
      BY <1>1, <3>1, <3>3, <3>6, <3>8, <3>9, <3>10, WriteKeeps
  <2>4. QED
    BY <2>2, <2>3
<1>u. CASE TokenUser(p)
  <2>1. PICK o \in {"ok", "error"} : Reply(p, o)
    BY <1>u DEF TokenUser
  <2>2. UNCHANGED <<account, reset, tokens, fresh, known, req>>
    BY <1>u DEF TokenUser
  <2>3. pc'[p] = "idle" /\ outcome'[p] = o
    BY <1>1, <2>1 DEF Reply, Goto, TypeOK
  <2>4. QED
    BY <1>4, <2>1, <2>2, <2>3
<1>v. CASE RemoveTokens(p)
  <2>1. /\ tokens' \subseteq tokens /\ \A t \in tokens : t.id # id => t \in tokens'
        /\ Reply(p, "ok") /\ UNCHANGED <<account, reset, fresh, known, req>>
    BY <1>v DEF RemoveTokens
  <2>2. pc'[p] = "idle" /\ local'[p].victims = {} /\ local'[p].drawn = l.drawn
    BY <1>1, <2>1 DEF Reply, Goto, Local
  <2>3. Rows(id)'
    BY <1>2, <2>1 DEF Rows, Exists, TokensOf
  <2>4. \A t : t.id # id => (t \in tokens' <=> t \in tokens)
    BY <2>1
  <2>5. QED
    BY <1>1, <1>2, <2>1, <2>2, <2>3, <2>4, IdleKeeps, WriteKeeps
<1>w. CASE DeleteUser(p)
  <2>1. CASE Conflict(p)
    BY <1>5, <2>1
  <2>2. CASE ~Conflict(p)
    <3>1. /\ account' = [account EXCEPT ![id] = NoAccount]
          /\ tokens' = tokens \ l.victims /\ TokensOf(id) \ l.victims = {} /\ reset[id] = 0
          /\ UNCHANGED <<reset, fresh, known, req>>
      BY <1>w, <2>2 DEF DeleteUser
    <3>2. PICK o \in {"ok", "refused"} : Reply(p, o)
      BY <1>w, <2>2 DEF DeleteUser
    <3>3. pc'[p] = "idle" /\ local'[p].victims = {} /\ local'[p].drawn = l.drawn
      BY <1>1, <3>2 DEF Reply, Goto, Local
    <3>4. TokensOf(id)' = {} /\ account'[id] = NoAccount /\ ~Exists(id)'
      BY <1>1, <3>1 DEF TokensOf, Exists
    <3>5. NoAccount.stage = "none" /\ NoAccount.link = 0
      BY DEF NoAccount
    <3>6. Rows(id)'
      BY <3>1, <3>4, <3>5 DEF Rows
    <3>7. \A t : t.id # id => (t \in tokens' <=> t \in tokens)
      BY <1>2, <3>1 DEF Current
    <3>8. QED
      BY <1>1, <1>2, <3>1, <3>3, <3>6, <3>7, IdleKeeps, WriteKeeps
  <2>3. QED
    BY <2>1, <2>2
<1>x. CASE CountUser(p)
  <2>1. Read(p, "oicInsert") /\ local' = [local EXCEPT ![p].row = a.born] /\ pc[p] = "count"
    BY <1>x DEF CountUser
  <2>2. local'[p].drawn = l.drawn /\ local'[p].victims = l.victims
    BY <1>1, <2>1 DEF Local
  <2>3. Current(p)'
    BY <1>1, <1>2, <1>3, <2>1, <2>2 DEF Current
  <2>4. QED
    BY <1>6, <2>1, <2>2, <2>3
<1>y. CASE OicInsert(p)
  <2>1. pc[p] = "oicInsert" /\ p \in Waiting /\ req[p].op = "oic"
    BY <1>1, <1>y, WaitsAt, Paths DEF OicInsert
  <2>2. CASE Conflict(p)
    BY <1>5, <2>2
  <2>3. CASE ~Conflict(p)
    <3> DEFINE t0 == [id |-> id, n |-> fresh + 1, oic |-> TRUE]
               b == [born |-> fresh + 1, passwd |-> fresh + 1, link |-> 0,
                     mail |-> req[p].mail, stage |-> "none"]
    <3>1. /\ Draw(p) /\ tokens' = tokens \cup {t0} /\ Goto(p, "tokenUser")
          /\ UNCHANGED <<reset, known, req, outcome>>
          /\ IF Exists(id) THEN UNCHANGED account ELSE account' = [account EXCEPT ![id] = b]
      BY <1>y, <2>3 DEF OicInsert
    <3>2. t0.id = id /\ t0.oic /\ b.born = fresh + 1 /\ b.stage = "none" /\ b.link = 0
      OBVIOUS
    <3>3. account'[id] = IF Exists(id) THEN a ELSE b
      BY <1>1, <3>1
    <3> HIDE DEF b, t0
    <3>4. /\ fresh' = fresh + 1 /\ fresh + 1 # 0
          /\ local'[p].drawn = fresh + 1 /\ local'[p].victims = {}
      BY <1>7, <2>1, <3>1
    <3>5. Rows(id)'
      <4>1. CASE Exists(id)
        BY <1>2, <3>1, <3>2, <4>1 DEF Rows, Exists, TokensOf
      <4>2. CASE ~Exists(id)
        <5>1. NoAccount.born = 0
          BY DEF NoAccount
        <5>2. Exists(id)' /\ account'[id] = b
          BY <1>8, <3>2, <3>3, <3>4, <4>2, <5>1 DEF Exists
        <5>3. QED
          BY <1>8, <3>2, <3>4, <5>2 DEF Rows
      <4>3. QED
        BY <4>1, <4>2
    <3>6. pc'[p] = "tokenUser"
      BY <1>1, <3>1 DEF Goto
    <3>7. Current(p)' /\ Committed(p)'
      BY <1>1, <2>1, <3>4, <3>6 DEF Current, Committed
    <3>8. \A k \in known' : k.n <= fresh'
      BY <1>1, <1>2, <3>1, <3>4 DEF Known
    <3>9. \A t : t.id # id => (t \in tokens' <=> t \in tokens)
      BY <3>1, <3>2
    <3>10. QED
      BY <1>1, <3>1, <3>4, <3>5, <3>7, <3>8, <3>9, WriteKeeps
  <2>4. QED
    BY <2>2, <2>3
<1>z. CASE Fail(p)
  <2>1. Reply(p, "error") /\ UNCHANGED <<account, reset, tokens, fresh, known, req>>
    BY <1>z DEF Fail
  <2>2. pc'[p] = "idle" /\ outcome'[p] = "error"
    BY <1>1, <2>1 DEF Reply, Goto, TypeOK
  <2>3. QED
    BY <1>4, <2>1, <2>2
<1>99. QED
  BY <1>a, <1>b, <1>c, <1>d, <1>e, <1>f, <1>g, <1>h, <1>i, <1>j, <1>k, <1>l, <1>m, <1>n,
     <1>o, <1>q, <1>r, <1>s, <1>t, <1>u, <1>v, <1>w, <1>x, <1>y, <1>z DEF Step

LEMMA BeginKeeps ==
    ASSUME Serialized, TInv, SInv, NEW p \in Procs, Start(p)
    PROVE  SInv'
<1>1. PICK op \in AllOps, id \in Ids, n \in Secret, flag \in BOOLEAN, mail \in BOOLEAN :
          Begins(p, op, id, n, flag, mail)
  BY StartBegins
<1>2. PICK label \in StepsOf(op) :
          /\ label \in {"stage", "validPre", "getMail", "validReset", "checkStage",
                        "remove", "deleteTokens", "count"}
          /\ label = "deleteTokens" => op = "delete"
          /\ Begin(p, op, id, n, flag, mail, label)
  BY <1>1 DEF Begins
<1>3. TypeOK /\ fresh \in Nat
  BY Blank DEF TInv, TypeOK
<1>4. /\ pc'[p] = label /\ req'[p].id = id /\ req'[p].op = op
      /\ local'[p].row = 0 /\ local'[p].victims = {} /\ local'[p].drawn = 0
      /\ \A q \in Procs \ {p} : pc'[q] = pc[q] /\ req'[q] = req[q] /\ local'[q] = local[q]
      /\ UNCHANGED <<account, reset, tokens, fresh, known>>
  BY <1>2, <1>3 DEF Begin, Goto, TypeOK, NoLocal
<1>5. \A q \in Procs \ {p} : Busy(q) => req[q].id # id
  BY <1>2 DEF Begin, Busy
<1>6. Own(p, id)
  BY <1>3, <1>4, <1>5 DEF Own
<1>7. Rows(id)'
  BY <1>4 DEF SInv, Rows, Exists, TokensOf
<1>8. Current(p)' /\ Committed(p)'
  BY <1>2, <1>4 DEF Current, Committed
<1>9. \A k \in known' : k.n <= fresh'
  BY <1>4 DEF SInv
<1>10. QED
  BY <1>3, <1>4, <1>6, <1>7, <1>8, <1>9, OwnKeeps

LEMMA SInvariance == Serialized => (Spec => [](TInv /\ SInv))
<1> SUFFICES ASSUME Serialized PROVE Spec => [](TInv /\ SInv)
  OBVIOUS
<1>1. Init => SInv
  <2>1. SUFFICES ASSUME Init PROVE SInv
    OBVIOUS
  <2>2. \A id \in Ids : account[id] = NoAccount /\ reset[id] = 0 /\ TokensOf(id) = {} /\ ~Exists(id)
    BY <2>1 DEF Init, TokensOf, Exists
  <2>3. NoAccount.stage = "none" /\ NoAccount.link = 0
    BY DEF NoAccount
  <2>4. \A id \in Ids : Rows(id)
    BY <2>2, <2>3 DEF Rows
  <2>5. ASSUME NEW p \in Procs PROVE Alone(p) /\ Current(p) /\ Committed(p) /\ local[p].drawn <= fresh
    <3>1. pc[p] = "idle" /\ local[p] = NoLocal /\ fresh = 0
      BY <2>1 DEF Init
    <3>2. NoLocal.victims = {} /\ NoLocal.drawn = 0
      BY DEF NoLocal
    <3>3. QED
      BY <3>1, <3>2 DEF Alone, Busy, Current, Committed
  <2>6. \A k \in known : k.n <= fresh
    BY <2>1 DEF Init
  <2>7. QED
    BY <2>4, <2>5, <2>6 DEF SInv
<1>2. TInv /\ SInv /\ [Next]_vars => SInv'
  <2>1. ASSUME TInv, SInv, NEW p \in Procs, Start(p) PROVE SInv'
    BY <2>1, BeginKeeps
  <2>2. ASSUME TInv, SInv, NEW p \in Procs, Step(p) PROVE SInv'
    BY <2>2, StepKeeps
  <2>3. ASSUME SInv, UNCHANGED vars PROVE SInv'
    <3>1. \A id \in Ids : Rows(id)'
      BY <2>3 DEF vars, SInv, Rows, Exists, TokensOf
    <3>2. \A p \in Procs : Alone(p)'
      BY <2>3 DEF vars, SInv, Alone, Busy
    <3>3. \A p \in Procs : Current(p)'
      BY <2>3 DEF vars, SInv, Current, Exists, TokensOf
    <3>4. \A p \in Procs : Committed(p)'
      BY <2>3 DEF vars, SInv, Committed, TokensOf
    <3>5. QED
      BY <2>3, <3>1, <3>2, <3>3, <3>4 DEF vars, SInv
  <2>4. QED
    BY <2>1, <2>2, <2>3 DEF Next
<1>3. QED
  BY <1>1, <1>2, TInvariance, PTL DEF Spec

-------------------------------------------------------------------------------
(* While an account is only pre-registered nothing can be done with it: it *)
(* has no token that its password would have been asked for, and no reset  *)
(* of the password has begun.                                              *)
THEOREM PreRegisteredIsLocked == Serialized => (Spec => []PreRegisteredLocked)
<1>1. SInv => PreRegisteredLocked
  BY DEF SInv, Rows, PreRegisteredLocked
<1>2. QED
  BY <1>1, SInvariance, PTL

(* The other requests are not concerned by a step.                         *)
LEMMA OtherOutcome ==
    ASSUME TInv, [Next]_vars, NEW p \in Procs, outcome[p] # outcome'[p]
    PROVE  Start(p) \/ Step(p)
<1>1. ASSUME NEW q \in Procs, Start(q), q # p PROVE FALSE
  <2>1. outcome' = [outcome EXCEPT ![q] = "none"]
    BY <1>1, StartBegins DEF Begins, Begin
  <2>2. QED
    BY <1>1, <2>1 DEF TInv, TypeOK
<1>2. ASSUME NEW q \in Procs, Step(q), q # p PROVE FALSE
  <2>1. outcome' = [outcome EXCEPT ![q] = outcome'[q]]
    BY <1>2, StepWent DEF Went
  <2>2. QED
    BY <1>2, <2>1 DEF TInv, TypeOK
<1>3. QED
  BY <1>1, <1>2 DEF Next, vars

LEMMA StartOutcome ==
    ASSUME TInv, NEW p \in Procs, Start(p)
    PROVE  outcome'[p] = "none" /\ UNCHANGED <<account, reset, tokens, known>>
<1>1. outcome' = [outcome EXCEPT ![p] = "none"] /\ UNCHANGED <<account, reset, tokens, known>>
  BY StartBegins DEF Begins, Begin
<1>2. QED
  BY <1>1 DEF TInv, TypeOK

(* Who gives an id another account.                                        *)
LEMMA WhoRegisters ==
    ASSUME TInv, SInv, NEW p \in Procs, Step(p), NEW id \in Ids,
           account'[id].born # account[id].born
    PROVE  /\ req[p].id = id
           /\ pc[p] = "deleteUser" \/ ~Exists(id) \/ account[id].stage = "pre"
<1>1. /\ account \in [Ids -> Account] /\ account[id] \in Account /\ Current(p)
      /\ req[p].id \in Ids
  BY DEF TInv, TypeOK, SInv, Request
<1>2. \/ Insert(p) \/ ActualRegister(p) \/ ResetPassword(p) \/ ChangePassword(p)
      \/ DeleteUser(p) \/ OicInsert(p)
  <2>1. account' # account
    OBVIOUS
  <2>2. ~Refuse(p) /\ ~Conflict(p) /\ \A label : ~Read(p, label)
    BY <2>1 DEF Refuse, Conflict, Read
  <2>3. ~InsertStage(p) /\ ~InsertExists(p) /\ ~ValidPreToken(p) /\ ~GetMailAddress(p)
        /\ ~IsPreRegister(p) /\ ~ValidResetToken(p) /\ ~CheckStage(p) /\ ~CheckPasswd(p)
    <3>1. account[req[p].id].stage \in {"none", "pre", "registered"}
      BY <1>1 DEF Account
    <3>2. QED
      BY <2>2, <3>1 DEF InsertStage, InsertExists, ValidPreToken, GetMailAddress, IsPreRegister,
         ValidResetToken, CheckStage, CheckPasswd
  <2>4. ~DeleteReset(p) /\ ~GetUserId(p) /\ ~DeleteTokens(p) /\ ~CountUser(p)
    BY <2>2 DEF DeleteReset, GetUserId, DeleteTokens, CountUser
  <2>5. ~SendMail(p) /\ ~MailFails(p) /\ ~TokenUser(p) /\ ~RemoveTokens(p) /\ ~Fail(p)
    BY <2>1 DEF SendMail, MailFails, TokenUser, RemoveTokens, Fail
  <2>6. ~InsertReset(p) /\ ~InsertToken(p)
    BY <2>1, <2>2 DEF InsertReset, InsertToken
  <2>7. QED
    BY <2>3, <2>4, <2>5, <2>6 DEF Step
<1>3. CASE Insert(p)
  <2>1. req[p].id = id
    BY <1>1, <1>3 DEF Insert, Conflict
  <2>2. QED
    BY <1>1, <1>3, <2>1 DEF Insert, Current
<1>4. CASE ActualRegister(p)
  <2>1. account' = account \/ account' = [account EXCEPT ![req[p].id].stage = "registered"]
    BY <1>4 DEF ActualRegister, Refuse
  <2>2. QED
    BY <1>1, <2>1 DEF Account
<1>5. CASE ResetPassword(p) \/ ChangePassword(p)
  <2>1. account' = account \/ account' = [account EXCEPT ![req[p].id].passwd = fresh + 1]
    BY <1>5 DEF ResetPassword, ChangePassword, Refuse
  <2>2. QED
    BY <1>1, <2>1 DEF Account
<1>6. CASE DeleteUser(p)
  BY <1>1, <1>6 DEF DeleteUser, Conflict
<1>7. CASE OicInsert(p)
  BY <1>1, <1>7 DEF OicInsert, Conflict
<1>8. QED
  BY <1>2, <1>3, <1>4, <1>5, <1>6, <1>7

(* An account stays until it is deleted once it is not, or no longer, only *)
(* pre-registered; it is activated by the link that was mailed last; and   *)
(* what a pre-registration has left behind never blocks the next one.      *)
THEOREM AccountsLive == Serialized => (Spec => AccountLife)
<1> SUFFICES ASSUME Serialized PROVE Spec => AccountLife
  OBVIOUS
<1> DEFINE Keeps == \A id \in Ids :
              /\ Exists(id)
              /\ account[id].stage # "pre"
              /\ account'[id].born # account[id].born
              => \E p \in Procs : pc[p] = "deleteUser" /\ req[p].id = id
           ByLast == \A p \in Procs :
              pc[p] = "activate" /\ outcome'[p] = "ok"
              => \A k \in known : k.kind = "link" /\ k.id = req[p].id => k.n <= req[p].n
           Unblocked == \A p \in Procs :
              pc[p] = "insert" /\ outcome'[p] = "constraint"
              => \E t \in TokensOf(req[p].id) : t.oic
<1>1. TInv /\ SInv /\ [Next]_vars => [Keeps]_vars
  <2>1. SUFFICES ASSUME TInv, SInv, [Next]_vars, NEW id \in Ids, Exists(id),
                        account[id].stage # "pre", account'[id].born # account[id].born
                 PROVE  \E p \in Procs : pc[p] = "deleteUser" /\ req[p].id = id
    OBVIOUS
  <2>2. account' # account
    BY <2>1
  <2>3. PICK p \in Procs : Start(p) \/ Step(p)
    BY <2>1, <2>2 DEF Next, vars
  <2>4. Step(p)
    BY <2>1, <2>2, <2>3, StartOutcome
  <2>5. QED
    BY <2>1, <2>4, WhoRegisters
<1>2. TInv /\ SInv /\ [Next]_vars => [ByLast]_vars
  <2>1. SUFFICES ASSUME TInv, SInv, [Next]_vars, NEW p \in Procs, pc[p] = "activate",
                        outcome'[p] = "ok", NEW k \in known, k.kind = "link", k.id = req[p].id
                 PROVE  k.n <= req[p].n
    OBVIOUS
  <2>2. req[p].op = "actual" /\ outcome[p] = "none" /\ req[p].id \in Ids
    BY <2>1, Paths DEF TInv, TypeOK, Busy, Request
  <2>3. Step(p)
    BY <2>1, <2>2, OtherOutcome, StartOutcome
  <2>4. HasLink(req[p].id, req[p].n)
    <3>1. ActualRegister(p) \/ Fail(p)
      BY <2>1, <2>3 DEF Step, InsertStage, InsertExists, Insert, SendMail, MailFails,
         ValidPreToken, GetMailAddress, IsPreRegister, DeleteReset, InsertReset,
         ValidResetToken, GetUserId, ResetPassword, CheckStage, CheckPasswd, ChangePassword,
         DeleteTokens, InsertToken, TokenUser, RemoveTokens, DeleteUser, CountUser, OicInsert
    <3>2. ~Refuse(p) /\ ~Fail(p)
      BY <2>1 DEF Refuse, Fail, Reply, TInv, TypeOK
    <3>3. QED
      BY <3>1, <3>2 DEF ActualRegister
  <2>5. QED
    BY <2>1, <2>2, <2>4 DEF SInv, Rows, HasLink
<1>3. TInv /\ SInv /\ [Next]_vars => [Unblocked]_vars
  <2>1. SUFFICES ASSUME TInv, SInv, [Next]_vars, NEW p \in Procs, pc[p] = "insert",
                        outcome'[p] = "constraint"
                 PROVE  \E t \in TokensOf(req[p].id) : t.oic
    OBVIOUS
  <2>2. req[p].op = "register" /\ outcome[p] = "none" /\ req[p].id \in Ids
    BY <2>1, Paths DEF TInv, TypeOK, Busy, Request
  <2>3. Step(p)
    BY <2>1, <2>2, OtherOutcome, StartOutcome
  <2>4. Insert(p) /\ Conflict(p)
    <3>1. Insert(p) \/ Fail(p)
      BY <2>1, <2>3 DEF Step, InsertStage, InsertExists, ActualRegister, SendMail, MailFails,
         ValidPreToken, GetMailAddress, IsPreRegister, DeleteReset, InsertReset,
         ValidResetToken, GetUserId, ResetPassword, CheckStage, CheckPasswd, ChangePassword,
         DeleteTokens, InsertToken, TokenUser, RemoveTokens, DeleteUser, CountUser, OicInsert
    <3>2. ~Fail(p)
      BY <2>1 DEF Fail, Reply, TInv, TypeOK
    <3>3. Conflict(p)
      BY <2>1, <2>2, <3>1, <3>2 DEF Insert, TInv, TypeOK
    <3>4. QED
      BY <3>1, <3>2, <3>3
  <2>5. /\ Rows(req[p].id)
        /\ IF local[p].row # 0 THEN account[req[p].id].stage = "pre" ELSE ~Exists(req[p].id)
    BY <2>1, <2>2 DEF SInv, Current
  <2>6. IF local[p].row # 0 THEN reset[req[p].id] # 0 \/ TokensOf(req[p].id) # {}
                            ELSE Exists(req[p].id)
    <3>1. fresh' = fresh
      BY <2>4 DEF Conflict
    <3>2. fresh \in Nat
      BY <2>1, Blank DEF TInv, TypeOK
    <3>3. ~Draw(p)
      BY <3>1, <3>2 DEF Draw
    <3>4. QED
      BY <2>4, <3>3 DEF Insert
  <2>7. QED
    BY <2>5, <2>6 DEF Rows
<1>4. AccountLife <=> [][Keeps]_vars /\ [][ByLast]_vars /\ [][Unblocked]_vars
  BY DEF AccountLife, KeepsActivated, ActivatedByLast, RegisterUnblocked
<1>5. Spec => [](TInv /\ SInv)
  BY SInvariance
<1> HIDE DEF Keeps, ByLast, Unblocked
<1>6. QED
  BY <1>1, <1>2, <1>3, <1>4, <1>5, PTL DEF Spec

(* What a request that is answered with success has done.                  *)
LEMMA SuccessDone ==
    ASSUME TInv, SInv, NEW p \in Procs, Step(p), outcome'[p] = "ok"
    PROVE  Done(p)
<1> DEFINE id == req[p].id
           a == account[id]
           n == local'[p].drawn
<1>1. /\ account \in [Ids -> Account] /\ reset \in [Ids -> Secret] /\ fresh \in Nat
      /\ local \in [Procs -> Local] /\ local[p] \in Local
      /\ outcome \in [Procs -> Outcomes] /\ pc \in [Procs -> Labels]
      /\ req[p] \in Request /\ id \in Ids /\ a \in Account /\ Busy(p) /\ OnPath(p)
      /\ req[p].flag \in BOOLEAN
  BY StepWent, Blank DEF TInv, TypeOK, Request, Outcomes, Went
<1>2. Rows(id) /\ Current(p) /\ Committed(p) /\ outcome[p] = "none"
  BY <1>1, Paths DEF SInv
<1>3. ~Refuse(p) /\ ~Conflict(p) /\ ~Fail(p) /\ ~MailFails(p) /\ outcome' # outcome
  <2>1. \A o : Reply(p, o) => outcome'[p] = o
    BY <1>1 DEF Reply
  <2>2. QED
    BY <1>2, <2>1 DEF Refuse, Conflict, Fail, MailFails
<1>4. \A label : ~Read(p, label)
  BY <1>3 DEF Read
<1>5. Reply(p, "ok") => n = local[p].drawn
  BY <1>1 DEF Reply, Local
<1>6. Draw(p) => n = fresh + 1
  <2>1. SUFFICES ASSUME Draw(p) PROVE n = fresh + 1
    OBVIOUS
  <2>2. local'[p] = [NoLocal EXCEPT !.drawn = fresh + 1]
    BY <1>1, <2>1 DEF Draw
  <2>3. QED
    BY <2>2 DEF NoLocal
<1>7. \/ Insert(p) \/ SendMail(p) \/ ActualRegister(p) \/ ResetPassword(p)
      \/ ChangePassword(p) \/ TokenUser(p) \/ RemoveTokens(p) \/ DeleteUser(p)
  <2>1. ~InsertStage(p) /\ ~InsertExists(p) /\ ~ValidPreToken(p) /\ ~GetMailAddress(p)
        /\ ~IsPreRegister(p) /\ ~ValidResetToken(p) /\ ~CheckStage(p) /\ ~CheckPasswd(p)
    <3>1. a.stage \in {"none", "pre", "registered"}
      BY <1>1 DEF Account
    <3>2. QED
      BY <1>3, <1>4, <3>1 DEF InsertStage, InsertExists, ValidPreToken, GetMailAddress,
         IsPreRegister, ValidResetToken, CheckStage, CheckPasswd
  <2>2. ~DeleteReset(p) /\ ~GetUserId(p) /\ ~DeleteTokens(p) /\ ~CountUser(p)
    BY <1>4 DEF DeleteReset, GetUserId, DeleteTokens, CountUser
  <2>3. ~InsertReset(p) /\ ~InsertToken(p) /\ ~OicInsert(p)
    BY <1>3 DEF InsertReset, InsertToken, OicInsert
  <2>4. QED
    BY <1>3, <2>1, <2>2, <2>3 DEF Step
<1>8. CASE Insert(p)
  <2> DEFINE b == [born |-> fresh + 1, passwd |-> fresh + 1, mail |-> req[p].mail,
                   link  |-> IF req[p].flag THEN fresh + 1 ELSE 0,
                   stage |-> IF req[p].flag THEN "pre" ELSE "none"]
  <2>1. req[p].op = "register"
    BY <1>1, <1>8, Paths DEF Insert
  <2>2. /\ account' = [account EXCEPT ![id] = b] /\ Draw(p) /\ HandOut("passwd", id, fresh + 1)
        /\ ~req[p].flag
    BY <1>3, <1>8 DEF Insert
  <2>3. account'[id].born = fresh + 1 /\ account'[id].passwd = fresh + 1
    BY <1>1, <2>2
  <2>4. QED
    BY <1>6, <2>1, <2>2, <2>3 DEF Done, Told, HandOut
<1>9. CASE SendMail(p)
  <2>1. /\ req[p].op \in {"register", "initReset", "reset"} /\ Reply(p, "ok") /\ pc[p] = "mail"
        /\ HandOut(Mailed(req[p].op), id, local[p].drawn) /\ UNCHANGED <<account, reset>>
    BY <1>1, <1>9, Paths DEF SendMail
  <2>2. n = local[p].drawn
    BY <1>5, <2>1
  <2>3. CASE req[p].op = "register"
    BY <1>2, <2>1, <2>2, <2>3 DEF Committed, Done, Told, HandOut, Mailed
  <2>4. CASE req[p].op = "initReset"
    BY <1>2, <2>1, <2>2, <2>4 DEF Committed, Done, Told, HandOut, Mailed
  <2>5. CASE req[p].op = "reset"
    BY <1>2, <2>1, <2>2, <2>5 DEF Committed, Done, Told, HandOut, Mailed
  <2>6. QED
    BY <2>1, <2>3, <2>4, <2>5
<1>10. CASE ActualRegister(p)
  <2>1. req[p].op = "actual"
    BY <1>1, <1>10, Paths DEF ActualRegister
  <2>2. account' = [account EXCEPT ![id].stage = "registered"]
    BY <1>3, <1>10 DEF ActualRegister
  <2>3. account'[id].stage = "registered"
    BY <1>1, <2>2 DEF Account
  <2>4. QED
    BY <2>1, <2>3 DEF Done
<1>11. CASE ResetPassword(p)
  <2>1. pc[p] = "resetPasswd" /\ reset[id] = req[p].n /\ reset[id] # 0 /\ local[p].row = req[p].n
    BY <1>2, <1>11 DEF ResetPassword, Current
  <2>2. local[p].row # 0 /\ Exists(id)
    BY <1>2, <2>1 DEF Rows
  <2>3. QED
    BY <1>3, <1>11, <2>2 DEF ResetPassword
<1>12. CASE ChangePassword(p)
  <2>1. req[p].op = "change"
    BY <1>1, <1>12, Paths DEF ChangePassword
  <2>2. /\ account' = [account EXCEPT ![id].passwd = fresh + 1] /\ Draw(p)
        /\ HandOut("passwd", id, fresh + 1)
    BY <1>3, <1>12 DEF ChangePassword
  <2>3. account'[id].passwd = fresh + 1
    BY <1>1, <2>2 DEF Account
  <2>4. QED
    BY <1>6, <2>1, <2>2, <2>3 DEF Done, Told, HandOut
<1>13. CASE TokenUser(p)
  <2>1. pc[p] = "tokenUser" /\ req[p].op \in {"publish", "oic"} /\ tokens' = tokens
    BY <1>1, <1>13, Paths DEF TokenUser
  <2>2. PICK o \in {"ok", "error"} : Reply(p, o)
    BY <1>13 DEF TokenUser
  <2>3. Reply(p, "ok") /\ n = local[p].drawn
    BY <1>1, <1>5, <2>2 DEF Reply
  <2>4. CASE req[p].op = "oic"
    BY <2>4 DEF Done
  <2>5. CASE req[p].op = "publish"
    <3> DEFINE t0 == [id |-> id, n |-> n, oic |-> FALSE]
               own == {t \in tokens' : t.id = id}
    <3>1. t0 \in own
      BY <1>2, <2>1, <2>3, <2>5 DEF Committed
    <3>2. ~req[p].flag => own = {t0}
      BY <1>2, <2>1, <2>3, <2>5 DEF Committed, TokensOf
    <3>3. ~req[p].flag => Cardinality(own) = 1
      BY <3>2, FS_Singleton
    <3>4. t0.n = n
      OBVIOUS
    <3>5. \E t \in own : t.n = n
      BY <3>1, <3>4
    <3> HIDE DEF t0
    <3>6. QED
      BY <2>5, <3>3, <3>5 DEF Done
  <2>6. QED
    BY <2>1, <2>4, <2>5
<1>14. CASE RemoveTokens(p)
  <2>1. req[p].op \in {"remove", "removeAll"}
    BY <1>1, <1>14, Paths DEF RemoveTokens
  <2>2. req[p].op = "removeAll" => {t \in tokens' : t.id = id} = {}
    BY <1>14 DEF RemoveTokens
  <2>3. QED
    BY <2>1, <2>2 DEF Done
<1>15. CASE DeleteUser(p)
  <2>1. req[p].op = "delete"
    BY <1>1, <1>15, Paths DEF DeleteUser
  <2>2. tokens' = tokens \ local[p].victims /\ TokensOf(id) \ local[p].victims = {}
    BY <1>3, <1>15 DEF DeleteUser
  <2>3. {t \in tokens' : t.id = id} = {}
    BY <2>2 DEF TokensOf
  <2>4. QED
    BY <2>1, <2>3 DEF Done
<1>16. QED
  BY <1>7, <1>8, <1>9, <1>10, <1>11, <1>12, <1>13, <1>14, <1>15

(* A request that is answered with success has done what it was asked to,  *)
(* and its user has been told what she needs to know.                      *)
THEOREM ReportsAreTrue == Serialized => (Spec => ReportIsTrue)
<1> SUFFICES ASSUME Serialized PROVE Spec => ReportIsTrue
  OBVIOUS
<1> DEFINE Reported == \A p \in Procs : outcome[p] # "ok" /\ outcome'[p] = "ok" => Done(p)
<1>1. TInv /\ SInv /\ [Next]_vars => [Reported]_vars
  <2>1. SUFFICES ASSUME TInv, SInv, [Next]_vars, NEW p \in Procs,
                        outcome[p] # "ok", outcome'[p] = "ok"
                 PROVE  Done(p)
    OBVIOUS
  <2>2. Step(p)
    BY <2>1, OtherOutcome, StartOutcome
  <2>3. QED
    BY <2>1, <2>2, SuccessDone
<1>2. ReportIsTrue <=> [][Reported]_vars
  BY DEF ReportIsTrue
<1>3. Spec => [](TInv /\ SInv)
  BY SInvariance
<1> HIDE DEF Reported
<1>4. QED
  BY <1>1, <1>2, <1>3, PTL DEF Spec
===============================================================================
