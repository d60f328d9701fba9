---------------------------- MODULE WorkflowProofs ----------------------------
(***************************************************************************)
(* What TLAPS proves about Workflow, for any number of requests,           *)
(* workflows, statuses, actions and roles: first what holds whatever the   *)
(* application does, then what it gets if it lets one request at a time    *)
(* work on a workflow (Serialized) and calls the engine inside             *)
(* transactions of its own (Joined): the route is connected, and the       *)
(* engine keeps the promise of WorkflowPromise.                            *)
(***************************************************************************)
EXTENDS Workflow, SequenceTheorems, WellFoundedInduction, TLAPS

-------------------------------------------------------------------------------
(* MAX and the last rows. *)

(* A set of numbers with a bound has a largest one. *)
LEMMA MaxExists ==
    ASSUME NEW S, S \subseteq Nat, S # {}, NEW n \in Nat, \A s \in S : s <= n
    PROVE  \E m \in S : \A k \in S : k <= m
<1> DEFINE R == {ss \in Nat \X Nat : ss[1] < ss[2]}
           T == {n - s : s \in S}
<1>1. IsWellFoundedOn(R, Nat)
  BY NatLessThanWellFounded DEF OpToRel
<1>2. T \subseteq Nat /\ T # {}
  <2>1. \A s \in S : n - s \in Nat
    OBVIOUS
  <2>2. QED
    BY <2>1
<1> HIDE DEF R
<1>3. PICK x \in T : \A y \in T : ~ (<<y, x>> \in R)
  BY <1>1, <1>2, WFMin
<1>4. PICK m \in S : x = n - m
  OBVIOUS
<1>5. ASSUME NEW k \in S PROVE k <= m
  <2>1. n - k \in T /\ n - k \in Nat /\ x \in Nat
    BY <1>2
  <2>2. ~ (n - k < x)
    BY <1>3, <2>1 DEF R
  <2>3. QED
    BY <1>4, <2>2
<1>6. QED
  BY <1>5

(* MaxSer of a set of rows whose numbers are bounded is their maximum. *)
LEMMA MaxSerProp ==
    ASSUME NEW rows, rows \subseteq Row,
           NEW n \in Nat, \A r \in rows : r.ser <= n
    PROVE  /\ MaxSer(rows) \in Nat
           /\ \A r \in rows : r.ser <= MaxSer(rows)
           /\ rows # {} => Last(rows) # {}
<1>1. CASE rows = {}
  BY <1>1 DEF MaxSer
<1>2. CASE rows # {}
  <2>1. Serials(rows) \subseteq Nat /\ Serials(rows) # {}
    BY <1>2 DEF Serials, Row
  <2>2. \A s \in Serials(rows) : s <= n
    BY DEF Serials
  <2>3. \E m \in Serials(rows) : \A k \in Serials(rows) : k <= m
    BY <2>1, <2>2, MaxExists
  <2>4. /\ MaxSer(rows) \in Serials(rows)
        /\ \A k \in Serials(rows) : k <= MaxSer(rows)
    BY <1>2, <2>3 DEF MaxSer
  <2>5. PICK r \in rows : r.ser = MaxSer(rows)
    BY <2>4 DEF Serials
  <2>6. Last(rows) # {}
    BY <2>5 DEF Last
  <2>7. QED
    BY <2>1, <2>4, <2>6 DEF Serials
<1>3. QED
  BY <1>1, <1>2

(* A numbered history runs from 1 to MaxSer. *)
LEMMA NumberedProp ==
    ASSUME NEW rows, rows \subseteq Row, Numbered(rows)
    PROVE  /\ MaxSer(rows) \in Nat
           /\ Serials(rows) = 1..MaxSer(rows)
           /\ \A r \in rows : r.ser <= MaxSer(rows)
<1>1. CASE rows = {}
  BY <1>1 DEF MaxSer, Serials
<1>2. CASE rows # {}
  <2>1. PICK r \in rows : Serials(rows) = 1..r.ser
    BY <1>2 DEF Numbered
  <2>2. r.ser \in Nat
    BY DEF Row
  <2>3. \A q \in rows : q.ser <= r.ser
    BY <2>1, <2>2 DEF Serials
  <2>4. /\ MaxSer(rows) \in Nat
        /\ \A q \in rows : q.ser <= MaxSer(rows)
        /\ Last(rows) # {}
    BY <1>2, <2>2, <2>3, MaxSerProp
  <2>5. MaxSer(rows) = r.ser
    <3>1. PICK q \in rows : q.ser = MaxSer(rows)
      BY <2>4 DEF Last
    <3>2. QED
      BY <2>2, <2>3, <2>4, <3>1
  <2>6. QED
    BY <2>1, <2>4, <2>5
<1>3. QED
  BY <1>1, <1>2

(* INSERT under the next number keeps a history numbered. *)
LEMMA AddNext ==
    ASSUME NEW rows, rows \subseteq Row, Numbered(rows),
           NEW r \in Row, r.ser = MaxSer(rows) + 1
    PROVE  /\ Numbered(rows \cup {r})
           /\ MaxSer(rows \cup {r}) = r.ser
<1> DEFINE more == rows \cup {r}
<1>1. /\ MaxSer(rows) \in Nat
      /\ Serials(rows) = 1..MaxSer(rows)
      /\ \A q \in rows : q.ser <= MaxSer(rows)
  BY NumberedProp
<1>2. Serials(more) = Serials(rows) \cup {r.ser}
  BY DEF Serials
<1>3. Serials(more) = 1..r.ser
  <2>1. \A n \in Nat : 1..(n + 1) = (1..n) \cup {n + 1}
    OBVIOUS
  <2>2. 1..r.ser = (1..MaxSer(rows)) \cup {r.ser}
    BY <1>1, <2>1
  <2>3. QED
    BY <1>1, <1>2, <2>2
<1>4. \A p, q \in more : p.ser = q.ser => p = q
  BY <1>1 DEF Numbered, Row
<1>5. Numbered(more)
  BY <1>3, <1>4 DEF Numbered
<1>6. MaxSer(more) = r.ser
  <2>1. more \subseteq Row
    OBVIOUS
  <2>2. /\ MaxSer(more) \in Nat
        /\ Serials(more) = 1..MaxSer(more)
    BY <1>5, <2>1, NumberedProp
  <2>3. r.ser \in Nat /\ r.ser >= 1
    BY <1>1
  <2>4. r.ser \in 1..MaxSer(more)
    BY <1>3, <2>2, <2>3
  <2>5. MaxSer(more) \in 1..r.ser
    BY <1>3, <2>2, <2>3, <2>4
  <2>6. QED
    BY <2>2, <2>3, <2>4, <2>5
<1>7. QED
  BY <1>5, <1>6

(* A history only grows upwards. *)
LEMMA MoreRows ==
    ASSUME NEW rows, NEW more, more \subseteq Row, rows \subseteq more,
           Numbered(rows), Numbered(more)
    PROVE  MaxSer(rows) <= MaxSer(more)
<1>1. /\ MaxSer(rows) \in Nat
      /\ Serials(rows) = 1..MaxSer(rows)
  BY NumberedProp
<1>2. /\ MaxSer(more) \in Nat
      /\ Serials(more) = 1..MaxSer(more)
  BY NumberedProp
<1>3. Serials(rows) \subseteq Serials(more)
  BY DEF Serials
<1>4. QED
  BY <1>1, <1>2, <1>3

-------------------------------------------------------------------------------
(* The inductive invariant. What each request relies on when it executes   *)
(* its next statement is part of it: which locals it has set, whether its  *)
(* transaction is open, that the number it has read is still one of the    *)
(* history's or the next, that the row it is about to put on the route is  *)
(* in the history.                                                         *)

Writing == {"max", "insertLog", "progress", "commit"}

(* A workflow's rows, committed or not. *)
Sound(t) ==
    /\ Numbered(t.log)
    /\ \A r \in t.prog : r \in t.log /\ r.code # Rollback

Located(p) ==
    /\ pc[p] \notin {"idle", "insertId", "generate"} => req[p].wf \in WfIds
    /\ pc[p] = "generate" => req[p].op = "init" \/ req[p].wf \in WfIds
    /\ pc[p] \in {"insertId", "update"} \cup Writing => post[p] \in Statuses

Transacted(p) ==
    /\ pc[p] = "commit" => Joined
    /\ IF Joined /\ pc[p] \in Writing THEN tx[p].status \in Statuses ELSE tx[p] = NoRows

Pending(p) ==
    /\ pc[p] = "insertLog" => ser[p] \in 1..(MaxSer(View(p).log) + 1)
    /\ pc[p] = "progress" => NewRow(p) \in View(p).log

Local(p) == Located(p) /\ Transacted(p) /\ Pending(p)

IInv ==
    /\ TypeOK
    /\ \A w \in WfIds : Sound(db[w])
    /\ \A p \in Procs : Sound(tx[p])
    /\ \A p \in Procs : Local(p)

(* What a workflow's rows may turn into under a request's statement. *)
Grows(t, u) == u \in Tables /\ Sound(u) /\ t.log \subseteq u.log

-------------------------------------------------------------------------------
(* A request relies on nothing another request changes. *)
LEMMA OthersKeep ==
    ASSUME IInv, TypeOK', NEW q \in Procs, Local(q),
           UNCHANGED <<pc[q], req[q], post[q], ser[q], tx[q]>>,
           Joined \/ \A w \in WfIds : Grows(db[w], db'[w])
    PROVE  Local(q)'
<1>1. Located(q)'
  BY DEF Local, Located
<1>2. Transacted(q)'
  BY DEF Local, Transacted
<1>3. Pending(q)'
  <2>1. CASE Joined /\ pc[q] \in Writing
    <3>1. View(q)' = View(q)
      BY <2>1, MastersAssumption DEF Local, Transacted, View, InTx, NoRows
    <3>2. QED
      BY <3>1 DEF Local, Pending, NewRow
  <2>2. CASE pc[q] \notin Writing
    BY <2>2 DEF Pending, Writing
  <2>3. CASE ~Joined /\ pc[q] \in Writing
    <3>1. View(q) = db[req[q].wf] /\ View(q)' = db'[req[q].wf]
      BY <2>3 DEF Local, Transacted, View, InTx
    <3>2. req[q].wf \in WfIds
      BY <2>3 DEF Local, Located, Writing
    <3>3. Grows(View(q), View(q)')
      BY <2>3, <3>1, <3>2
    <3>4. /\ View(q).log \subseteq Row /\ Numbered(View(q).log)
          /\ View(q)'.log \subseteq Row /\ Numbered(View(q)'.log)
          /\ View(q).log \subseteq View(q)'.log
      BY <3>1, <3>2, <3>3 DEF IInv, TypeOK, Tables, Sound, Grows
    <3>5. /\ MaxSer(View(q).log) \in Nat /\ MaxSer(View(q)'.log) \in Nat
          /\ MaxSer(View(q).log) <= MaxSer(View(q)'.log)
      BY <3>4, MoreRows, NumberedProp
    <3>6. ser[q] \in Nat
      BY DEF IInv, TypeOK
    <3>7. QED
      BY <3>4, <3>5, <3>6 DEF Local, Pending, NewRow
  <2>4. QED
    BY <2>1, <2>2, <2>3
<1>4. QED
  BY <1>1, <1>2, <1>3 DEF Local

(* So a step of request p need only be shown to keep what p relies on,     *)
OtherRequests(p) ==
    \A q \in Procs \ {p} : UNCHANGED <<pc[q], req[q], post[q], ser[q], tx[q]>>

(* if it leaves the committed tables alone,                                *)
LEMMA ReadStep ==
    ASSUME IInv, TypeOK', NEW p \in Procs, OtherRequests(p), Local(p)',
           UNCHANGED db, tx'[p] \in {tx[p], NoRows}
    PROVE  IInv'
<1>1. \A w \in WfIds : Sound(db'[w])
  BY DEF IInv
<1>2. ASSUME NEW q \in Procs PROVE Sound(tx'[q])
  <2>1. Sound(NoRows)
    BY DEF Sound, NoRows, Numbered
  <2>2. QED
    BY <2>1 DEF IInv, OtherRequests
<1>3. ASSUME NEW q \in Procs PROVE Local(q)'
  <2>1. \A w \in WfIds : Grows(db[w], db'[w])
    BY DEF IInv, Grows, TypeOK
  <2>2. CASE q # p
    BY <2>1, <2>2, OthersKeep DEF IInv, OtherRequests
  <2>3. QED
    BY <2>2
<1>4. QED
  BY <1>1, <1>2, <1>3 DEF IInv

(* or if it turns a workflow's rows into others that grow from them.       *)
LEMMA WriteStep ==
    ASSUME IInv, TypeOK', NEW p \in Procs, OtherRequests(p), Local(p)',
           NEW w \in WfIds, NEW t, Write(p, w, t), Sound(t),
           ~Joined => db[w].log \subseteq t.log
    PROVE  IInv'
<1>1. CASE Joined
  <2>1. UNCHANGED db /\ tx' = [tx EXCEPT ![p] = t]
    BY <1>1 DEF Write
  <2>2. \A q \in Procs : Sound(tx'[q])
    BY <2>1 DEF IInv, TypeOK
  <2>3. \A q \in Procs : Local(q)'
    BY <1>1, OthersKeep DEF IInv, OtherRequests
  <2>4. QED
    BY <2>1, <2>2, <2>3 DEF IInv
<1>2. CASE ~Joined
  <2>1. UNCHANGED tx /\ db' = [db EXCEPT ![w] = t]
    BY <1>2 DEF Write
  <2>2. ASSUME NEW v \in WfIds PROVE Grows(db[v], db'[v])
    <3>1. db'[v] \in Tables
      BY DEF TypeOK
    <3>2. QED
      BY <1>2, <2>1, <3>1 DEF IInv, TypeOK, Grows
  <2>3. \A q \in Procs : Local(q)'
    BY <2>2, OthersKeep DEF IInv, OtherRequests
  <2>4. QED
    BY <2>1, <2>2, <2>3 DEF IInv, Grows
<1>3. QED
  BY <1>1, <1>2

-------------------------------------------------------------------------------
(* The initial states. *)
LEMMA InitIInv == Init => IInv
<1> SUFFICES ASSUME Init PROVE IInv
  OBVIOUS
<1>1. Sound(NoRows) /\ NoRows \in Tables
  BY DEF Sound, NoRows, Numbered, Tables
<1>2. NoRequest \in Request
  BY MastersAssumption DEF NoRequest, Request
<1>3. TypeOK
  BY <1>1, <1>2 DEF Init, TypeOK, Labels
<1>4. \A p \in Procs : Local(p)
  BY DEF Init, Local, Located, Transacted, Pending, Writing
<1>5. QED
  BY <1>1, <1>3, <1>4 DEF Init, IInv

(* Requests begin. *)
LEMMA BeginStep ==
    ASSUME IInv, NEW p \in Procs, NEW r \in Request, NEW label \in {"check", "generate"},
           (r.op = "init" /\ label = "generate") \/ r.wf \in WfIds,
           Begin(p, r, label)
    PROVE  IInv'
<1>1. TypeOK'
  BY DEF IInv, TypeOK, Begin, Goto, Labels
<1>2. OtherRequests(p) /\ UNCHANGED <<db, tx>>
  BY DEF IInv, TypeOK, Begin, Goto, OtherRequests
<1>3. Local(p)'
  BY DEF IInv, TypeOK, Begin, Goto, Local, Located, Transacted, Pending, Writing
<1>4. QED
  BY <1>1, <1>2, <1>3, ReadStep

LEMMA StartSteps ==
    ASSUME IInv, NEW p \in Procs, StartInit(p) \/ StartAction(p)
    PROVE  IInv'
<1>1. CASE StartInit(p)
  <2>1. PICK role \in Roles, c \in Codes \cup {Rollback} :
          Begin(p, [op |-> "init", wf |-> NoWf, code |-> c, role |-> role], "generate")
    BY <1>1 DEF StartInit
  <2>2. [op |-> "init", wf |-> NoWf, code |-> c, role |-> role] \in Request
    BY DEF Request, AllOps
  <2>3. QED
    BY <2>1, <2>2, BeginStep
<1>2. CASE StartAction(p)
  <2>1. PICK op \in AllOps \ {"init"}, w \in known, role \in Roles, c \in Codes \cup {Rollback} :
          Begin(p, [op |-> op, wf |-> w, code |-> c, role |-> role],
                IF op = "act" THEN "check" ELSE "generate")
    BY <1>2 DEF StartAction
  <2>2. w \in WfIds
    BY DEF IInv, TypeOK
  <2>3. [op |-> op, wf |-> w, code |-> c, role |-> role] \in Request
    BY <2>2 DEF Request
  <2>4. QED
    BY <2>1, <2>2, <2>3, BeginStep
<1>3. QED
  BY <1>1, <1>2

(* Requests end with an exception. *)
LEMMA ThrowStep ==
    ASSUME IInv, NEW p \in Procs, NEW o \in {"unauthorized", "npe", "error"}, Throw(p, o)
    PROVE  IInv'
<1>1. NoRequest \in Request /\ NoRows \in Tables
  BY MastersAssumption DEF NoRequest, Request, NoRows, Tables
<1>2. TypeOK'
  BY <1>1 DEF IInv, TypeOK, Throw, Goto, Labels
<1>3. OtherRequests(p) /\ UNCHANGED db /\ tx'[p] = NoRows
  BY DEF IInv, TypeOK, Throw, Goto, OtherRequests
<1>4. Local(p)'
  BY DEF IInv, TypeOK, Throw, Goto, Local, Located, Transacted, Pending, Writing
<1>5. QED
  BY <1>2, <1>3, <1>4, ReadStep

-------------------------------------------------------------------------------
(* The statements that read. *)
LEMMA CheckSteps ==
    ASSUME IInv, NEW p \in Procs,
           \/ CheckGo(p)
           \/ RollbackByStatus(p, "check", "checkRollback")
           \/ CheckRollback(p)
           \/ RollbackByStatus(p, "generate", "generateRollback")
    PROVE  IInv'
<1>1. ASSUME NEW label \in {"checkRollback", "generate", "generateRollback"},
             Goto(p, label), UNCHANGED <<db, tx, known, req, post, ser, outcome>>,
             pc[p] \in {"check", "checkRollback", "generate"}, req[p].wf \in WfIds
      PROVE  IInv'
  <2>1. TypeOK'
    BY <1>1 DEF IInv, TypeOK, Goto, Labels
  <2>2. OtherRequests(p)
    BY <1>1 DEF IInv, TypeOK, Goto, OtherRequests
  <2>3. Local(p)'
    BY <1>1 DEF IInv, TypeOK, Goto, Local, Located, Transacted, Pending, Writing
  <2>4. QED
    BY <1>1, <2>1, <2>2, <2>3, ReadStep
<1>2. req[p].op = "init" \/ req[p].wf \in WfIds
  BY DEF IInv, Local, Located, CheckGo, RollbackByStatus, CheckRollback
<1>3. CASE CheckGo(p)
  BY <1>1, <1>3, ThrowStep DEF CheckGo, IInv, Local, Located
<1>4. CASE RollbackByStatus(p, "check", "checkRollback")
  BY <1>1, <1>2, <1>4, ThrowStep DEF RollbackByStatus
<1>5. CASE CheckRollback(p)
  BY <1>1, <1>5, ThrowStep DEF CheckRollback, IInv, Local, Located
<1>6. CASE RollbackByStatus(p, "generate", "generateRollback")
  BY <1>1, <1>2, <1>6, ThrowStep DEF RollbackByStatus
<1>7. QED
  BY <1>3, <1>4, <1>5, <1>6

(* The status a rollback leads to is one of the masters'. *)
LEMMA RollbackStatusType ==
    ASSUME IInv, NEW w \in WfIds, HasRollback(db[w].prog)
    PROVE  RollbackStatus(db[w].prog) \in Statuses
<1> DEFINE log == db[w].log
           rest == db[w].prog \ Last(db[w].prog)
<1>1. rest \subseteq log /\ log \subseteq Row /\ Numbered(log)
  BY DEF IInv, TypeOK, Tables, Sound
<1>2. MaxSer(log) \in Nat /\ \A r \in rest : r.ser <= MaxSer(log)
  BY <1>1, NumberedProp
<1>3. Last(rest) # {}
  BY <1>1, <1>2, MaxSerProp DEF HasRollback
<1>4. (CHOOSE r \in Last(rest) : TRUE) \in rest
  BY <1>3 DEF Last
<1>5. QED
  BY <1>1, <1>4 DEF RollbackStatus, StatusOf, Row

LEMMA GenerateSteps ==
    ASSUME IInv, NEW p \in Procs, GenerateRollback(p) \/ GenerateGo(p) \/ GenerateNothing(p)
    PROVE  IInv'
<1>1. ASSUME NEW label \in {"insertId", "update"}, NEW s \in Statuses,
             Goto(p, label), post' = [post EXCEPT ![p] = s],
             UNCHANGED <<db, tx, known, req, ser, outcome>>,
             pc[p] \in {"generate", "generateRollback"},
             label = "update" => req[p].wf \in WfIds
      PROVE  IInv'
  <2>1. TypeOK'
    BY <1>1 DEF IInv, TypeOK, Goto, Labels
  <2>2. OtherRequests(p)
    BY <1>1 DEF IInv, TypeOK, Goto, OtherRequests
  <2>3. Local(p)'
    BY <1>1 DEF IInv, TypeOK, Goto, Local, Located, Transacted, Pending, Writing
  <2>4. QED
    BY <1>1, <2>1, <2>2, <2>3, ReadStep
<1>2. CASE GenerateRollback(p)
  <2>1. req[p].wf \in WfIds
    BY <1>2 DEF GenerateRollback, IInv, Local, Located
  <2>2. CASE HasRollback(db[req[p].wf].prog)
    <3>1. RollbackStatus(db[req[p].wf].prog) \in Statuses
      BY <2>1, <2>2, RollbackStatusType
    <3>2. QED
      BY <1>1, <1>2, <2>1, <2>2, <3>1 DEF GenerateRollback
  <2>3. CASE ~HasRollback(db[req[p].wf].prog)
    BY <1>2, <2>3, ThrowStep DEF GenerateRollback
  <2>4. QED
    BY <2>2, <2>3
<1>3. CASE GenerateGo(p)
  <2>1. req[p].code \in Codes
    BY <1>3 DEF GenerateGo, IInv, TypeOK, Request
  <2>2. Rote[req[p].code].post \in Statuses
    BY <2>1, MastersAssumption
  <2>3. req[p].op # "init" => req[p].wf \in WfIds
    BY <1>3 DEF GenerateGo, IInv, Local, Located
  <2>4. CASE Permitted(req[p].role, req[p].code)
    <3>1. CASE req[p].op = "init"
      BY <1>1, <1>3, <2>2, <2>4, <3>1 DEF GenerateGo
    <3>2. CASE req[p].op # "init"
      BY <1>1, <1>3, <2>2, <2>3, <2>4, <3>2 DEF GenerateGo
    <3>3. QED
      BY <3>1, <3>2
  <2>5. CASE ~Permitted(req[p].role, req[p].code)
    BY <1>3, <2>5, ThrowStep DEF GenerateGo
  <2>6. QED
    BY <2>4, <2>5
<1>4. CASE GenerateNothing(p)
  BY <1>4, ThrowStep DEF GenerateNothing
<1>5. QED
  BY <1>2, <1>3, <1>4

LEMMA SelectMaxStep ==
    ASSUME IInv, NEW p \in Procs, SelectMaxSerNo(p)
    PROVE  IInv'
<1>1. View(p) \in Tables /\ Sound(View(p)) /\ req[p].wf \in WfIds
  BY DEF SelectMaxSerNo, IInv, TypeOK, Local, Located, View
<1>2. MaxSer(View(p).log) \in Nat
  BY <1>1, NumberedProp DEF Tables, Sound
<1>3. TypeOK'
  BY <1>2 DEF SelectMaxSerNo, IInv, TypeOK, Goto, Labels
<1>4. OtherRequests(p)
  BY DEF SelectMaxSerNo, IInv, TypeOK, Goto, OtherRequests
<1>5. View(p)' = View(p) /\ ser'[p] = MaxSer(View(p).log) + 1
  BY DEF SelectMaxSerNo, IInv, TypeOK, View, InTx
<1>6. Pending(p)'
  BY <1>2, <1>5 DEF SelectMaxSerNo, Goto, IInv, TypeOK, Pending
<1>7. Located(p)' /\ Transacted(p)'
  BY DEF SelectMaxSerNo, Goto, IInv, TypeOK, Local, Located, Transacted, Writing
<1>8. QED
  BY <1>3, <1>4, <1>6, <1>7, ReadStep DEF Local, SelectMaxSerNo

-------------------------------------------------------------------------------
(* The statements that write. *)
LEMMA WriteType ==
    ASSUME IInv, NEW p \in Procs, NEW w \in WfIds, NEW t \in Tables, Write(p, w, t)
    PROVE  /\ db' \in [WfIds -> Tables]
           /\ tx' \in [Procs -> Tables]
           /\ \A q \in Procs \ {p} : tx'[q] = tx[q]
           /\ IF Joined THEN tx'[p] = t ELSE tx'[p] = tx[p] /\ db'[w] = t
  BY DEF IInv, TypeOK, Write

LEMMA InsertIdStep ==
    ASSUME IInv, NEW p \in Procs, InsertWFIDManagement(p)
    PROVE  IInv'
<1> DEFINE t == [NoRows EXCEPT !.status = post[p]]
<1>1. PICK w \in WfIds : /\ db[w] = NoRows
                         /\ req' = [req EXCEPT ![p].wf = w]
                         /\ Write(p, w, t)
  BY DEF InsertWFIDManagement
<1>2. pc[p] = "insertId" /\ post[p] \in Statuses
  BY DEF InsertWFIDManagement, IInv, Local, Located
<1>3. t \in Tables /\ Sound(t) /\ t.status = post[p] /\ db[w].log = {}
  BY <1>1, <1>2 DEF NoRows, Tables, Sound, Numbered
<1> HIDE DEF t
<1>4. TypeOK'
  <2>1. [req[p] EXCEPT !.wf = w] \in Request
    BY DEF IInv, TypeOK, Request
  <2>2. req' \in [Procs -> Request]
    BY <1>1, <2>1 DEF IInv, TypeOK
  <2>3. QED
    BY <1>1, <1>3, <2>2, WriteType DEF InsertWFIDManagement, IInv, TypeOK, Goto, Labels
<1>5. OtherRequests(p)
  BY <1>1, <1>3, WriteType DEF InsertWFIDManagement, IInv, TypeOK, Goto, OtherRequests
<1>6. pc'[p] = "max" /\ req'[p].wf = w /\ post'[p] = post[p]
  BY <1>1 DEF InsertWFIDManagement, IInv, TypeOK, Goto, Request
<1>7. Transacted(p)'
  BY <1>1, <1>2, <1>3, <1>6, WriteType DEF IInv, Local, Transacted, Writing
<1>8. Local(p)'
  BY <1>2, <1>6, <1>7 DEF Local, Located, Pending
<1>9. QED
  BY <1>1, <1>3, <1>4, <1>5, <1>8, WriteStep

LEMMA UpdateStep ==
    ASSUME IInv, NEW p \in Procs, UpdateWFIDManagement(p)
    PROVE  IInv'
<1> DEFINE w == req[p].wf
           t == [db[w] EXCEPT !.status = post[p]]
<1>1. /\ pc[p] = "update" /\ pc'[p] = "max"
      /\ post[p] \in Statuses /\ w \in WfIds
      /\ Write(p, w, t)
  BY DEF UpdateWFIDManagement, Goto, IInv, TypeOK, Local, Located
<1>2. t \in Tables /\ Sound(t) /\ t.status = post[p] /\ t.log = db[w].log
  BY <1>1 DEF IInv, TypeOK, Tables, Sound
<1> HIDE DEF t
<1>3. TypeOK'
  BY <1>1, <1>2, WriteType DEF UpdateWFIDManagement, IInv, TypeOK, Goto, Labels
<1>4. OtherRequests(p)
  BY <1>1, <1>2, WriteType DEF UpdateWFIDManagement, IInv, TypeOK, Goto, OtherRequests
<1>5. Transacted(p)'
  BY <1>1, <1>2, WriteType DEF IInv, Local, Transacted, Writing
<1>6. Local(p)'
  BY <1>1, <1>5 DEF UpdateWFIDManagement, Local, Located, Pending
<1>7. QED
  BY <1>1, <1>2, <1>3, <1>4, <1>6, WriteStep

(* What a request in the middle of its writing sees, and what it sees      *)
(* after one more write.                                                   *)
LEMMA WritingView ==
    ASSUME IInv, NEW p \in Procs, pc[p] \in Writing
    PROVE  /\ req[p].wf \in WfIds
           /\ post[p] \in Statuses
           /\ View(p) \in Tables
           /\ Sound(View(p))
           /\ View(p) = IF Joined THEN tx[p] ELSE db[req[p].wf]
           /\ Joined => View(p).status \in Statuses
<1>1. req[p].wf \in WfIds /\ post[p] \in Statuses
  BY DEF IInv, Local, Located, Writing
<1>2. CASE Joined
  <2>1. tx[p].status \in Statuses
    BY <1>2 DEF IInv, Local, Transacted
  <2>2. View(p) = tx[p]
    BY <2>1, MastersAssumption DEF View, InTx, NoRows
  <2>3. QED
    BY <1>1, <1>2, <2>1, <2>2 DEF IInv, TypeOK
<1>3. CASE ~Joined
  BY <1>1, <1>3 DEF IInv, TypeOK, Local, Transacted, View, InTx
<1>4. QED
  BY <1>1, <1>2, <1>3

LEMMA WrittenView ==
    ASSUME IInv, NEW p \in Procs, pc[p] \in Writing, UNCHANGED req,
           NEW t \in Tables, Write(p, req[p].wf, t), t.status = View(p).status
    PROVE  /\ View(p)' = t
           /\ IF Joined THEN tx'[p].status \in Statuses ELSE tx'[p] = NoRows
<1>1. req[p].wf \in WfIds
  BY WritingView
<1>2. IF Joined THEN tx'[p] = t ELSE tx'[p] = tx[p] /\ db'[req[p].wf] = t
  BY <1>1, WriteType
<1>3. CASE Joined
  <2>1. t.status \in Statuses
    BY <1>3, WritingView
  <2>2. QED
    BY <1>2, <1>3, <2>1, MastersAssumption DEF View, InTx, NoRows
<1>4. CASE ~Joined
  <2>1. tx[p] = NoRows
    BY <1>4 DEF IInv, Local, Transacted
  <2>2. QED
    BY <1>2, <1>4, <2>1 DEF View, InTx
<1>5. QED
  BY <1>3, <1>4

(* insertWFLog writes the row under the number it has read: still the next *)
(* one, or else the INSERT fails on the key.                               *)
LEMMA InsertLogStep ==
    ASSUME IInv, NEW p \in Procs, InsertWFLog(p)
    PROVE  IInv'
<1> DEFINE w == req[p].wf
           t == [View(p) EXCEPT !.log = @ \cup {NewRow(p)}]
<1>1. pc[p] = "insertLog" /\ pc'[p] = "progress" /\ Write(p, w, t)
  BY DEF InsertWFLog, Goto, IInv, TypeOK
<1>2. /\ w \in WfIds /\ post[p] \in Statuses
      /\ View(p) \in Tables /\ Sound(View(p))
      /\ View(p) = IF Joined THEN tx[p] ELSE db[w]
  BY <1>1, WritingView DEF Writing
<1>3. MaxSer(View(p).log) \in Nat /\ Serials(View(p).log) = 1..MaxSer(View(p).log)
  BY <1>2, NumberedProp DEF Tables, Sound
<1>4. NewRow(p) \in Row /\ NewRow(p).ser = MaxSer(View(p).log) + 1
  <2>1. ser[p] \in 1..(MaxSer(View(p).log) + 1) /\ ser[p] \notin 1..MaxSer(View(p).log)
    BY <1>1, <1>3 DEF InsertWFLog, IInv, Local, Pending
  <2>2. ser[p] \in Nat /\ ser[p] = MaxSer(View(p).log) + 1
    BY <1>3, <2>1
  <2>3. req[p].code \in Codes \cup {Rollback}
    BY DEF IInv, TypeOK, Request
  <2>4. QED
    BY <1>2, <2>2, <2>3 DEF NewRow, Row
<1>5. /\ t.log = View(p).log \cup {NewRow(p)}
      /\ t.prog = View(p).prog /\ t.status = View(p).status
      /\ t \in Tables
  BY <1>2, <1>4 DEF Tables
<1> HIDE DEF t
<1>6. Sound(t)
  <2>1. Numbered(t.log)
    BY <1>2, <1>4, <1>5, AddNext DEF Sound, Tables
  <2>2. QED
    BY <1>2, <1>5, <2>1 DEF Sound
<1>7. TypeOK'
  BY <1>1, <1>2, <1>5, WriteType DEF InsertWFLog, IInv, TypeOK, Goto, Labels
<1>8. OtherRequests(p)
  BY <1>1, <1>2, <1>5, WriteType DEF InsertWFLog, IInv, TypeOK, Goto, OtherRequests
<1>9. View(p)' = t /\ Transacted(p)'
  <2>1. /\ View(p)' = t
        /\ IF Joined THEN tx'[p].status \in Statuses ELSE tx'[p] = NoRows
    BY <1>1, <1>5, WrittenView DEF InsertWFLog, Writing
  <2>2. QED
    BY <1>1, <2>1 DEF Transacted, Writing
<1>10. Local(p)'
  BY <1>1, <1>2, <1>5, <1>9 DEF InsertWFLog, Local, Located, Pending, NewRow
<1>11. QED
  BY <1>1, <1>2, <1>5, <1>6, <1>7, <1>8, <1>10, WriteStep

(* The route is written last: what it gains is in the history by then.     *)
LEMMA ProgressStep ==
    ASSUME IInv, NEW p \in Procs, WriteProgress(p)
    PROVE  IInv'
<1> DEFINE w == req[p].wf
           t == [View(p) EXCEPT !.prog = Progress(p, @)]
<1>1. /\ pc[p] = "progress"
      /\ pc'[p] = IF Joined THEN "commit" ELSE "idle"
      /\ Write(p, w, t)
  BY DEF WriteProgress, Goto, IInv, TypeOK
<1>2. /\ w \in WfIds /\ post[p] \in Statuses
      /\ View(p) \in Tables /\ Sound(View(p))
      /\ View(p) = IF Joined THEN tx[p] ELSE db[w]
  BY <1>1, WritingView DEF Writing
<1>3. \A r \in Progress(p, View(p).prog) : r \in View(p).log /\ r.code # Rollback
  <2>1. NewRow(p) \in View(p).log
    BY <1>1 DEF IInv, Local, Pending
  <2>2. req[p].code # Rollback => NewRow(p).code # Rollback
    BY DEF NewRow
  <2>3. \A r \in View(p).prog : r \in View(p).log /\ r.code # Rollback
    BY <1>2 DEF Sound
  <2>4. CASE req[p].code = Rollback
    BY <2>3, <2>4 DEF Progress
  <2>5. CASE req[p].code # Rollback
    <3>1. Progress(p, View(p).prog) \subseteq View(p).prog \cup {NewRow(p)}
      BY <2>5 DEF Progress
    <3>2. QED
      BY <2>1, <2>2, <2>3, <2>5, <3>1
  <2>6. QED
    BY <2>4, <2>5
<1>4. /\ t.log = View(p).log /\ t.status = View(p).status
      /\ t \in Tables /\ Sound(t)
  <2>1. Progress(p, View(p).prog) \subseteq Row
    BY <1>2, <1>3 DEF Tables
  <2>2. QED
    BY <1>2, <1>3, <2>1 DEF Tables, Sound
<1> HIDE DEF t
<1>5. TypeOK'
  <2>1. known' \subseteq WfIds /\ outcome' \in [Procs -> {"none", "ok", "unauthorized", "npe", "error"}]
    BY <1>2 DEF WriteProgress, Succeed, IInv, TypeOK
  <2>2. QED
    BY <1>1, <1>2, <1>4, <2>1, WriteType DEF WriteProgress, IInv, TypeOK, Goto, Labels
<1>6. OtherRequests(p)
  BY <1>1, <1>2, <1>4, WriteType DEF WriteProgress, IInv, TypeOK, Goto, OtherRequests
<1>7. Transacted(p)'
  <2>1. IF Joined THEN tx'[p].status \in Statuses ELSE tx'[p] = NoRows
    BY <1>1, <1>4, WrittenView DEF WriteProgress, Writing
  <2>2. QED
    BY <1>1, <2>1 DEF Transacted, Writing
<1>8. Local(p)'
  BY <1>1, <1>2, <1>7 DEF WriteProgress, Local, Located, Pending
<1>9. QED
  BY <1>1, <1>2, <1>4, <1>5, <1>6, <1>8, WriteStep

(* A commit publishes rows that are sound in themselves; other requests    *)
(* that write are in transactions of their own and do not see them.        *)
LEMMA CommitStep ==
    ASSUME IInv, NEW p \in Procs, Commit(p)
    PROVE  IInv'
<1>1. pc[p] = "commit" /\ Joined /\ req[p].wf \in WfIds
  BY DEF Commit, IInv, Local, Located, Transacted
<1>2. NoRows \in Tables /\ Sound(NoRows)
  BY DEF NoRows, Tables, Sound, Numbered
<1>3. TypeOK'
  <2>1. known' \subseteq WfIds /\ outcome' \in [Procs -> {"none", "ok", "unauthorized", "npe", "error"}]
    BY <1>1 DEF Commit, Succeed, IInv, TypeOK
  <2>2. db' \in [WfIds -> Tables] /\ tx' \in [Procs -> Tables]
    BY <1>1, <1>2 DEF Commit, IInv, TypeOK
  <2>3. QED
    BY <2>1, <2>2 DEF Commit, Goto, IInv, TypeOK, Labels
<1>4. \A w \in WfIds : Sound(db'[w])
  BY <1>1 DEF Commit, IInv, TypeOK
<1>5. \A q \in Procs : Sound(tx'[q])
  BY <1>2 DEF Commit, IInv, TypeOK
<1>6. ASSUME NEW q \in Procs PROVE Local(q)'
  <2>1. CASE q = p
    BY <1>3, <2>1 DEF Commit, Goto, IInv, TypeOK, Local, Located, Transacted, Pending, Writing
  <2>2. CASE q # p
    <3>1. UNCHANGED <<pc[q], req[q], post[q], ser[q], tx[q]>>
      BY <2>2 DEF Commit, Goto, IInv, TypeOK
    <3>2. QED
      BY <1>1, <1>3, <3>1, OthersKeep DEF IInv
  <2>3. QED
    BY <2>1, <2>2
<1>7. QED
  BY <1>3, <1>4, <1>5, <1>6 DEF IInv

-------------------------------------------------------------------------------
(* Every step keeps the invariant. *)
LEMMA NextIInv == IInv /\ [Next]_vars => IInv'
<1> SUFFICES ASSUME IInv, [Next]_vars PROVE IInv'
  OBVIOUS
<1>1. CASE UNCHANGED vars
  <2>1. /\ UNCHANGED <<db, tx, known, pc, req, post, ser, outcome>>
        /\ \A p \in Procs : UNCHANGED <<View(p), NewRow(p)>>
    BY <1>1 DEF vars, View, InTx, NewRow
  <2>2. QED
    BY <2>1 DEF IInv, TypeOK, Local, Located, Transacted, Pending
<1>2. ASSUME NEW p \in Procs, StartInit(p) \/ StartAction(p) PROVE IInv'
  BY <1>2, StartSteps
<1>3. ASSUME NEW p \in Procs, Fail(p) PROVE IInv'
  BY <1>3, ThrowStep DEF Fail
<1>4. ASSUME NEW p \in Procs, DuplicateSerNo(p) PROVE IInv'
  BY <1>4, ThrowStep DEF DuplicateSerNo
<1>5. ASSUME NEW p \in Procs, Step(p) PROVE IInv'
  BY <1>4, <1>5, CheckSteps, GenerateSteps, InsertIdStep, UpdateStep, SelectMaxStep,
     InsertLogStep, ProgressStep, CommitStep DEF Step
<1>6. QED
  BY <1>1, <1>2, <1>3, <1>5 DEF Next

LEMMA Invariance == Spec => []IInv
<1>1. QED
  BY InitIInv, NextIInv, PTL DEF Spec

(* The tables hold what their columns admit and every request's locals are *)
(* what its next statement can use.                                        *)
THEOREM TypeCorrect == Spec => []TypeOK
<1>1. IInv => TypeOK
  BY DEF IInv
<1>2. QED
  BY <1>1, Invariance, PTL

(* The history of every workflow is numbered without gap or double, with   *)
(* and without a transaction of the application, whatever fails.           *)
THEOREM HistoryNumbered == Spec => []LogNumbered
<1>1. IInv => LogNumbered
  BY DEF IInv, LogNumbered, Sound
<1>2. QED
  BY <1>1, Invariance, PTL

(* The route a rollback goes back along consists of rows of the history.   *)
THEOREM RouteIsLogged == Spec => []ProgressLogged
<1>1. IInv => ProgressLogged
  BY DEF IInv, ProgressLogged, Sound
<1>2. QED
  BY <1>1, Invariance, PTL

-------------------------------------------------------------------------------
(* The steps that write nothing: a request begins, asks the masters or the *)
(* tables, or ends with an exception.                                      *)
Quiet(p) ==
    \/ StartInit(p) \/ StartAction(p)
    \/ CheckGo(p) \/ CheckRollback(p)
    \/ RollbackByStatus(p, "check", "checkRollback")
    \/ RollbackByStatus(p, "generate", "generateRollback")
    \/ GenerateRollback(p) \/ GenerateGo(p) \/ GenerateNothing(p)
    \/ DuplicateSerNo(p) \/ Fail(p)

(* A step of p changes the answers and locals of no other request. *)
Alone(p) == OtherRequests(p) /\ \A q \in Procs \ {p} : outcome'[q] = outcome[q]

LEMMA QuietSteps ==
    ASSUME IInv, NEW p \in Procs, Quiet(p)
    PROVE  /\ Alone(p) /\ UNCHANGED <<db, known>>
           /\ pc'[p] \notin Writing
           /\ pc'[p] = "idle" => outcome'[p] # "ok"
           /\ pc'[p] # "idle" => \/ outcome'[p] = "none"
                                 \/ pc[p] # "idle" /\ outcome'[p] = outcome[p]
<1> USE DEF Alone, OtherRequests, Writing, IInv, TypeOK
<1>1. ASSUME NEW o \in {"unauthorized", "npe", "error"}, Throw(p, o)
      PROVE  /\ Alone(p) /\ UNCHANGED <<db, known>>
             /\ pc'[p] = "idle" /\ outcome'[p] # "ok"
  BY <1>1 DEF Throw, Goto
<1>2. ASSUME NEW r, NEW label \in {"check", "generate"}, Begin(p, r, label)
      PROVE  /\ Alone(p) /\ UNCHANGED <<db, known>>
             /\ pc'[p] \notin Writing /\ pc'[p] # "idle" /\ outcome'[p] = "none"
  BY <1>2 DEF Begin, Goto
<1>3. ASSUME NEW label \in {"checkRollback", "generate", "generateRollback", "insertId", "update"},
             Goto(p, label), pc[p] # "idle",
             UNCHANGED <<db, tx, known, req, ser, outcome>>,
             \A q \in Procs \ {p} : post'[q] = post[q]
      PROVE  /\ Alone(p) /\ UNCHANGED <<db, known>>
             /\ pc'[p] \notin Writing /\ pc'[p] # "idle" /\ outcome'[p] = outcome[p]
  BY <1>3 DEF Goto
<1>4. CASE StartInit(p)
  BY <1>2, <1>4 DEF StartInit
<1>5. CASE StartAction(p)
  <2>1. PICK op \in AllOps \ {"init"}, w \in known, role \in Roles, c \in Codes \cup {Rollback} :
          Begin(p, [op |-> op, wf |-> w, code |-> c, role |-> role],
                IF op = "act" THEN "check" ELSE "generate")
    BY <1>5 DEF StartAction
  <2>2. QED
    BY <1>2, <2>1
<1>6. CASE CheckGo(p)
  BY <1>1, <1>3, <1>6 DEF CheckGo
<1>7. CASE CheckRollback(p)
  BY <1>1, <1>3, <1>7 DEF CheckRollback
<1>8. CASE RollbackByStatus(p, "check", "checkRollback")
  BY <1>1, <1>3, <1>8 DEF RollbackByStatus
<1>9. CASE RollbackByStatus(p, "generate", "generateRollback")
  BY <1>1, <1>3, <1>9 DEF RollbackByStatus
<1>10. CASE GenerateRollback(p)
  BY <1>1, <1>3, <1>10 DEF GenerateRollback
<1>11. CASE GenerateGo(p)
  BY <1>1, <1>3, <1>11 DEF GenerateGo
<1>12. CASE GenerateNothing(p)
  BY <1>1, <1>12 DEF GenerateNothing
<1>13. CASE DuplicateSerNo(p)
  BY <1>1, <1>13 DEF DuplicateSerNo
<1>14. CASE Fail(p)
  BY <1>1, <1>14 DEF Fail
<1>15. QED
  BY <1>4, <1>5, <1>6, <1>7, <1>8, <1>9, <1>10, <1>11, <1>12, <1>13, <1>14 DEF Quiet

(* The steps of Next: these and the statements that write.                 *)
LEMMA StepKinds ==
    ASSUME NEW p \in Procs, StartInit(p) \/ StartAction(p) \/ Step(p) \/ Fail(p)
    PROVE  \/ Quiet(p) \/ InsertWFIDManagement(p) \/ UpdateWFIDManagement(p)
           \/ SelectMaxSerNo(p) \/ InsertWFLog(p) \/ WriteProgress(p) \/ Commit(p)
  BY DEF Step, Quiet

-------------------------------------------------------------------------------
(* Inside the application's transactions. The row of fw_wf_id_management   *)
(* that doInitAction inserts or doAction updates first is what keeps other *)
(* requests out until the commit: each transaction holds what it found in  *)
(* the tables, the new status and, from the INSERT on, one row more.       *)

Excluded(p, q) ==
    pc[p] \in Writing /\ pc[q] \in Writing => req[p].wf # req[q].wf

Held(p) ==
    LET t == db[req[p].wf]
    IN  /\ pc[p] \in {"max", "insertLog"} => tx[p] = [t EXCEPT !.status = post[p]]
        /\ pc[p] \in {"insertLog", "progress", "commit"} => ser[p] = MaxSer(t.log) + 1
        /\ pc[p] \in {"progress", "commit"} =>
              /\ tx[p].status = post[p]
              /\ tx[p].log = t.log \cup {NewRow(p)}
              /\ tx[p].prog = IF pc[p] = "commit" THEN Progress(p, t.prog) ELSE t.prog

JInv ==
    Joined => /\ \A p \in Procs, q \in Procs : p # q => Excluded(p, q)
              /\ \A p \in Procs : Held(p)

(* A step of p that keeps out of the workflows others have written keeps   *)
(* what their transactions hold.                                           *)
LEMMA HeldStep ==
    ASSUME JInv, NEW p \in Procs, OtherRequests(p),
           Joined => /\ Held(p)'
                     /\ \A q \in Procs \ {p} :
                           pc[q] \in Writing => db'[req[q].wf] = db[req[q].wf]
                     /\ \A q \in Procs \ {p} : Excluded(p, q)'
    PROVE  JInv'
<1> SUFFICES ASSUME Joined PROVE JInv'
  BY DEF JInv
<1>1. ASSUME NEW q \in Procs \ {p} PROVE Held(q)'
  <2>1. UNCHANGED <<pc[q], req[q], post[q], ser[q], tx[q]>>
    BY DEF OtherRequests
  <2>2. CASE pc[q] \in Writing
    <3>1. UNCHANGED db[req[q].wf]
      BY <2>1, <2>2
    <3>2. UNCHANGED NewRow(q)
      BY <2>1 DEF NewRow
    <3>3. UNCHANGED Progress(q, db[req[q].wf].prog)
      BY <2>1, <3>1, <3>2 DEF Progress
    <3>4. QED
      BY <2>1, <3>1, <3>2, <3>3 DEF Held, JInv
  <2>3. CASE pc[q] \notin Writing
    BY <2>1, <2>3 DEF Held, Writing
  <2>4. QED
    BY <2>2, <2>3
<1>2. ASSUME NEW q \in Procs, NEW r \in Procs, q # r PROVE Excluded(q, r)'
  <2>1. Excluded(q, r)
    BY <1>2 DEF JInv
  <2>2. CASE q # p /\ r # p
    BY <2>1, <2>2 DEF Excluded, OtherRequests
  <2>3. CASE q = p
    BY <1>2, <2>3
  <2>4. CASE r = p
    <3>1. Excluded(r, q)'
      BY <1>2, <2>4
    <3>2. QED
      BY <3>1 DEF Excluded
  <2>5. QED
    BY <2>2, <2>3, <2>4
<1>3. QED
  BY <1>1, <1>2 DEF JInv

LEMMA QuietHeld ==
    ASSUME IInv, JInv, NEW p \in Procs, Quiet(p)
    PROVE  JInv'
<1>1. Alone(p) /\ UNCHANGED db /\ pc'[p] \notin Writing
  BY QuietSteps
<1>2. Held(p)' /\ \A q \in Procs : Excluded(p, q)'
  BY <1>1 DEF Held, Excluded, Writing
<1>3. QED
  BY <1>1, <1>2, HeldStep DEF Alone

(* A new workflow's rows are its own request's. *)
LEMMA InsertIdHeld ==
    ASSUME IInv, JInv, NEW p \in Procs, InsertWFIDManagement(p)
    PROVE  JInv'
<1>1. PICK w \in WfIds : /\ db[w] = NoRows
                         /\ \A q \in Procs : pc[q] # "idle" => req[q].wf # w
                         /\ req' = [req EXCEPT ![p].wf = w]
                         /\ Write(p, w, [NoRows EXCEPT !.status = post[p]])
  BY DEF InsertWFIDManagement
<1>2. OtherRequests(p) /\ pc'[p] = "max" /\ req'[p].wf = w /\ post'[p] = post[p]
  BY <1>1 DEF InsertWFIDManagement, OtherRequests, Write, Goto, IInv, TypeOK, Request
<1>3. ASSUME Joined
      PROVE  UNCHANGED db /\ Held(p)' /\ \A q \in Procs \ {p} : Excluded(p, q)'
  <2>1. UNCHANGED db /\ tx'[p] = [NoRows EXCEPT !.status = post[p]]
    BY <1>1, <1>3 DEF Write, IInv, TypeOK
  <2>2. Held(p)'
    BY <1>1, <1>2, <2>1 DEF Held
  <2>3. \A q \in Procs \ {p} : Excluded(p, q)'
    BY <1>1, <1>2 DEF Excluded, OtherRequests, Writing
  <2>4. QED
    BY <2>1, <2>2, <2>3
<1>4. QED
  BY <1>2, <1>3, HeldStep

(* The UPDATE waits until no other transaction has written the workflow. *)
LEMMA UpdateHeld ==
    ASSUME IInv, JInv, NEW p \in Procs, UpdateWFIDManagement(p)
    PROVE  JInv'
<1>1. /\ OtherRequests(p) /\ pc'[p] = "max" /\ UNCHANGED <<req, post>>
      /\ RowFree(req[p].wf)
      /\ Write(p, req[p].wf, [db[req[p].wf] EXCEPT !.status = post[p]])
  BY DEF UpdateWFIDManagement, OtherRequests, Write, Goto, IInv, TypeOK
<1>2. ASSUME Joined
      PROVE  UNCHANGED db /\ Held(p)' /\ \A q \in Procs \ {p} : Excluded(p, q)'
  <2>1. UNCHANGED db /\ tx'[p] = [db[req[p].wf] EXCEPT !.status = post[p]]
    BY <1>1, <1>2 DEF Write, IInv, TypeOK
  <2>2. Held(p)'
    BY <1>1, <2>1 DEF Held
  <2>3. ASSUME NEW q \in Procs \ {p}, pc[q] \in Writing PROVE req[q].wf # req[p].wf
    <3>1. tx[q].status \in Statuses
      BY <1>2, <2>3 DEF IInv, Local, Transacted
    <3>2. InTx(q)
      BY <3>1, MastersAssumption DEF InTx, NoRows
    <3>3. QED
      BY <1>1, <3>2 DEF RowFree
  <2>4. \A q \in Procs \ {p} : Excluded(p, q)'
    BY <1>1, <2>3 DEF Excluded, OtherRequests
  <2>5. QED
    BY <2>1, <2>2, <2>4
<1>3. QED
  BY <1>1, <1>2, HeldStep

(* The next number is the one after the committed history's last. *)
LEMMA SelectMaxHeld ==
    ASSUME IInv, JInv, NEW p \in Procs, SelectMaxSerNo(p)
    PROVE  JInv'
<1>1. /\ OtherRequests(p) /\ UNCHANGED <<db, tx, req, post>>
      /\ pc[p] = "max" /\ pc'[p] = "insertLog"
      /\ ser'[p] = MaxSer(View(p).log) + 1
  BY DEF SelectMaxSerNo, OtherRequests, Goto, IInv, TypeOK
<1>2. ASSUME Joined
      PROVE  Held(p)' /\ \A q \in Procs \ {p} : Excluded(p, q)'
  <2>1. View(p) = tx[p] /\ req[p].wf \in WfIds
    BY <1>1, <1>2, WritingView DEF Writing
  <2>2. tx[p] = [db[req[p].wf] EXCEPT !.status = post[p]]
    BY <1>1, <1>2 DEF JInv, Held
  <2>3. View(p).log = db[req[p].wf].log
    BY <2>1, <2>2 DEF IInv, TypeOK, Tables
  <2>4. \A q \in Procs \ {p} : Excluded(p, q)'
    BY <1>1, <1>2 DEF JInv, Excluded, OtherRequests, Writing
  <2>5. QED
    BY <1>1, <2>2, <2>3, <2>4 DEF Held
<1>3. QED
  BY <1>1, <1>2, HeldStep

(* The INSERT adds the row of this number. *)
LEMMA InsertLogHeld ==
    ASSUME IInv, JInv, NEW p \in Procs, InsertWFLog(p)
    PROVE  JInv'
<1>1. /\ OtherRequests(p) /\ UNCHANGED <<req, post, ser>>
      /\ pc[p] = "insertLog" /\ pc'[p] = "progress"
      /\ Write(p, req[p].wf, [View(p) EXCEPT !.log = @ \cup {NewRow(p)}])
  BY DEF InsertWFLog, OtherRequests, Write, Goto, IInv, TypeOK
<1>2. ASSUME Joined
      PROVE  UNCHANGED db /\ Held(p)' /\ \A q \in Procs \ {p} : Excluded(p, q)'
  <2>1. View(p) = tx[p] /\ req[p].wf \in WfIds
    BY <1>1, <1>2, WritingView DEF Writing
  <2>2. UNCHANGED db /\ tx'[p] = [tx[p] EXCEPT !.log = @ \cup {NewRow(p)}]
    BY <1>1, <1>2, <2>1 DEF Write, IInv, TypeOK
  <2>3. /\ tx[p] = [db[req[p].wf] EXCEPT !.status = post[p]]
        /\ ser[p] = MaxSer(db[req[p].wf].log) + 1
    BY <1>1, <1>2 DEF JInv, Held
  <2>4. /\ tx'[p].status = post[p]
        /\ tx'[p].log = db[req[p].wf].log \cup {NewRow(p)}
        /\ tx'[p].prog = db[req[p].wf].prog
    BY <2>1, <2>2, <2>3 DEF IInv, TypeOK, Tables
  <2>5. UNCHANGED NewRow(p)
    BY <1>1 DEF NewRow
  <2>6. Held(p)'
    BY <1>1, <2>2, <2>3, <2>4, <2>5 DEF Held
  <2>7. \A q \in Procs \ {p} : Excluded(p, q)'
    BY <1>1, <1>2 DEF JInv, Excluded, OtherRequests, Writing
  <2>8. QED
    BY <2>2, <2>6, <2>7
<1>3. QED
  BY <1>1, <1>2, HeldStep

(* The route changes in the transaction as Progress says. *)
LEMMA ProgressHeld ==
    ASSUME IInv, JInv, NEW p \in Procs, WriteProgress(p)
    PROVE  JInv'
<1>1. /\ OtherRequests(p) /\ UNCHANGED <<req, post, ser>>
      /\ pc[p] = "progress" /\ Joined => pc'[p] = "commit"
      /\ Write(p, req[p].wf, [View(p) EXCEPT !.prog = Progress(p, @)])
  BY DEF WriteProgress, OtherRequests, Write, Goto, IInv, TypeOK
<1>2. ASSUME Joined
      PROVE  UNCHANGED db /\ Held(p)' /\ \A q \in Procs \ {p} : Excluded(p, q)'
  <2>1. View(p) = tx[p] /\ req[p].wf \in WfIds /\ pc'[p] = "commit" /\ pc[p] = "progress"
    BY <1>1, <1>2, WritingView DEF Writing, WriteProgress
  <2>2. UNCHANGED db /\ tx'[p] = [tx[p] EXCEPT !.prog = Progress(p, @)]
    BY <1>1, <1>2, <2>1 DEF Write, IInv, TypeOK
  <2>3. /\ tx[p].status = post[p]
        /\ tx[p].log = db[req[p].wf].log \cup {NewRow(p)}
        /\ tx[p].prog = db[req[p].wf].prog
        /\ ser[p] = MaxSer(db[req[p].wf].log) + 1
    BY <1>2, <2>1 DEF JInv, Held
  <2>4. /\ tx'[p].status = post[p]
        /\ tx'[p].log = db[req[p].wf].log \cup {NewRow(p)}
        /\ tx'[p].prog = Progress(p, db[req[p].wf].prog)
    BY <2>2, <2>3 DEF IInv, TypeOK, Tables
  <2>5. UNCHANGED <<NewRow(p), Progress(p, db[req[p].wf].prog)>>
    BY <1>1, <2>2 DEF NewRow, Progress
  <2>6. Held(p)'
    BY <1>1, <2>1, <2>2, <2>3, <2>4, <2>5 DEF Held
  <2>7. \A q \in Procs \ {p} : Excluded(p, q)'
    BY <1>1, <1>2, <2>1 DEF JInv, Excluded, OtherRequests, Writing
  <2>8. QED
    BY <2>2, <2>6, <2>7
<1>3. QED
  BY <1>1, <1>2, HeldStep

(* The commit ends the transaction that held the workflow. *)
LEMMA CommitHeld ==
    ASSUME IInv, JInv, NEW p \in Procs, Commit(p)
    PROVE  JInv'
<1>1. /\ OtherRequests(p) /\ UNCHANGED <<req, post, ser>>
      /\ pc[p] = "commit" /\ pc'[p] = "idle"
      /\ db' = [db EXCEPT ![req[p].wf] = tx[p]]
  BY DEF Commit, OtherRequests, Goto, IInv, TypeOK
<1>2. ASSUME Joined, NEW q \in Procs \ {p}, pc[q] \in Writing
      PROVE  db'[req[q].wf] = db[req[q].wf]
  <2>1. req[p].wf # req[q].wf
    BY <1>1, <1>2 DEF JInv, Excluded, Writing
  <2>2. req[q].wf \in WfIds
    BY <1>2, WritingView
  <2>3. QED
    BY <1>1, <2>1, <2>2 DEF IInv, TypeOK
<1>3. Held(p)' /\ \A q \in Procs \ {p} : Excluded(p, q)'
  BY <1>1 DEF Held, Excluded, Writing
<1>4. QED
  BY <1>1, <1>2, <1>3, HeldStep

LEMMA JoinedInvariance == Spec => []JInv
<1>1. Init => JInv
  BY DEF Init, JInv, Held, Excluded, Writing
<1>2. IInv /\ JInv /\ [Next]_vars => JInv'
  <2> SUFFICES ASSUME IInv, JInv, [Next]_vars PROVE JInv'
    OBVIOUS
  <2>1. CASE UNCHANGED vars
    BY <2>1 DEF vars, JInv, Held, Excluded, NewRow, Progress
  <2>2. ASSUME NEW p \in Procs, StartInit(p) \/ StartAction(p) \/ Step(p) \/ Fail(p)
        PROVE  JInv'
    BY <2>2, StepKinds, QuietHeld, InsertIdHeld, UpdateHeld, SelectMaxHeld,
       InsertLogHeld, ProgressHeld, CommitHeld
  <2>3. QED
    BY <2>1, <2>2 DEF Next
<1>3. QED
  BY <1>1, <1>2, Invariance, PTL DEF Spec

(* In a transaction of the application's an action happens as a whole: the *)
(* tables of a workflow change only by a commit, which brings one row of   *)
(* history under the next number together with the status it records.      *)
LEMMA CommitIsOneAction ==
    ASSUME IInv, JInv, NEW p \in Procs, Commit(p)
    PROVE  /\ Joined /\ req[p].wf \in WfIds
           /\ NewRow(p).ser = MaxSer(db[req[p].wf].log) + 1
           /\ db'[req[p].wf].status = post[p]
           /\ db'[req[p].wf].log = db[req[p].wf].log \cup {NewRow(p)}
           /\ db'[req[p].wf].prog = Progress(p, db[req[p].wf].prog)
           /\ \A v \in WfIds : v # req[p].wf => db'[v] = db[v]
<1>1. pc[p] = "commit" /\ Joined /\ req[p].wf \in WfIds
  BY DEF Commit, IInv, Local, Located, Transacted
<1>2. Held(p)
  BY <1>1 DEF JInv
<1>3. /\ db'[req[p].wf] = tx[p]
      /\ \A v \in WfIds : v # req[p].wf => db'[v] = db[v]
  BY <1>1 DEF Commit, IInv, TypeOK
<1>4. /\ NewRow(p).ser = MaxSer(db[req[p].wf].log) + 1
      /\ tx[p].status = post[p]
      /\ tx[p].log = db[req[p].wf].log \cup {NewRow(p)}
      /\ tx[p].prog = Progress(p, db[req[p].wf].prog)
  BY <1>1, <1>2 DEF Held, NewRow
<1>5. QED
  BY <1>1, <1>3, <1>4

(* Every other step of a transaction leaves the committed tables alone.    *)
LEMMA OnlyCommits ==
    ASSUME IInv, Joined, NEW p \in Procs,
           StartInit(p) \/ StartAction(p) \/ Step(p) \/ Fail(p)
    PROVE  Commit(p) \/ UNCHANGED db
<1>1. Quiet(p) => UNCHANGED db
  BY QuietSteps
<1>2. QED
  BY <1>1, StepKinds DEF InsertWFIDManagement, UpdateWFIDManagement, SelectMaxSerNo,
     InsertWFLog, WriteProgress, Write

THEOREM ActionsAreAtomic == Joined => (Spec => ActionAtomic)
<1> SUFFICES ASSUME Joined PROVE Spec => ActionAtomic
  OBVIOUS
<1> DEFINE A == \A w \in WfIds : db'[w] = db[w] \/ OneAction(db[w], db'[w])
<1>1. IInv /\ JInv /\ [Next]_vars => [A]_vars
  <2> SUFFICES ASSUME IInv, JInv, Next PROVE A
    OBVIOUS
  <2>1. PICK p \in Procs : StartInit(p) \/ StartAction(p) \/ Step(p) \/ Fail(p)
    BY DEF Next
  <2>2. CASE UNCHANGED db
    BY <2>2
  <2>3. CASE Commit(p)
    <3>1. OneAction(db[req[p].wf], db'[req[p].wf])
      <4>1. /\ NewRow(p).ser = MaxSer(db[req[p].wf].log) + 1
            /\ db'[req[p].wf].status = post[p]
            /\ db'[req[p].wf].log = db[req[p].wf].log \cup {NewRow(p)}
        BY <2>3, CommitIsOneAction
      <4>2. NewRow(p).status = post[p]
        BY DEF NewRow
      <4>3. QED
        BY <4>1, <4>2 DEF OneAction
    <3>2. \A v \in WfIds : v # req[p].wf => db'[v] = db[v]
      BY <2>3, CommitIsOneAction
    <3>3. QED
      BY <3>1, <3>2
  <2>4. QED
    BY <2>1, <2>2, <2>3, OnlyCommits
<1>2. QED
  BY <1>1, Invariance, JoinedInvariance, PTL DEF Spec, ActionAtomic

-------------------------------------------------------------------------------
(* What callers are told. A request that has written its row of history    *)
(* shares its number with no other, and the row outlives the request:      *)
(* histories only grow, and a workflow that has a status keeps one.        *)

HasWritten(p) == outcome[p] = "ok" \/ pc[p] \in {"progress", "commit"}

Distinct(p, q) ==
    HasWritten(p) /\ HasWritten(q) /\ req[p].wf = req[q].wf => ser[p] # ser[q]

Answered(p) ==
    /\ pc[p] # "idle" => outcome[p] = "none"
    /\ outcome[p] = "ok" => req[p].wf \in WfIds /\ NewRow(p) \in db[req[p].wf].log
    /\ ~Joined /\ pc[p] \in Writing => db[req[p].wf].status \in Statuses

Started(w) == db[w].status \in Statuses /\ db[w].log # {}

AInv ==
    /\ \A p \in Procs : Answered(p)
    /\ \A p \in Procs, q \in Procs : p # q => Distinct(p, q)
    /\ \A w \in known : Started(w)

(* What a step may do to the rows of a workflow. *)
Kept(w) ==
    /\ db[w].log \subseteq db'[w].log
    /\ db[w].status \in Statuses => db'[w].status \in Statuses

LEMMA AnswerStep ==
    ASSUME IInv, AInv, NEW p \in Procs, Alone(p),
           \A w \in WfIds : Kept(w),
           Answered(p)', \A q \in Procs \ {p} : Distinct(p, q)',
           \A w \in known' \ known : Started(w)'
    PROVE  AInv'
<1>1. ASSUME NEW q \in Procs \ {p} PROVE Answered(q)'
  <2>1. UNCHANGED <<pc[q], req[q], post[q], ser[q], outcome[q], NewRow(q)>>
    BY DEF Alone, OtherRequests, NewRow
  <2>2. CASE outcome[q] = "ok"
    <3>1. /\ pc[q] = "idle" /\ req[q].wf \in WfIds
          /\ NewRow(q) \in db[req[q].wf].log
      BY <2>2 DEF AInv, Answered
    <3>2. Kept(req[q].wf)
      BY <3>1
    <3>3. QED
      BY <2>1, <2>2, <3>1, <3>2 DEF Answered, Kept, Writing
  <2>3. CASE outcome[q] # "ok"
    <3>1. pc[q] \in Writing => req[q].wf \in WfIds
      BY WritingView
    <3>2. QED
      BY <2>1, <2>3, <3>1 DEF AInv, Answered, Kept
  <2>4. QED
    BY <2>2, <2>3
<1>2. ASSUME NEW q \in Procs, NEW r \in Procs, q # r PROVE Distinct(q, r)'
  <2>1. Distinct(q, r)
    BY <1>2 DEF AInv
  <2>2. CASE q # p /\ r # p
    BY <2>1, <2>2 DEF Distinct, HasWritten, Alone, OtherRequests
  <2>3. CASE q = p
    BY <1>2, <2>3
  <2>4. CASE r = p
    <3>1. Distinct(r, q)'
      BY <1>2, <2>4
    <3>2. QED
      BY <3>1 DEF Distinct
  <2>5. QED
    BY <2>2, <2>3, <2>4
<1>3. ASSUME NEW w \in known' PROVE Started(w)'
  <2>1. CASE w \in known
    <3>1. Started(w) /\ Kept(w)
      BY <2>1 DEF AInv, IInv, TypeOK
    <3>2. QED
      BY <3>1 DEF Started, Kept
  <2>2. QED
    BY <2>1
<1>4. QED
  BY <1>1, <1>2, <1>3 DEF AInv

LEMMA QuietAnswers ==
    ASSUME IInv, AInv, NEW p \in Procs, Quiet(p)
    PROVE  AInv'
<1>1. /\ Alone(p) /\ UNCHANGED <<db, known>> /\ pc'[p] \notin Writing
      /\ pc'[p] = "idle" => outcome'[p] # "ok"
      /\ pc'[p] # "idle" => outcome'[p] = "none"
  BY QuietSteps DEF AInv, Answered
<1>2. outcome'[p] # "ok" /\ ~HasWritten(p)'
  BY <1>1 DEF HasWritten, Writing
<1>3. Answered(p)' /\ \A q \in Procs : Distinct(p, q)'
  BY <1>1, <1>2 DEF Answered, Distinct
<1>4. \A w \in WfIds : Kept(w)
  BY <1>1 DEF Kept
<1>5. QED
  BY <1>1, <1>3, <1>4, AnswerStep

(* The row of fw_wf_id_management: a status for a new workflow, *)
LEMMA InsertIdAnswers ==
    ASSUME IInv, AInv, NEW p \in Procs, InsertWFIDManagement(p)
    PROVE  AInv'
<1>1. PICK w \in WfIds : /\ db[w] = NoRows
                         /\ req' = [req EXCEPT ![p].wf = w]
                         /\ Write(p, w, [NoRows EXCEPT !.status = post[p]])
  BY DEF InsertWFIDManagement
<1>2. /\ Alone(p) /\ pc'[p] = "max" /\ req'[p].wf = w
      /\ outcome'[p] = "none" /\ post[p] \in Statuses /\ UNCHANGED known
  BY <1>1 DEF InsertWFIDManagement, Alone, OtherRequests, Write, Goto, IInv, TypeOK, Request,
     Local, Located, AInv, Answered
<1>3. \A v \in WfIds : Kept(v)
  BY <1>1, <1>2 DEF Kept, Write, NoRows, IInv, TypeOK
<1>4. ~Joined => db'[w].status = post[p]
  BY <1>1 DEF Write, NoRows, IInv, TypeOK
<1>5. Answered(p)' /\ \A q \in Procs : Distinct(p, q)'
  BY <1>2, <1>4 DEF Answered, Distinct, HasWritten
<1>6. QED
  BY <1>2, <1>3, <1>5, AnswerStep

(* or another one. *)
LEMMA UpdateAnswers ==
    ASSUME IInv, AInv, NEW p \in Procs, UpdateWFIDManagement(p)
    PROVE  AInv'
<1>1. /\ Alone(p) /\ pc'[p] = "max" /\ UNCHANGED <<known, req>>
      /\ outcome'[p] = "none" /\ post[p] \in Statuses /\ req[p].wf \in WfIds
      /\ Write(p, req[p].wf, [db[req[p].wf] EXCEPT !.status = post[p]])
  BY DEF UpdateWFIDManagement, Alone, OtherRequests, Write, Goto, IInv, TypeOK,
     Local, Located, AInv, Answered
<1>2. \A v \in WfIds : Kept(v)
  BY <1>1 DEF Kept, Write, IInv, TypeOK, Tables
<1>3. ~Joined => db'[req[p].wf].status = post[p]
  BY <1>1 DEF Write, IInv, TypeOK, Tables
<1>4. Answered(p)' /\ \A q \in Procs : Distinct(p, q)'
  BY <1>1, <1>3 DEF Answered, Distinct, HasWritten
<1>5. QED
  BY <1>1, <1>2, <1>4, AnswerStep

LEMMA SelectMaxAnswers ==
    ASSUME IInv, AInv, NEW p \in Procs, SelectMaxSerNo(p)
    PROVE  AInv'
<1>1. /\ Alone(p) /\ pc[p] = "max" /\ pc'[p] = "insertLog"
      /\ UNCHANGED <<db, known, req, outcome>> /\ outcome[p] = "none"
  BY DEF SelectMaxSerNo, Alone, OtherRequests, Goto, IInv, TypeOK, AInv, Answered
<1>2. Answered(p)' /\ \A q \in Procs : Distinct(p, q)'
  BY <1>1 DEF AInv, Answered, Distinct, HasWritten, Writing
<1>3. \A w \in WfIds : Kept(w)
  BY <1>1 DEF Kept
<1>4. QED
  BY <1>1, <1>2, <1>3, AnswerStep

(* The key of fw_wf_log: a number in the history of a workflow, or in the  *)
(* part of it a transaction of one's own has added, cannot be used again.  *)
LEMMA InsertLogAnswers ==
    ASSUME IInv, JInv, AInv, NEW p \in Procs, InsertWFLog(p)
    PROVE  AInv'
<1> DEFINE w == req[p].wf
           t == [View(p) EXCEPT !.log = @ \cup {NewRow(p)}]
<1>1. /\ Alone(p) /\ pc[p] = "insertLog" /\ pc'[p] = "progress"
      /\ UNCHANGED <<known, req, post, ser, outcome>> /\ outcome[p] = "none"
      /\ ser[p] \notin Serials(View(p).log)
      /\ Write(p, w, t)
  BY DEF InsertWFLog, Alone, OtherRequests, Write, Goto, IInv, TypeOK, AInv, Answered
<1>2. /\ w \in WfIds /\ View(p) \in Tables
      /\ View(p) = IF Joined THEN tx[p] ELSE db[w]
  BY <1>1, WritingView DEF Writing
<1>3. /\ View(p).log \subseteq t.log /\ t.status = View(p).status
  BY <1>2 DEF Tables
<1> HIDE DEF t
<1>4. db[w].log \subseteq View(p).log
  <2>1. Joined => tx[p] = [db[w] EXCEPT !.status = post[p]]
    BY <1>1 DEF JInv, Held
  <2>2. QED
    BY <1>2, <2>1 DEF IInv, TypeOK, Tables
<1>5. \A v \in WfIds : Kept(v)
  BY <1>1, <1>2, <1>3 DEF Kept, Write, IInv, TypeOK
<1>6. Answered(p)'
  <2>1. ~Joined => db[w].status \in Statuses
    BY <1>1 DEF AInv, Answered, Writing
  <2>2. ~Joined => db'[w].status \in Statuses
    BY <1>2, <1>5, <2>1 DEF Kept
  <2>3. QED
    BY <1>1, <2>2 DEF Answered
<1>7. ASSUME NEW q \in Procs \ {p} PROVE Distinct(p, q)'
  <2>1. UNCHANGED <<pc[q], req[q], ser[q], outcome[q]>>
    BY <1>1 DEF Alone, OtherRequests
  <2> SUFFICES ASSUME HasWritten(q), req[q].wf = w PROVE ser[p] # ser[q]
    BY <1>1, <2>1 DEF Distinct, HasWritten
  <2>2. NewRow(q) \in View(p).log
    <3>1. CASE outcome[q] = "ok"
      BY <1>4, <3>1 DEF AInv, Answered
    <3>2. CASE Joined /\ pc[q] \in {"progress", "commit"}
      BY <1>1, <3>2 DEF JInv, Excluded, Writing
    <3>3. CASE ~Joined /\ pc[q] \in {"progress", "commit"}
      <4>1. pc[q] = "progress"
        BY <3>3 DEF IInv, Local, Transacted
      <4>2. NewRow(q) \in View(q).log /\ View(q) = db[w]
        BY <3>3, <4>1, WritingView DEF IInv, Local, Pending, Writing
      <4>3. QED
        BY <1>4, <4>2
    <3>4. QED
      BY <3>1, <3>2, <3>3 DEF HasWritten
  <2>3. ser[q] \in Serials(View(p).log)
    BY <2>2 DEF Serials, NewRow
  <2>4. QED
    BY <1>1, <2>3
<1>8. QED
  BY <1>1, <1>5, <1>6, <1>7, AnswerStep

(* Where there is no transaction the request succeeds with its last        *)
(* statement,                                                              *)
LEMMA ProgressAnswers ==
    ASSUME IInv, AInv, NEW p \in Procs, WriteProgress(p)
    PROVE  AInv'
<1> DEFINE w == req[p].wf
           t == [View(p) EXCEPT !.prog = Progress(p, @)]
<1>1. /\ Alone(p) /\ pc[p] = "progress" /\ UNCHANGED <<req, post, ser>>
      /\ Joined => /\ pc'[p] = "commit"
                   /\ UNCHANGED <<known, outcome>>
      /\ ~Joined => /\ pc'[p] = "idle"
                    /\ outcome'[p] = "ok"
                    /\ known' = known \cup {w}
      /\ Write(p, w, t)
  BY DEF WriteProgress, Succeed, Alone, OtherRequests, Write, Goto, IInv, TypeOK
<1>2. /\ w \in WfIds /\ View(p) \in Tables
      /\ View(p) = IF Joined THEN tx[p] ELSE db[w]
  BY <1>1, WritingView DEF Writing
<1>3. t.log = View(p).log /\ t.status = View(p).status
  BY <1>2 DEF Tables
<1> HIDE DEF t
<1>4. \A v \in WfIds : Kept(v)
  BY <1>1, <1>2, <1>3 DEF Kept, Write, IInv, TypeOK
<1>5. NewRow(p) \in View(p).log /\ UNCHANGED NewRow(p)
  BY <1>1 DEF IInv, Local, Pending, NewRow
<1>6. ~Joined => /\ NewRow(p) \in db'[w].log
                 /\ db'[w].status \in Statuses
  <2>1. ~Joined => db'[w] = t
    BY <1>1, <1>2 DEF Write, IInv, TypeOK
  <2>2. ~Joined => db[w].status \in Statuses
    BY <1>1 DEF AInv, Answered, Writing
  <2>3. QED
    BY <1>2, <1>3, <1>5, <2>1, <2>2
<1>7. Answered(p)'
  BY <1>1, <1>2, <1>5, <1>6 DEF AInv, Answered, Writing
<1>8. \A q \in Procs \ {p} : Distinct(p, q)'
  <2>1. HasWritten(p)
    BY <1>1 DEF HasWritten
  <2>2. QED
    BY <1>1, <2>1 DEF AInv, Distinct, HasWritten, Alone, OtherRequests
<1>9. \A v \in known' \ known : Started(v)'
  BY <1>1, <1>6 DEF Started
<1>10. QED
  BY <1>1, <1>4, <1>7, <1>8, <1>9, AnswerStep

(* and where there is one with its commit.                                 *)
LEMMA CommitAnswers ==
    ASSUME IInv, JInv, AInv, NEW p \in Procs, Commit(p)
    PROVE  AInv'
<1>1. /\ Alone(p) /\ pc[p] = "commit" /\ pc'[p] = "idle" /\ UNCHANGED <<req, post, ser>>
      /\ outcome'[p] = "ok" /\ known' = known \cup {req[p].wf}
      /\ req[p].wf \in WfIds /\ post[p] \in Statuses
  BY DEF Commit, Succeed, Alone, OtherRequests, Goto, IInv, TypeOK, Local, Located, Writing
<1>2. /\ db'[req[p].wf].status = post[p]
      /\ db'[req[p].wf].log = db[req[p].wf].log \cup {NewRow(p)}
      /\ \A v \in WfIds : v # req[p].wf => db'[v] = db[v]
  BY CommitIsOneAction
<1>3. \A v \in WfIds : Kept(v)
  BY <1>1, <1>2 DEF Kept
<1>4. UNCHANGED NewRow(p)
  BY <1>1 DEF NewRow
<1>5. Answered(p)' /\ \A v \in known' \ known : Started(v)'
  BY <1>1, <1>2, <1>4 DEF Answered, Started, Writing
<1>6. \A q \in Procs \ {p} : Distinct(p, q)'
  <2>1. HasWritten(p)
    BY <1>1 DEF HasWritten
  <2>2. QED
    BY <1>1, <2>1 DEF AInv, Distinct, HasWritten, Alone, OtherRequests
<1>7. QED
  BY <1>1, <1>3, <1>5, <1>6, AnswerStep

LEMMA AnswerInvariance == Spec => []AInv
<1>1. Init => AInv
  BY DEF Init, AInv, Answered, Distinct, HasWritten, Writing
<1>2. IInv /\ JInv /\ AInv /\ [Next]_vars => AInv'
  <2> SUFFICES ASSUME IInv, JInv, AInv, [Next]_vars PROVE AInv'
    OBVIOUS
  <2>1. CASE UNCHANGED vars
    BY <2>1 DEF vars, AInv, Answered, Distinct, HasWritten, Started, NewRow
  <2>2. ASSUME NEW p \in Procs, StartInit(p) \/ StartAction(p) \/ Step(p) \/ Fail(p)
        PROVE  AInv'
    BY <2>2, StepKinds, QuietAnswers, InsertIdAnswers, UpdateAnswers, SelectMaxAnswers,
       InsertLogAnswers, ProgressAnswers, CommitAnswers
  <2>3. QED
    BY <2>1, <2>2 DEF Next
<1>3. QED
  BY <1>1, <1>2, Invariance, JoinedInvariance, PTL DEF Spec

(* What a caller was told is in the tables and stays there: the row that   *)
(* doAction returned is in the history, no two callers were given the same *)
(* number, and an id doInitAction returned has a status and a history; in  *)
(* a transaction or not, however requests interleave and whatever fails.   *)
THEOREM AnswersAreLogged == Spec => []AnswersLogged
<1>1. IInv /\ AInv => AnswersLogged
  <2> SUFFICES ASSUME IInv, AInv PROVE AnswersLogged
    OBVIOUS
  <2>1. \A p \in Procs : outcome[p] = "ok" => NewRow(p) \in db[req[p].wf].log
    BY DEF AInv, Answered
  <2>2. \A p, q \in Procs :
           p # q /\ outcome[p] = "ok" /\ outcome[q] = "ok" /\ req[p].wf = req[q].wf
           => ser[p] # ser[q]
    BY DEF AInv, Distinct, HasWritten
  <2>3. \A w \in known : db[w].status # NoStatus /\ db[w].log # {}
    BY MastersAssumption DEF AInv, Started
  <2>4. QED
    BY <2>1, <2>2, <2>3 DEF AnswersLogged
<1>2. QED
  BY <1>1, Invariance, AnswerInvariance, PTL

-------------------------------------------------------------------------------
(* Rows in the order of their numbers. *)

(* A row above all others is the last one. *)
LEMMA LastOfMore ==
    ASSUME NEW rows, rows \subseteq Row, NEW r \in Row,
           \A q \in rows : q.ser < r.ser
    PROVE  /\ MaxSer(rows \cup {r}) = r.ser
           /\ Last(rows \cup {r}) = {r}
           /\ StatusOf(rows \cup {r}) = r.status
<1> DEFINE more == rows \cup {r}
<1>1. r.ser \in Nat /\ \A q \in more : q.ser \in Nat /\ q.ser <= r.ser
  BY DEF Row
<1>2. MaxSer(more) \in Nat /\ \A q \in more : q.ser <= MaxSer(more)
  BY <1>1, MaxSerProp
<1>3. Last(more) # {}
  BY <1>1, MaxSerProp
<1>4. PICK q \in more : q.ser = MaxSer(more)
  BY <1>3 DEF Last
<1>5. MaxSer(more) = r.ser
  BY <1>1, <1>2, <1>4
<1>6. Last(more) = {r}
  <2>1. \A s \in more : s.ser = r.ser => s = r
    BY <1>1
  <2>2. QED
    BY <1>5, <2>1 DEF Last
<1>7. QED
  BY <1>5, <1>6 DEF StatusOf

(* Of numbered rows there is one last one, and its number is the largest.  *)
LEMMA OneLast ==
    ASSUME NEW log, log \subseteq Row, Numbered(log), NEW rows, rows \subseteq log,
           rows # {}
    PROVE  \E r \in rows : /\ Last(rows) = {r} /\ r.ser = MaxSer(rows)
                           /\ StatusOf(rows) = r.status
                           /\ \A q \in rows : q = r \/ q.ser < r.ser
<1>1. MaxSer(log) \in Nat /\ \A q \in rows : q.ser \in Nat /\ q.ser <= MaxSer(log)
  BY NumberedProp DEF Row
<1>2. /\ MaxSer(rows) \in Nat /\ Last(rows) # {}
      /\ \A q \in rows : q.ser <= MaxSer(rows)
  BY <1>1, MaxSerProp
<1>3. PICK r \in rows : r.ser = MaxSer(rows)
  BY <1>2 DEF Last
<1>4. \A q \in rows : q.ser = r.ser => q = r
  BY DEF Numbered
<1>5. Last(rows) = {r}
  BY <1>3, <1>4 DEF Last
<1>6. \A q \in rows : q = r \/ q.ser < r.ser
  BY <1>1, <1>2, <1>3, <1>4
<1>7. QED
  BY <1>3, <1>5, <1>6 DEF StatusOf

-------------------------------------------------------------------------------
(* One request at a time: two requests under way work on two workflows, so *)
(* that what a request has read of its workflow is still so when it acts.  *)

Apart(p, q) ==
    pc[p] # "idle" /\ pc[q] # "idle" /\ req[p].wf = req[q].wf => req[p].wf = NoWf

(* What has been asked for and what the checks have found out. *)
Checked(p) ==
    LET t == db[req[p].wf]
    IN  /\ pc[p] # "idle" => req[p].op \in Ops
        /\ pc[p] # "idle" /\ req[p].op # "init" => req[p].wf \in known
        /\ pc[p] \in {"checkRollback", "generateRollback"} =>
              req[p].code = Rollback /\ req[p].op \in {"act", "direct"}
        /\ pc[p] = "checkRollback" => GoActions(t.status, req[p].role) # {}
        /\ pc[p] = "generate" /\ req[p].op = "act" /\ req[p].code # Rollback =>
              req[p].code \in GoActions(t.status, req[p].role)
        /\ pc[p] = "insertId" => req[p].op = "init" /\ req[p].code # Rollback
        /\ pc[p] = "update" => req[p].op # "init"

(* The action that has been generated, until it is committed. *)
Generated(p) ==
    LET t == db[req[p].wf]
    IN  pc[p] \in {"insertId", "update"} \cup Writing =>
        /\ req[p].op # "string"
        /\ req[p].code # Rollback => post[p] = Rote[req[p].code].post
        /\ req[p].code = Rollback =>
              /\ req[p].op # "init"
              /\ HasRollback(t.prog)
              /\ post[p] = RollbackStatus(t.prog)
        /\ req[p].op = "act" /\ req[p].code # Rollback => Rote[req[p].code].pre = t.status
        /\ req[p].op = "init" /\ pc[p] \in Writing => t = NoRows

SInv ==
    Serialized =>
        /\ \A p \in Procs, q \in Procs : p # q => Apart(p, q)
        /\ \A p \in Procs : Checked(p) /\ (Joined => Generated(p))

(* A step of p that writes no workflow of another request takes nothing    *)
(* from what the others have found out.                                    *)
LEMMA SerialStep ==
    ASSUME IInv, SInv, NEW p \in Procs, OtherRequests(p), known \subseteq known',
           Serialized =>
             /\ Checked(p)' /\ (Joined => Generated(p)')
             /\ \A q \in Procs \ {p} :
                   /\ Apart(p, q)'
                   /\ pc[q] # "idle" /\ req[q].wf \in WfIds => db'[req[q].wf] = db[req[q].wf]
    PROVE  SInv'
<1> SUFFICES ASSUME Serialized PROVE SInv'
  BY DEF SInv
<1>1. ASSUME NEW q \in Procs \ {p} PROVE Checked(q)' /\ (Joined => Generated(q)')
  <2>1. UNCHANGED <<pc[q], req[q], post[q]>>
    BY DEF OtherRequests
  <2>2. Checked(q) /\ (Joined => Generated(q))
    BY DEF SInv
  <2>3. CASE pc[q] # "idle" /\ req[q].wf \in WfIds
    <3>1. UNCHANGED db[req[q].wf]
      BY <2>1, <2>3
    <3>2. QED
      BY <2>1, <2>2, <3>1 DEF Checked, Generated
  <2>4. CASE pc[q] = "idle"
    BY <2>1, <2>4 DEF Checked, Generated, Writing
  <2>5. CASE req[q].wf \notin WfIds
    <3>1. pc[q] \in {"idle", "generate", "insertId"} /\ (pc[q] = "generate" => req[q].op = "init")
      BY <2>5 DEF IInv, Local, Located, TypeOK, Labels
    <3>2. QED
      BY <2>1, <2>2, <3>1 DEF Checked, Generated, Writing
  <2>6. QED
    BY <2>3, <2>4, <2>5
<1>2. ASSUME NEW q \in Procs, NEW r \in Procs, q # r PROVE Apart(q, r)'
  <2>1. Apart(q, r)
    BY <1>2 DEF SInv
  <2>2. CASE q # p /\ r # p
    BY <2>1, <2>2 DEF Apart, OtherRequests
  <2>3. CASE q = p
    BY <1>2, <2>3
  <2>4. CASE r = p
    <3>1. Apart(r, q)'
      BY <1>2, <2>4
    <3>2. QED
      BY <3>1 DEF Apart
  <2>5. QED
    BY <2>2, <2>3, <2>4
<1>3. QED
  BY <1>1, <1>2 DEF SInv

(* Requests begin on workflows nobody works on,                            *)
LEMMA StartSerial ==
    ASSUME IInv, SInv, NEW p \in Procs, StartInit(p) \/ StartAction(p)
    PROVE  SInv'
<1>1. PICK r \in Request, label \in {"check", "generate"} :
         /\ Begin(p, r, label)
         /\ \/ r.op = "init" /\ r.wf = NoWf /\ label = "generate"
            \/ /\ r.op # "init" /\ r.wf \in known
               /\ Serialized => \A q \in Procs : pc[q] # "idle" => req[q].wf # r.wf
               /\ label = IF r.op = "act" THEN "check" ELSE "generate"
  <2>1. CASE StartInit(p)
    <3>1. PICK role \in Roles, c \in Codes \cup {Rollback} :
            Begin(p, [op |-> "init", wf |-> NoWf, code |-> c, role |-> role], "generate")
      BY <2>1 DEF StartInit
    <3>2. [op |-> "init", wf |-> NoWf, code |-> c, role |-> role] \in Request
      BY DEF Request, AllOps
    <3>3. QED
      BY <3>1, <3>2
  <2>2. CASE StartAction(p)
    <3>1. PICK op \in AllOps \ {"init"}, w \in known, role \in Roles, c \in Codes \cup {Rollback} :
            /\ Serialized => \A q \in Procs : pc[q] # "idle" => req[q].wf # w
            /\ Begin(p, [op |-> op, wf |-> w, code |-> c, role |-> role],
                     IF op = "act" THEN "check" ELSE "generate")
      BY <2>2 DEF StartAction
    <3>2. [op |-> op, wf |-> w, code |-> c, role |-> role] \in Request
      BY DEF Request, IInv, TypeOK
    <3>3. QED
      BY <3>1, <3>2
  <2>3. QED
    BY <2>1, <2>2
<1>2. /\ OtherRequests(p) /\ UNCHANGED <<db, known>>
      /\ pc'[p] = label /\ req'[p] = r /\ r.op \in Ops
  BY <1>1 DEF Begin, OtherRequests, Goto, IInv, TypeOK
<1>3. Checked(p)' /\ Generated(p)'
  BY <1>1, <1>2 DEF Checked, Generated, Writing
<1>4. Serialized => \A q \in Procs \ {p} : Apart(p, q)'
  BY <1>1, <1>2 DEF Apart, OtherRequests
<1>5. QED
  BY <1>2, <1>3, <1>4, SerialStep

(* end, *)
LEMMA ThrowSerial ==
    ASSUME IInv, SInv, NEW p \in Procs, NEW o, Throw(p, o)
    PROVE  SInv'
<1>1. OtherRequests(p) /\ UNCHANGED <<db, known>> /\ pc'[p] = "idle"
  BY DEF Throw, Goto, OtherRequests, IInv, TypeOK
<1>2. Checked(p)' /\ Generated(p)' /\ \A q \in Procs : Apart(p, q)'
  BY <1>1 DEF Checked, Generated, Apart, Writing
<1>3. QED
  BY <1>1, <1>2, SerialStep

(* and read.                                                               *)
LEMMA ReadSerial ==
    ASSUME IInv, SInv, NEW p \in Procs,
           \/ CheckGo(p) \/ CheckRollback(p)
           \/ RollbackByStatus(p, "check", "checkRollback")
           \/ RollbackByStatus(p, "generate", "generateRollback")
           \/ GenerateRollback(p) \/ GenerateGo(p) \/ GenerateNothing(p)
    PROVE  SInv'
<1>1. ASSUME NEW label \in Labels, Goto(p, label), pc[p] # "idle", label # "idle",
             UNCHANGED <<db, tx, known, req, ser, outcome>>,
             \A q \in Procs \ {p} : post'[q] = post[q],
             Serialized => Checked(p)' /\ (Joined => Generated(p)')
      PROVE  SInv'
  <2>1. OtherRequests(p)
    BY <1>1 DEF OtherRequests, Goto, IInv, TypeOK
  <2>2. Serialized => \A q \in Procs \ {p} : Apart(p, q)'
    BY <1>1, <2>1 DEF SInv, Apart, OtherRequests
  <2>3. QED
    BY <1>1, <2>1, <2>2, SerialStep
<1> USE DEF Labels, Goto, IInv, TypeOK
<1>2. Serialized => Checked(p) /\ (Joined => Generated(p))
  BY DEF SInv
<1>3. CASE CheckGo(p)
  <2>1. CASE req[p].code \in GoActions(db[req[p].wf].status, req[p].role)
    <3>1. Serialized => Checked(p)' /\ Generated(p)'
      BY <1>2, <1>3, <2>1 DEF CheckGo, Checked, Generated, Writing
    <3>2. QED
      BY <1>1, <1>3, <2>1, <3>1 DEF CheckGo
  <2>2. QED
    BY <1>3, <2>1, ThrowSerial DEF CheckGo
<1>4. CASE CheckRollback(p)
  <2>1. CASE HasRollback(db[req[p].wf].prog)
    <3>1. Serialized => Checked(p)' /\ Generated(p)'
      BY <1>2, <1>4, <2>1 DEF CheckRollback, Checked, Generated, Writing
    <3>2. QED
      BY <1>1, <1>4, <2>1, <3>1 DEF CheckRollback
  <2>2. QED
    BY <1>4, <2>1, ThrowSerial DEF CheckRollback
<1>5. ASSUME NEW to \in {"checkRollback", "generateRollback"},
             RollbackByStatus(p, IF to = "checkRollback" THEN "check" ELSE "generate", to)
      PROVE  SInv'
  <2>1. CASE GoActions(db[req[p].wf].status, req[p].role) # {}
    <3>1. Serialized => Checked(p)' /\ Generated(p)'
      BY <1>2, <1>5, <2>1 DEF RollbackByStatus, Checked, Generated, Writing
    <3>2. QED
      BY <1>1, <1>5, <2>1, <3>1 DEF RollbackByStatus
  <2>2. QED
    BY <1>5, <2>1, ThrowSerial DEF RollbackByStatus
<1>6. CASE GenerateRollback(p)
  <2>1. CASE HasRollback(db[req[p].wf].prog)
    <3>1. Serialized => Checked(p)' /\ Generated(p)'
      BY <1>2, <1>6, <2>1 DEF GenerateRollback, Checked, Generated, Writing
    <3>2. QED
      BY <1>1, <1>6, <2>1, <3>1 DEF GenerateRollback
  <2>2. QED
    BY <1>6, <2>1, ThrowSerial DEF GenerateRollback
<1>7. CASE GenerateGo(p)
  <2>1. CASE Permitted(req[p].role, req[p].code)
    <3>1. Serialized => Checked(p)' /\ Generated(p)'
      BY <1>2, <1>7, <2>1 DEF GenerateGo, Checked, Generated, Writing, GoActions
    <3>2. QED
      BY <1>1, <1>7, <2>1, <3>1 DEF GenerateGo
  <2>2. QED
    BY <1>7, <2>1, ThrowSerial DEF GenerateGo
<1>8. CASE GenerateNothing(p)
  BY <1>8, ThrowSerial DEF GenerateNothing
<1>9. QED
  BY <1>3, <1>4, <1>5, <1>6, <1>7, <1>8

(* The statements that write do so in the request's own workflow. *)
LEMMA InsertIdSerial ==
    ASSUME IInv, SInv, NEW p \in Procs, InsertWFIDManagement(p)
    PROVE  SInv'
<1>1. PICK w \in WfIds : /\ db[w] = NoRows
                         /\ \A q \in Procs : pc[q] # "idle" => req[q].wf # w
                         /\ req' = [req EXCEPT ![p].wf = w]
                         /\ Write(p, w, [NoRows EXCEPT !.status = post[p]])
  BY DEF InsertWFIDManagement
<1>2. /\ OtherRequests(p) /\ pc[p] = "insertId" /\ pc'[p] = "max"
      /\ req'[p] = [req[p] EXCEPT !.wf = w] /\ UNCHANGED <<known, post>>
      /\ \A v \in WfIds : v # w => db'[v] = db[v]
      /\ Joined => UNCHANGED db
  BY <1>1 DEF InsertWFIDManagement, OtherRequests, Write, Goto, IInv, TypeOK
<1>3. /\ req'[p].op = req[p].op /\ req'[p].code = req[p].code /\ req'[p].wf = w
  BY <1>2 DEF IInv, TypeOK, Request
<1>4. ASSUME Serialized PROVE Checked(p)' /\ (Joined => Generated(p)')
  <2>1. Checked(p) /\ (Joined => Generated(p))
    BY <1>4 DEF SInv
  <2>2. Checked(p)'
    BY <1>2, <1>3, <2>1 DEF Checked
  <2>3. Joined => Generated(p)'
    BY <1>1, <1>2, <1>3, <2>1 DEF Checked, Generated
  <2>4. QED
    BY <2>2, <2>3
<1>5. ASSUME NEW q \in Procs \ {p}
      PROVE  /\ Apart(p, q)'
             /\ pc[q] # "idle" /\ req[q].wf \in WfIds => db'[req[q].wf] = db[req[q].wf]
  BY <1>1, <1>2, <1>3 DEF Apart, OtherRequests
<1>6. QED
  BY <1>2, <1>4, <1>5, SerialStep

LEMMA WriteSerial ==
    ASSUME IInv, SInv, NEW p \in Procs,
           \/ UpdateWFIDManagement(p) \/ SelectMaxSerNo(p) \/ InsertWFLog(p)
           \/ WriteProgress(p) \/ Commit(p)
    PROVE  SInv'
<1>1. /\ pc[p] \in {"update"} \cup Writing
      /\ pc'[p] \in Writing \cup {"idle"}
      /\ UNCHANGED <<req, post>> /\ known \subseteq known'
      /\ Joined => pc'[p] = "idle" \/ UNCHANGED db
  BY DEF UpdateWFIDManagement, SelectMaxSerNo, InsertWFLog, WriteProgress, Commit,
     Write, Goto, Succeed, Writing, IInv, TypeOK
<1>2. OtherRequests(p)
  BY DEF UpdateWFIDManagement, SelectMaxSerNo, InsertWFLog, WriteProgress, Commit,
     Write, Goto, OtherRequests, IInv, TypeOK
<1>3. req[p].wf \in WfIds /\ req[p].wf # NoWf
  BY <1>1, MastersAssumption DEF IInv, Local, Located, Writing
<1>4. \A v \in WfIds : v # req[p].wf => db'[v] = db[v]
  BY DEF UpdateWFIDManagement, SelectMaxSerNo, InsertWFLog, WriteProgress, Commit,
     Write, IInv, TypeOK
<1>5. ASSUME Serialized PROVE Checked(p)' /\ (Joined => Generated(p)')
  <2>1. Checked(p) /\ (Joined => Generated(p))
    BY <1>5 DEF SInv
  <2>2. Checked(p)'
    BY <1>1, <2>1 DEF Checked, Writing
  <2>3. Joined => Generated(p)'
    BY <1>1, <2>1 DEF Checked, Generated, Writing
  <2>4. QED
    BY <2>2, <2>3
<1>6. ASSUME Serialized, NEW q \in Procs \ {p}
      PROVE  /\ Apart(p, q)'
             /\ pc[q] # "idle" /\ req[q].wf \in WfIds => db'[req[q].wf] = db[req[q].wf]
  <2>1. Apart(p, q)
    BY <1>6 DEF SInv
  <2>2. pc[p] # "idle"
    BY <1>1 DEF Writing
  <2>3. QED
    BY <1>1, <1>2, <1>3, <1>4, <2>1, <2>2 DEF Apart, OtherRequests
<1>7. QED
  BY <1>1, <1>2, <1>5, <1>6, SerialStep

LEMMA SerialInvariance == Spec => []SInv
<1>1. Init => SInv
  BY DEF Init, SInv, Apart, Checked, Generated, Writing
<1>2. IInv /\ SInv /\ [Next]_vars => SInv'
  <2> SUFFICES ASSUME IInv, SInv, [Next]_vars PROVE SInv'
    OBVIOUS
  <2>1. CASE UNCHANGED vars
    BY <2>1 DEF vars, SInv, Apart, Checked, Generated
  <2>2. ASSUME NEW p \in Procs, StartInit(p) \/ StartAction(p) \/ Step(p) \/ Fail(p)
        PROVE  SInv'
    <3>1. DuplicateSerNo(p) \/ Fail(p) => SInv'
      BY ThrowSerial DEF DuplicateSerNo, Fail
    <3>2. QED
      BY <2>2, <3>1, StartSerial, ReadSerial, InsertIdSerial, WriteSerial DEF Step
  <2>3. QED
    BY <2>1, <2>2 DEF Next
<1>3. QED
  BY <1>1, <1>2, Invariance, PTL DEF Spec

-------------------------------------------------------------------------------
(* checkAction admits just what getActions offered, in a transaction or    *)
(* not: a rollback is checked in two statements, and the status the first  *)
(* has read is still the workflow's when the second reads its progress.    *)
THEOREM CheckAdmits == Serialized => (Spec => CheckAdmitsOffered)
<1> SUFFICES ASSUME Serialized PROVE Spec => CheckAdmitsOffered
  OBVIOUS
<1> DEFINE Decided(p) == pc'[p] # pc[p] /\ outcome'[p] # "error"
           Admits(p) ==
             LET offered == Offered(db[req[p].wf], req[p].role)
             IN  /\ pc[p] \in {"check", "checkRollback"} /\ Decided(p) /\ pc'[p] = "generate"
                     => req[p].code \in offered
                 /\ pc[p] \in {"check", "checkRollback"} /\ Decided(p) /\ pc'[p] = "idle"
                     => req[p].code \notin offered
<1>1. ASSUME IInv, SInv, Next, NEW p \in Procs, pc[p] \in {"check", "checkRollback"}, Decided(p)
      PROVE  Admits(p)
  <2>1. PICK q \in Procs : StartInit(q) \/ StartAction(q) \/ Step(q) \/ Fail(q)
    BY <1>1 DEF Next
  <2>2. q = p
    <3>1. OtherRequests(q)
      <4>1. Quiet(q) => OtherRequests(q)
        BY <1>1, QuietSteps DEF Alone
      <4>2. QED
        BY <1>1, <2>1, <4>1, StepKinds DEF OtherRequests, InsertWFIDManagement,
           UpdateWFIDManagement, SelectMaxSerNo, InsertWFLog, WriteProgress, Commit,
           Write, Goto, IInv, TypeOK
    <3>2. QED
      BY <1>1, <3>1 DEF OtherRequests
  <2>3. \/ CheckGo(p) \/ CheckRollback(p)
        \/ RollbackByStatus(p, "check", "checkRollback")
    <3>1. ~Fail(p)
      BY <1>1 DEF Fail, Throw, IInv, TypeOK
    <3>2. QED
      BY <1>1, <2>1, <2>2, <3>1 DEF StartInit, StartAction, Begin, Step, RollbackByStatus,
         GenerateRollback, GenerateGo, GenerateNothing, InsertWFIDManagement,
         UpdateWFIDManagement, SelectMaxSerNo, InsertWFLog, DuplicateSerNo, WriteProgress, Commit
  <2> DEFINE t == db[req[p].wf]
  <2>4. Rollback \notin GoActions(t.status, req[p].role)
    BY MastersAssumption DEF GoActions
  <2>5. CASE CheckGo(p)
    <3>1. req[p].code \in Offered(t, req[p].role) <=> req[p].code \in GoActions(t.status, req[p].role)
      BY <2>5 DEF CheckGo, Offered
    <3>2. QED
      BY <1>1, <2>5, <3>1 DEF CheckGo, Throw, Goto, IInv, TypeOK
  <2>6. CASE RollbackByStatus(p, "check", "checkRollback")
    <3>1. GoActions(t.status, req[p].role) = {} => req[p].code \notin Offered(t, req[p].role)
      BY <2>6 DEF RollbackByStatus, Offered
    <3>2. QED
      BY <1>1, <2>6, <3>1 DEF RollbackByStatus, Throw, Goto, IInv, TypeOK
  <2>7. CASE CheckRollback(p)
    <3>1. GoActions(t.status, req[p].role) # {} /\ req[p].code = Rollback
      BY <1>1, <2>7 DEF CheckRollback, SInv, Checked
    <3>2. req[p].code \in Offered(t, req[p].role) <=> HasRollback(t.prog)
      BY <2>4, <3>1 DEF Offered
    <3>3. QED
      BY <1>1, <2>7, <3>2 DEF CheckRollback, Throw, Goto, IInv, TypeOK
  <2>8. QED
    BY <2>3, <2>5, <2>6, <2>7
<1>2. IInv /\ SInv /\ [Next]_vars => [\A p \in Procs : Admits(p)]_vars
  BY <1>1
<1>3. QED
  BY <1>2, Invariance, SerialInvariance, PTL DEF Spec, CheckAdmitsOffered

-------------------------------------------------------------------------------
(* The route and the current status.                                       *)

(* What a rollback leaves of a route, and where it leads. *)
LEMMA BackRow ==
    ASSUME NEW log, log \subseteq Row, Numbered(log), NEW prog, prog \subseteq log,
           HasRollback(prog)
    PROVE  \E r \in prog, s \in prog :
              /\ s.ser < r.ser /\ Last(prog) = {r} /\ prog \ Last(prog) = prog \ {r}
              /\ r.ser = MaxSer(prog) /\ RollbackStatus(prog) = s.status
              /\ \A q \in prog : q = r \/ q.ser < r.ser
              /\ \A q \in prog : q = r \/ q = s \/ q.ser < s.ser
<1>1. prog # {} /\ prog \ Last(prog) # {}
  BY DEF HasRollback
<1>2. PICK r \in prog : /\ Last(prog) = {r} /\ r.ser = MaxSer(prog)
                        /\ \A q \in prog : q = r \/ q.ser < r.ser
  BY <1>1, OneLast
<1>3. PICK s \in prog \ {r} : /\ StatusOf(prog \ {r}) = s.status
                              /\ \A q \in prog \ {r} : q = s \/ q.ser < s.ser
  <2>1. prog \ {r} \subseteq log /\ prog \ {r} # {}
    BY <1>1, <1>2
  <2>2. QED
    BY <2>1, OneLast
<1>4. QED
  BY <1>2, <1>3 DEF RollbackStatus

(* The row an action adds comes after every row of the route. *)
LEMMA NextRow ==
    ASSUME NEW log, log \subseteq Row, Numbered(log), NEW prog, prog \subseteq log,
           NEW r \in Row, r.ser = MaxSer(log) + 1
    PROVE  /\ \A q \in prog : q.ser < r.ser
           /\ StatusOf(prog \cup {r}) = r.status
<1>1. \A q \in prog : q.ser < r.ser
  BY NumberedProp DEF Row
<1>2. prog \subseteq Row
  OBVIOUS
<1>3. QED
  BY <1>1, <1>2, LastOfMore

(* What commits. *)
LEMMA CommitFacts ==
    ASSUME IInv, JInv, NEW p \in Procs, Commit(p)
    PROVE  /\ req[p].wf \in WfIds /\ NewRow(p) \in Row
           /\ NewRow(p).status = post[p] /\ NewRow(p).code = req[p].code
           /\ db[req[p].wf] \in Tables
           /\ db[req[p].wf].log \subseteq Row /\ Numbered(db[req[p].wf].log)
           /\ db[req[p].wf].prog \subseteq db[req[p].wf].log
<1>1. req[p].wf \in WfIds /\ post[p] \in Statuses
  BY DEF Commit, IInv, Local, Located, Writing
<1>2. req[p].code \in Codes \cup {Rollback} /\ ser[p] \in Nat /\ db[req[p].wf] \in Tables
  BY <1>1 DEF IInv, TypeOK, Request
<1>3. NewRow(p) \in Row /\ NewRow(p).status = post[p] /\ NewRow(p).code = req[p].code
  BY <1>1, <1>2 DEF NewRow, Row
<1>4. QED
  BY <1>1, <1>2, <1>3 DEF IInv, Sound, Tables

(* The current status is the one the route ends with.                      *)
LEMMA CommitOnRoute ==
    ASSUME IInv, JInv, SInv, Serialized, StatusOnRoute, NEW p \in Procs, Commit(p)
    PROVE  StatusOnRoute'
<1> DEFINE w == req[p].wf
           prog == db[w].prog
           new == db'[w].prog
<1>1. /\ db'[w].status = post[p] /\ new = Progress(p, prog)
      /\ NewRow(p).ser = MaxSer(db[w].log) + 1
      /\ \A v \in WfIds : v # w => db'[v] = db[v]
  BY CommitIsOneAction
<1>2. Generated(p) /\ pc[p] = "commit"
  BY CommitIsOneAction DEF Commit, SInv
<1>3. new # {} => post[p] = StatusOf(new)
  <2>1. CASE req[p].code = Rollback
    BY <1>1, <1>2, <2>1 DEF Progress, Generated, Writing, RollbackStatus
  <2>2. CASE req[p].code # Rollback
    <3>1. new = {} \/ new = prog \cup {NewRow(p)}
      BY <1>1, <2>2 DEF Progress
    <3>2. StatusOf(prog \cup {NewRow(p)}) = post[p]
      <4>1. /\ db[w].log \subseteq Row /\ Numbered(db[w].log) /\ prog \subseteq db[w].log
            /\ NewRow(p) \in Row /\ NewRow(p).status = post[p]
        BY CommitFacts
      <4>2. QED
        BY <1>1, <4>1, NextRow
    <3>3. QED
      BY <3>1, <3>2
  <2>3. QED
    BY <2>1, <2>2
<1>4. QED
  BY <1>1, <1>3 DEF StatusOnRoute

LEMMA RouteInvariance == Joined /\ Serialized => (Spec => []StatusOnRoute)
<1> SUFFICES ASSUME Joined, Serialized PROVE Spec => []StatusOnRoute
  OBVIOUS
<1>1. Init => StatusOnRoute
  BY DEF Init, StatusOnRoute, NoRows
<1>2. IInv /\ JInv /\ SInv /\ StatusOnRoute /\ [Next]_vars => StatusOnRoute'
  <2> SUFFICES ASSUME IInv, JInv, SInv, StatusOnRoute, [Next]_vars PROVE StatusOnRoute'
    OBVIOUS
  <2>1. CASE UNCHANGED db
    BY <2>1 DEF StatusOnRoute
  <2>2. CASE \E p \in Procs : Commit(p)
    BY <2>2, CommitOnRoute
  <2>3. UNCHANGED vars => UNCHANGED db
    BY DEF vars
  <2>4. QED
    BY <2>1, <2>2, <2>3, OnlyCommits DEF Next
<1>3. QED
  BY <1>1, <1>2, Invariance, JoinedInvariance, SerialInvariance, PTL DEF Spec

(* Each row of the route starts where the one before it led.               *)
Connected(prog) ==
    \A r \in prog :
        LET before == {q \in prog : q.ser < r.ser}
        IN  before # {} => Rote[r.code].pre = StatusOf(before)

LEMMA CommitConnected ==
    ASSUME IInv, JInv, SInv, Serialized, Ops \subseteq {"init", "act"}, StatusOnRoute,
           NEW p \in Procs, Commit(p), Connected(db[req[p].wf].prog)
    PROVE  Connected(db'[req[p].wf].prog)
<1> DEFINE w == req[p].wf
           prog == db[w].prog
           new == db'[w].prog
<1>1. /\ Joined /\ new = Progress(p, prog)
      /\ NewRow(p).ser = MaxSer(db[w].log) + 1
  BY CommitIsOneAction
<1>2. Generated(p) /\ Checked(p) /\ pc[p] = "commit"
  BY <1>1 DEF Commit, SInv
<1>3. /\ w \in WfIds /\ db[w].log \subseteq Row /\ Numbered(db[w].log)
      /\ prog \subseteq db[w].log /\ NewRow(p) \in Row /\ NewRow(p).code = req[p].code
  BY CommitFacts
<1>4. CASE req[p].code = Rollback
  <2>1. HasRollback(prog)
    BY <1>2, <1>4 DEF Generated, Writing
  <2>2. PICK r \in prog : /\ prog \ Last(prog) = prog \ {r}
                          /\ \A q \in prog : q = r \/ q.ser < r.ser
    BY <1>3, <2>1, BackRow
  <2>3. new = prog \ {r}
    BY <1>1, <1>4, <2>2 DEF Progress
  <2>4. ASSUME NEW s \in new PROVE {q \in new : q.ser < s.ser} = {q \in prog : q.ser < s.ser}
    <3>1. s.ser \in Nat /\ r.ser \in Nat /\ s.ser < r.ser
      BY <1>3, <2>2, <2>3 DEF Row
    <3>2. ~(r.ser < s.ser)
      BY <3>1
    <3>3. QED
      BY <2>3, <3>2
  <2>5. QED
    BY <2>3, <2>4 DEF Connected
<1>5. CASE req[p].code # Rollback /\ new # {}
  <2>1. new = prog \cup {NewRow(p)}
    BY <1>1, <1>5 DEF Progress
  <2>2. \A q \in prog : q.ser < NewRow(p).ser
    BY <1>1, <1>3, NextRow
  <2>3. NewRow(p).ser \in Nat /\ \A q \in prog : q.ser \in Nat
    BY <1>3 DEF Row
  <2>4. ASSUME NEW s \in prog PROVE {q \in new : q.ser < s.ser} = {q \in prog : q.ser < s.ser}
    <3>1. ~(NewRow(p).ser < s.ser)
      BY <2>2, <2>3
    <3>2. QED
      BY <2>1, <3>1
  <2>5. {q \in new : q.ser < NewRow(p).ser} = prog
    BY <2>1, <2>2, <2>3
  <2>6. prog # {} => Rote[NewRow(p).code].pre = StatusOf(prog)
    <3>1. prog # {} => db[w].status = StatusOf(prog)
      BY <1>3 DEF StatusOnRoute
    <3>2. CASE req[p].op = "act"
      BY <1>2, <1>3, <1>5, <3>1, <3>2 DEF Generated, Writing
    <3>3. CASE req[p].op = "init"
      BY <1>2, <3>3 DEF Generated, Writing, NoRows
    <3>4. QED
      BY <1>2, <3>2, <3>3 DEF Checked
  <2>7. QED
    BY <2>1, <2>4, <2>5, <2>6 DEF Connected
<1>6. CASE new = {}
  BY <1>6 DEF Connected
<1>7. QED
  BY <1>4, <1>5, <1>6

(* Where every action is checked, one request at a time in a transaction,  *)
(* the route is one through the masters and ends at the current status.    *)
THEOREM RouteIsConnected ==
    Joined /\ Serialized /\ Ops \subseteq {"init", "act"} => (Spec => []RouteConnected)
<1> SUFFICES ASSUME Joined, Serialized, Ops \subseteq {"init", "act"}
             PROVE  Spec => []RouteConnected
  OBVIOUS
<1> DEFINE AllConnected == \A w \in WfIds : Connected(db[w].prog)
<1>1. Init => AllConnected
  BY DEF Init, Connected, NoRows
<1>2. IInv /\ JInv /\ SInv /\ StatusOnRoute /\ AllConnected /\ [Next]_vars => AllConnected'
  <2> SUFFICES ASSUME IInv, JInv, SInv, StatusOnRoute, AllConnected, [Next]_vars
               PROVE  AllConnected'
    OBVIOUS
  <2>1. CASE UNCHANGED db
    BY <2>1 DEF Connected
  <2>2. ASSUME NEW p \in Procs, Commit(p) PROVE AllConnected'
    <3>1. /\ req[p].wf \in WfIds
          /\ \A v \in WfIds : v # req[p].wf => db'[v] = db[v]
      BY <2>2, CommitIsOneAction
    <3>2. Connected(db'[req[p].wf].prog)
      BY <2>2, <3>1, CommitConnected
    <3>3. ASSUME NEW v \in WfIds PROVE Connected(db'[v].prog)
      BY <3>1, <3>2
    <3>4. QED
      BY <3>3 DEF Connected
  <2>3. UNCHANGED vars => UNCHANGED db
    BY DEF vars
  <2>4. QED
    BY <2>1, <2>2, <2>3, OnlyCommits DEF Next
<1>3. StatusOnRoute /\ AllConnected => RouteConnected
  BY DEF RouteConnected, Connected
<1>4. Spec => []StatusOnRoute
  BY RouteInvariance
<1>5. QED
  BY <1>1, <1>2, <1>3, <1>4, Invariance, JoinedInvariance, SerialInvariance, PTL DEF Spec

-------------------------------------------------------------------------------
(* The promise. *)

Entry == [code : Codes \cup {Rollback}, status : Statuses]

EntryOf(r) == [code |-> r.code, status |-> r.status]

(* A numbered history is a sequence, with the row numbered n at place n.   *)
LEMMA HistoryProp ==
    ASSUME NEW log, log \subseteq Row, Numbered(log)
    PROVE  /\ History(log) \in Seq(Entry)
           /\ Len(History(log)) = MaxSer(log)
           /\ \A r \in log : r.ser \in 1..MaxSer(log) /\ History(log)[r.ser] = EntryOf(r)
           /\ (log = {}) <=> (History(log) = << >>)
<1> DEFINE m == MaxSer(log)
           At(n) == CHOOSE r \in log : r.ser = n
<1>1. m \in Nat /\ Serials(log) = 1..m
  BY NumberedProp
<1>2. ASSUME NEW n \in 1..m PROVE At(n) \in log /\ At(n).ser = n
  <2>1. \E r \in log : r.ser = n
    BY <1>1 DEF Serials
  <2>2. QED
    BY <2>1
<1>3. \A r \in log : r.ser \in 1..m /\ At(r.ser) = r
  <2>1. \A r \in log : r.ser \in 1..m
    BY <1>1 DEF Serials
  <2>2. QED
    BY <1>2, <2>1 DEF Numbered
<1> HIDE DEF m
<1>4. History(log) = [n \in 1..m |-> EntryOf(At(n))]
  BY DEF History, EntryOf, m
<1>5. ASSUME NEW n \in 1..m PROVE EntryOf(At(n)) \in Entry
  BY <1>2 DEF EntryOf, Entry, Row
<1> HIDE DEF At
<1>6. History(log) \in [1..m -> Entry]
  BY <1>4, <1>5
<1>7. History(log) \in Seq(Entry)
  BY <1>1, <1>6, SeqDef
<1>8. Len(History(log)) = m
  BY <1>1, <1>6, <1>7, LenProperties
<1>9. \A r \in log : r.ser \in 1..m /\ History(log)[r.ser] = EntryOf(r)
  BY <1>3, <1>4
<1>10. (log = {}) <=> (History(log) = << >>)
  <2>1. (log = {}) <=> (m = 0)
    <3>1. log = {} => m = 0
      BY DEF MaxSer, m
    <3>2. ASSUME NEW r \in log PROVE m # 0
      BY <1>1, <1>3
    <3>3. QED
      BY <3>1, <3>2
  <2>2. (History(log) = << >>) <=> (m = 0)
    BY <1>7, <1>8, EmptySeq
  <2>3. QED
    BY <2>1, <2>2
<1>11. QED
  BY <1>7, <1>8, <1>9, <1>10 DEF m

(* INSERT under the next number appends to it.                             *)
LEMMA HistoryAppend ==
    ASSUME NEW log, log \subseteq Row, Numbered(log),
           NEW r \in Row, r.ser = MaxSer(log) + 1
    PROVE  History(log \cup {r}) = Append(History(log), EntryOf(r))
<1> DEFINE more == log \cup {r}
           s == History(more)
           t == Append(History(log), EntryOf(r))
<1>1. more \subseteq Row /\ Numbered(more) /\ MaxSer(more) = r.ser
  BY AddNext
<1>2. /\ s \in Seq(Entry) /\ Len(s) = r.ser
      /\ \A q \in more : s[q.ser] = EntryOf(q)
  BY <1>1, HistoryProp
<1>3. /\ History(log) \in Seq(Entry) /\ Len(History(log)) = MaxSer(log)
      /\ \A q \in log : History(log)[q.ser] = EntryOf(q)
  BY HistoryProp
<1>4. EntryOf(r) \in Entry
  BY DEF EntryOf, Entry, Row
<1>5. /\ t \in Seq(Entry) /\ Len(t) = MaxSer(log) + 1
      /\ \A i \in 1..MaxSer(log) : t[i] = History(log)[i]
      /\ t[MaxSer(log) + 1] = EntryOf(r)
  BY <1>3, <1>4, AppendProperties
<1>6. MaxSer(log) \in Nat /\ Serials(log) = 1..MaxSer(log)
  BY NumberedProp
<1> HIDE DEF s, t
<1>7. ASSUME NEW i \in 1..Len(s) PROVE s[i] = t[i]
  <2>1. CASE i = r.ser
    BY <1>2, <1>5, <2>1
  <2>2. CASE i # r.ser
    <3>1. i \in 1..MaxSer(log)
      BY <1>2, <1>6, <2>2
    <3>2. PICK q \in log : q.ser = i
      BY <1>6, <3>1 DEF Serials
    <3>3. s[i] = EntryOf(q) /\ t[i] = EntryOf(q)
      BY <1>2, <1>3, <1>5, <3>1, <3>2
    <3>4. QED
      BY <3>3
  <2>3. QED
    BY <2>1, <2>2
<1>8. s = t
  BY <1>2, <1>5, <1>7, SeqEqual
<1>9. QED
  BY <1>8 DEF s, t

(* The abstract state is a function of the tables. *)
LEMMA SameTables == UNCHANGED db => UNCHANGED Promise!vars
  BY DEF Promise!vars

(* A commit is one step of the promise: the kind of action it commits      *)
(* decides which.                                                          *)
LEMMA CommitKeepsPromise ==
    ASSUME IInv, JInv, AInv, SInv, Serialized, NEW p \in Procs, Commit(p)
    PROVE  Promise!Next
<1> DEFINE w == req[p].wf
           t == db[w]
           c == req[p].code
           new == NewRow(p)
           status == [v \in WfIds |-> db[v].status]
           history == [v \in WfIds |-> History(db[v].log)]
           route == [v \in WfIds |-> Serials(db[v].prog)]
<1>1. /\ w \in WfIds /\ new \in Row /\ new.status = post[p] /\ new.code = c
      /\ t.log \subseteq Row /\ Numbered(t.log) /\ t.prog \subseteq t.log
  BY CommitFacts
<1>2. /\ Joined /\ new.ser = MaxSer(t.log) + 1
      /\ db'[w].status = post[p]
      /\ db'[w].log = t.log \cup {new}
      /\ db'[w].prog = Progress(p, t.prog)
      /\ \A v \in WfIds : v # w => db'[v] = db[v]
  BY CommitIsOneAction
<1>3. Generated(p) /\ Checked(p) /\ pc[p] = "commit"
  BY <1>2 DEF Commit, SInv
<1>4. /\ Len(history[w]) = MaxSer(t.log)
      /\ (t.log = {}) <=> (history[w] = << >>)
      /\ \A r \in t.log : history[w][r.ser] = EntryOf(r)
  BY <1>1, HistoryProp
<1>5. /\ status' = [status EXCEPT ![w] = post[p]]
      /\ history' = [history EXCEPT ![w] = Append(@, [code |-> c, status |-> post[p]])]
  <2>1. History(db'[w].log) = Append(history[w], [code |-> c, status |-> post[p]])
    BY <1>1, <1>2, HistoryAppend DEF EntryOf
  <2>2. QED
    BY <1>2, <2>1
<1>6. ASSUME NEW S, Serials(db'[w].prog) = S
      PROVE  route' = [route EXCEPT ![w] = S]
  BY <1>2, <1>6
<1> USE DEF Promise!Record
<1>7. CASE c = Rollback
  <2>1. HasRollback(t.prog) /\ post[p] = RollbackStatus(t.prog)
    BY <1>3, <1>7 DEF Generated, Writing
  <2>2. PICK r \in t.prog, s \in t.prog :
           /\ s.ser < r.ser /\ t.prog \ Last(t.prog) = t.prog \ {r}
           /\ RollbackStatus(t.prog) = s.status
           /\ \A q \in t.prog : q = r \/ q.ser < r.ser
           /\ \A q \in t.prog : q = r \/ q = s \/ q.ser < s.ser
    BY <1>1, <2>1, BackRow
  <2>3. \A q \in t.prog : q.ser \in Nat
    BY <1>1 DEF Row
  <2>4. route' = [route EXCEPT ![w] = @ \ {r.ser}]
    <3>1. t.prog \ {r} = db'[w].prog
      BY <1>2, <1>7, <2>2 DEF Progress
    <3>2. \A q \in t.prog : q.ser = r.ser => q = r
      BY <2>2, <2>3
    <3>3. Serials(db'[w].prog) = route[w] \ {r.ser}
      BY <1>1, <3>1, <3>2 DEF Serials
    <3>4. QED
      BY <1>1, <1>6, <3>3
  <2>5. r.ser \in route[w] /\ s.ser \in route[w] /\ s.ser < r.ser
    BY <1>1, <2>2 DEF Serials
  <2>6. \A k \in route[w] : k = r.ser \/ k <= s.ser
    BY <1>1, <2>2, <2>3 DEF Serials
  <2>7. history[w][s.ser].status = post[p]
    <3>1. history[w][s.ser] = EntryOf(s)
      BY <1>1, <1>4
    <3>2. EntryOf(s).status = s.status
      BY DEF EntryOf
    <3>3. QED
      BY <2>1, <2>2, <3>1, <3>2
  <2>8. /\ status' = [status EXCEPT ![w] = history[w][s.ser].status]
        /\ history' = [history EXCEPT ![w] =
                         Append(@, [code |-> Rollback, status |-> history[w][s.ser].status])]
    BY <1>5, <1>7, <2>7
  <2>9. w \in WfIds
    BY <1>1
  <2> HIDE DEF w, t, c, new
  <2>10. QED
    BY <2>4, <2>5, <2>6, <2>8, <2>9 DEF Promise!Next, Promise!Back
<1>8. CASE c # Rollback
  <2>1. c \in Codes /\ post[p] = Rote[c].post
    BY <1>3, <1>8 DEF IInv, TypeOK, Request, Generated, Writing
  <2>2. /\ status' = [status EXCEPT ![w] = Rote[c].post]
        /\ history' = [history EXCEPT ![w] =
                         Append(@, [code |-> c, status |-> Rote[c].post])]
    BY <1>5, <2>1
  <2>3. CASE req[p].op = "init"
    <3>1. t = NoRows
      BY <1>3, <2>3 DEF Generated, Writing
    <3>2. t.log = {} /\ t.prog = {}
      BY <3>1 DEF NoRows
    <3>3. Serials(db'[w].prog) = {1}
      <4>1. db'[w].prog = {new}
        BY <1>2, <1>8, <2>3, <3>2 DEF Progress
      <4>2. new.ser = 1
        BY <1>2, <3>2 DEF MaxSer
      <4>3. QED
        BY <4>1, <4>2 DEF Serials
    <3>4. route' = [route EXCEPT ![w] = {1}]
      BY <1>6, <3>3
    <3>5. QED
      BY <1>1, <1>4, <2>1, <2>2, <3>2, <3>4 DEF Promise!Next, Promise!Begin
  <2>4. CASE req[p].op # "init"
    <3>1. t.log # {}
      BY <1>3, <2>4 DEF Checked, AInv, Started
    <3>2. CASE IsLast(c)
      <4>1. Serials(db'[w].prog) = {}
        BY <1>2, <1>8, <2>4, <3>2 DEF Progress, Serials
      <4>2. route' = [route EXCEPT ![w] = {}]
        BY <1>6, <4>1
      <4>3. QED
        BY <1>1, <1>4, <2>1, <2>2, <3>1, <3>2, <4>2
           DEF Promise!Next, Promise!Decide, Promise!IsLast, IsLast
    <3>3. CASE ~IsLast(c)
      <4>1. Serials(db'[w].prog) = route[w] \cup {Len(history[w]) + 1}
        <5>1. db'[w].prog = t.prog \cup {new}
          BY <1>2, <1>8, <2>4, <3>3 DEF Progress
        <5>2. Serials(db'[w].prog) = Serials(t.prog) \cup {new.ser}
          BY <5>1 DEF Serials
        <5>3. QED
          BY <1>1, <1>2, <1>4, <5>2
      <4>2. route' = [route EXCEPT ![w] = @ \cup {Len(history[w]) + 1}]
        BY <1>1, <1>6, <4>1
      <4>3. QED
        BY <1>1, <1>4, <2>1, <2>2, <3>1, <3>3, <4>2
           DEF Promise!Next, Promise!Advance, Promise!IsLast, IsLast
    <3>4. QED
      BY <3>2, <3>3
  <2>5. QED
    BY <2>3, <2>4
<1>9. QED
  BY <1>7, <1>8

(* The engine implements WorkflowPromise where the application works on a  *)
(* workflow with one request at a time and in transactions: the tables     *)
(* change by whole actions only, each is the one that was asked for, and   *)
(* whatever fails on the way leaves no trace.                              *)
THEOREM EngineKeepsPromise == Joined /\ Serialized => (Spec => KeepsPromise)
<1> SUFFICES ASSUME Joined, Serialized PROVE Spec => KeepsPromise
  OBVIOUS
<1>1. Init => Promise!Init
  <2> SUFFICES ASSUME Init PROVE Promise!Init
    OBVIOUS
  <2>1. \A w \in WfIds : db[w].status = NoStatus /\ db[w].log = {} /\ db[w].prog = {}
    BY DEF Init, NoRows
  <2>2. {} \subseteq Row /\ Numbered({}) /\ Serials({}) = {}
    BY DEF Numbered, Serials
  <2>3. History({}) = << >>
    BY <2>2, HistoryProp
  <2>4. \A w \in WfIds : History(db[w].log) = << >> /\ Serials(db[w].prog) = {}
    BY <2>1, <2>2, <2>3
  <2>5. QED
    BY <2>1, <2>4 DEF Promise!Init
<1>2. IInv /\ JInv /\ AInv /\ SInv /\ [Next]_vars => [Promise!Next]_Promise!vars
  <2> SUFFICES ASSUME IInv, JInv, AInv, SInv, [Next]_vars
               PROVE  [Promise!Next]_Promise!vars
    OBVIOUS
  <2>1. CASE UNCHANGED db
    BY <2>1, SameTables
  <2>2. CASE \E p \in Procs : Commit(p)
    BY <2>2, CommitKeepsPromise
  <2>3. UNCHANGED vars => UNCHANGED db
    BY DEF vars
  <2>4. QED
    BY <2>1, <2>2, <2>3, OnlyCommits DEF Next
<1>3. QED
  BY <1>1, <1>2, Invariance, JoinedInvariance, AnswerInvariance, SerialInvariance, PTL
     DEF Spec, KeepsPromise, Promise!Spec
===============================================================================
