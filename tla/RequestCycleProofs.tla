------------------------------ MODULE RequestCycleProofs ----------------------
(***************************************************************************)
(* What TLAPS proves about RequestCycle, for any number of threads,        *)
(* browsers, users and sessions.                                           *)
(***************************************************************************)
EXTENDS RequestCycle, TLAPS

-------------------------------------------------------------------------------
(* The inductive invariant. First what holds of a request wherever it is,  *)
(* overlapped or not.                                                      *)
Late == {"chain", "login", "setUser", "loggedIn", "restEnd", "terminate", "invalidate", "destroy"}
Early == {"config", "setConfig", "readConfig", "checkUser", "restFilter", "respond"}

InBusiness == {"login", "setUser", "loggedIn"}

(* A request that comes to the application has a session, except for a     *)
(* resource; REST requests have passed their filter.                       *)
Control(t) ==
    LET r == req[t] IN
    /\ r.at = "idle" => r.bound = None
    /\ r.at # "idle" => r.browser \in Browsers
    /\ r.at \in Late /\ r.kind # "resource" => r.bound # None
    /\ r.at \in InBusiness => r.kind # "resource"
    /\ r.at = "invalidate" => r.bound # None
    /\ r.at \in {"restFilter", "restEnd"} => r.kind = "rest"
    /\ r.at = "respond" => r.kind = "trace"

(* A REST request is on its way to the end of its session, or there.       *)
RestEnding(t) ==
    LET r == req[t] IN
    r.kind = "rest" =>
        /\ r.at # "checkUser"
        /\ r.at \in {"terminate", "invalidate"} => flag[t] = "logout"
        /\ r.at = "destroy" => ~Valid(r.bound)

Ended(s) == ~Valid(s) => session[s].user = NoUser

(* Then, if requests do not overlap: the flag of a thread is of the        *)
(* request that it runs.                                                   *)
Flagged(t) ==
    LET r == req[t] IN
    /\ r.at \in Early \cup {"idle"} => flag[t] = "none"
    /\ flag[t] # "none" => r.bound # None
    /\ flag[t] = "logout" \/ r.at = "invalidate" => r.ends
    /\ buffered => ~r.committed

(* What a request has to do with a session is its own and its browser's.   *)
Holding(t) ==
    LET r == req[t] IN
    /\ r.bound = None =>
          /\ r.answer = None
          /\ r.at # "idle" => r.asked = cookie[r.browser]
    /\ r.bound # None =>
          /\ r.asked = None
          /\ r.at # "destroy" => Valid(r.bound)
          /\ cookie[r.browser] \in {r.bound, Stale, None}
          /\ r.answer \in {r.bound, Stale, None}
          /\ r.answer = r.bound => Valid(r.bound)
          /\ r.answer = Stale => ~Valid(r.bound)

Alone(t) ==
    /\ \A r \in Threads \ {t} :
        /\ Busy(t) /\ Busy(r) => req[r].browser # req[t].browser
        /\ req[t].bound # None => req[r].bound # req[t].bound
    /\ \A b \in Browsers :
        req[t].bound # None /\ cookie[b] = req[t].bound => req[t].browser = b

Known(b) ==
    cookie[b] \in Sessions =>
        /\ Valid(cookie[b])
        /\ \A c \in Browsers \ {b} : cookie[c] # cookie[b]

Reachable(s) ==
    Valid(s) => \/ \E b \in Browsers : cookie[b] = s
                \/ \E t \in Threads : req[t].answer = s

PageUser(t) ==
    req[t].kind = "page" /\ req[t].at \in {"chain"} \cup InBusiness =>
        session[req[t].bound].user # NoUser

Apart ==
    /\ \A t \in Threads : Flagged(t) /\ Holding(t) /\ Alone(t) /\ PageUser(t)
    /\ \A b \in Browsers : Known(b)
    /\ buffered => \A s \in Sessions : Reachable(s)

RInv ==
    /\ TypeOK
    /\ \A t \in Threads : Control(t) /\ RestEnding(t)
    /\ \A s \in Sessions : Ended(s)
    /\ ~overlap => Apart

-------------------------------------------------------------------------------
(* Types. *)

Ats == Early \cup Late \cup {"idle"}

RequestType ==
    [at : Ats, browser : Browsers \cup {None}, kind : Kinds, asked : References,
     bound : Sessions \cup {None}, answer : References, committed : BOOLEAN, ends : BOOLEAN]

SessionType == [valid : BOOLEAN, user : Users \cup {NoUser}]

(* The parts of TypeOK that steps change. *)
Typed ==
    /\ session \in [Sessions -> SessionType]
    /\ cookie \in [Browsers -> References]
    /\ req \in [Threads -> RequestType]
    /\ flag \in [Threads -> {"none", "login", "logout"}]

LEMMA AtsAre ==
    {"idle", "config", "setConfig", "readConfig", "checkUser", "restFilter", "chain",
     "login", "setUser", "loggedIn", "restEnd", "terminate", "invalidate",
     "destroy", "respond"} = Ats
  BY DEF Ats, Early, Late

LEMMA TypeParts ==
    TypeOK <=> /\ Typed
               /\ overlap \in BOOLEAN /\ buffered \in BOOLEAN
               /\ initConfig \in BOOLEAN /\ ignoreAuthPath \in BOOLEAN
  BY AtsAre DEF TypeOK, Typed, RequestType, SessionType

LEMMA NoRequestType == NoRequest \in RequestType /\ NoSession \in SessionType
  BY DEF NoRequest, NoSession, RequestType, SessionType, Ats, Kinds, References

(* What getSession finds is a valid session, and none is more than one.    *)
LEMMA FoundProp ==
    ASSUME NEW t \in Threads
    PROVE  /\ Found(t) \subseteq Sessions
           /\ \A s \in Found(t) : Valid(s) /\ s = IF req[t].bound = None THEN req[t].asked
                                                 ELSE req[t].bound
           /\ \A s \in Sessions :
                 Valid(s) /\ (s = IF req[t].bound = None THEN req[t].asked ELSE req[t].bound)
                   => s \in Found(t)
  BY DEF Found

(* What getSession() does to the request, in its fields. *)
GotSession(t, at) ==
    /\ \A r \in Threads \ {t} : req'[r] = req[r]
    /\ UNCHANGED <<req[t].browser, req[t].kind, req[t].committed, req[t].ends>>
    /\ req'[t].at = at /\ req'[t].asked = None
    /\ \/ /\ req'[t].bound \in Found(t) /\ req'[t].answer = req[t].answer
          /\ session' = session
       \/ /\ Found(t) = {} /\ ~req[t].committed
          /\ req'[t].bound \in Unused /\ req'[t].answer = req'[t].bound
          /\ session' = [session EXCEPT ![req'[t].bound].valid = TRUE]

LEMMA GetSessionProp ==
    ASSUME Typed, NEW t \in Threads, NEW at \in Ats,
           GetSession(t, [req[t] EXCEPT !.at = at])
    PROVE  GotSession(t, at) /\ req' \in [Threads -> RequestType]
                             /\ session' \in [Sessions -> SessionType]
<1>1. req \in [Threads -> RequestType] /\ session \in [Sessions -> SessionType]
  BY DEF Typed
<1>2. req[t] \in RequestType
  BY <1>1
<1>3. CASE \E s \in Found(t) :
              /\ req' = [req EXCEPT ![t] = [[req[t] EXCEPT !.at = at]
                                             EXCEPT !.bound = s, !.asked = None]]
              /\ UNCHANGED session
  <2>1. PICK s \in Found(t) :
              /\ req' = [req EXCEPT ![t] = [[req[t] EXCEPT !.at = at]
                                             EXCEPT !.bound = s, !.asked = None]]
              /\ UNCHANGED session
    BY <1>3
  <2>2. s \in Sessions
    BY FoundProp
  <2>3. req'[t] = [[req[t] EXCEPT !.at = at] EXCEPT !.bound = s, !.asked = None]
    BY <1>1, <2>1
  <2>4. req'[t] \in RequestType
    BY <1>2, <2>2, <2>3 DEF RequestType, References
  <2>5. /\ UNCHANGED <<req[t].browser, req[t].kind, req[t].committed, req[t].ends, req[t].answer>>
        /\ req'[t].at = at /\ req'[t].asked = None /\ req'[t].bound = s
    BY <1>2, <2>3 DEF RequestType
  <2>6. QED
    BY <1>1, <2>1, <2>4, <2>5 DEF GotSession
<1>4. CASE /\ Found(t) = {} /\ ~req[t].committed
           /\ Unused # {}
           /\ LET s == CHOOSE u \in Unused : TRUE IN
              /\ req' = [req EXCEPT ![t] = [[req[t] EXCEPT !.at = at]
                                             EXCEPT !.bound = s, !.asked = None, !.answer = s]]
              /\ session' = [session EXCEPT ![s].valid = TRUE]
  <2>1. PICK s \in Unused :
              /\ req' = [req EXCEPT ![t] = [[req[t] EXCEPT !.at = at]
                                             EXCEPT !.bound = s, !.asked = None, !.answer = s]]
              /\ session' = [session EXCEPT ![s].valid = TRUE]
    BY <1>4
  <2>2. s \in Sessions
    BY DEF Unused
  <2>3. req'[t] = [[req[t] EXCEPT !.at = at] EXCEPT !.bound = s, !.asked = None, !.answer = s]
    BY <1>1, <2>1
  <2>4. req'[t] \in RequestType
    BY <1>2, <2>2, <2>3 DEF RequestType, References
  <2>5. /\ UNCHANGED <<req[t].browser, req[t].kind, req[t].committed, req[t].ends>>
        /\ req'[t].at = at /\ req'[t].asked = None /\ req'[t].bound = s /\ req'[t].answer = s
    BY <1>2, <2>3 DEF RequestType
  <2>6. session' \in [Sessions -> SessionType]
    BY <1>1, <2>1, <2>2 DEF SessionType
  <2>7. QED
    BY <1>1, <1>4, <2>1, <2>4, <2>5, <2>6 DEF GotSession
<1>5. QED
  BY <1>3, <1>4 DEF GetSession

(* The ids of s on their way are renamed. *)
Renaming(s, r) ==
    /\ UNCHANGED <<req[r].at, req[r].browser, req[r].kind, req[r].bound, req[r].committed,
                   req[r].ends>>
    /\ req'[r].asked = Renamed(s, req[r].asked)
    /\ req'[r].answer = Renamed(s, req[r].answer)

LEMMA RequestsProp ==
    ASSUME Typed, NEW s
    PROVE  /\ Requests(s) \in [Threads -> RequestType]
           /\ \A r \in Threads :
                /\ Requests(s)[r].at = req[r].at
                /\ Requests(s)[r].browser = req[r].browser
                /\ Requests(s)[r].kind = req[r].kind
                /\ Requests(s)[r].bound = req[r].bound
                /\ Requests(s)[r].committed = req[r].committed
                /\ Requests(s)[r].ends = req[r].ends
                /\ Requests(s)[r].asked = Renamed(s, req[r].asked)
                /\ Requests(s)[r].answer = Renamed(s, req[r].answer)
           /\ Cookies(s) \in [Browsers -> References]
<1>1. ASSUME NEW r \in Threads, NEW x, x = Requests(s)[r]
      PROVE  /\ x \in RequestType
             /\ x.at = req[r].at /\ x.browser = req[r].browser /\ x.kind = req[r].kind
             /\ x.bound = req[r].bound /\ x.committed = req[r].committed
             /\ x.ends = req[r].ends /\ x.asked = Renamed(s, req[r].asked)
             /\ x.answer = Renamed(s, req[r].answer)
  <2>1. req[r] \in RequestType
    BY DEF Typed
  <2>2. x = [req[r] EXCEPT !.asked = Renamed(s, req[r].asked), !.answer = Renamed(s, req[r].answer)]
    BY <1>1, <2>1 DEF Requests, RequestType
  <2>3. Renamed(s, req[r].asked) \in References /\ Renamed(s, req[r].answer) \in References
    BY <2>1 DEF Renamed, References, RequestType
  <2>4. QED
    BY <2>1, <2>2, <2>3 DEF RequestType
<1>2. Requests(s) \in [Threads -> RequestType]
  BY <1>1 DEF Requests
<1>3. Cookies(s) \in [Browsers -> References]
  BY DEF Typed, Cookies, Renamed, References
<1>4. QED
  BY <1>1, <1>2, <1>3

(* What changeSessionId() does. *)
ChangedId(t, at) ==
    \E s \in Found(t) :
        /\ cookie' = Cookies(s)
        /\ \A r \in Threads \ {t} : Renaming(s, r)
        /\ UNCHANGED <<req[t].browser, req[t].kind, req[t].committed, req[t].ends>>
        /\ req'[t].at = at /\ req'[t].asked = None /\ req'[t].bound = s
        /\ req'[t].answer = IF req[t].committed THEN None ELSE s

LEMMA ChangeSessionIdProp ==
    ASSUME Typed, NEW t \in Threads, NEW at \in Ats, ChangeSessionId(t, at)
    PROVE  ChangedId(t, at) /\ req' \in [Threads -> RequestType]
                            /\ cookie' \in [Browsers -> References]
<1>1. PICK s \in Found(t) :
        /\ cookie' = Cookies(s)
        /\ req' = [Requests(s) EXCEPT ![t].at = at, ![t].bound = s, ![t].asked = None,
                                      ![t].answer = IF req[t].committed THEN None ELSE s]
  BY DEF ChangeSessionId
<1>2. s \in Sessions
  BY FoundProp
<1> DEFINE R == Requests(s)
           x == [R[t] EXCEPT !.at = at, !.bound = s, !.asked = None,
                             !.answer = IF req[t].committed THEN None ELSE s]
<1>3. R \in [Threads -> RequestType]
  BY RequestsProp
<1>4. req' = [R EXCEPT ![t] = x]
  BY <1>1, <1>3
<1>5. x \in RequestType
  BY <1>2, <1>3 DEF RequestType, References
<1>6. /\ x.at = at /\ x.bound = s /\ x.asked = None
      /\ x.answer = IF req[t].committed THEN None ELSE s
      /\ x.browser = R[t].browser /\ x.kind = R[t].kind /\ x.committed = R[t].committed
      /\ x.ends = R[t].ends
  BY <1>3 DEF RequestType
<1>7. req'[t] = x /\ \A r \in Threads \ {t} : req'[r] = R[r]
  BY <1>3, <1>4
<1>8. req' \in [Threads -> RequestType]
  BY <1>3, <1>4, <1>5
<1>9. \A r \in Threads \ {t} : Renaming(s, r)
  BY <1>7, RequestsProp DEF Renaming
<1>10. R[t].browser = req[t].browser /\ R[t].kind = req[t].kind
       /\ R[t].committed = req[t].committed /\ R[t].ends = req[t].ends
  BY RequestsProp
<1>11. QED
  BY <1>1, <1>6, <1>7, <1>8, <1>9, <1>10, RequestsProp DEF ChangedId

-------------------------------------------------------------------------------
(* Every step of a thread is of one of these kinds, by what it does to the *)
(* sessions, the cookies and the ids on their way.                         *)

Others(t) == \A r \in Threads \ {t} : req'[r] = req[r]

Received(t) ==
    /\ UNCHANGED <<session, cookie>> /\ Others(t)
    /\ req[t].at = "idle"
    /\ \E b \in Browsers :
        /\ ~overlap => \A r \in Threads : Busy(r) => req[r].browser # b
        /\ req'[t].browser = b /\ req'[t].asked = cookie[b]
    /\ req'[t].at = "config" /\ req'[t].bound = None /\ req'[t].answer = None
    /\ ~req'[t].committed /\ ~req'[t].ends

Quiet(t) ==
    /\ UNCHANGED <<session, cookie>> /\ Others(t)
    /\ UNCHANGED <<req[t].browser, req[t].kind, req[t].asked, req[t].bound, req[t].answer,
                   req[t].committed>>
    /\ req[t].ends => req'[t].ends

LeavesFrom(t) ==
    \/ req[t].at \in {"respond", "destroy"}
    \/ req[t].at = "terminate" /\ flag[t] # "none" /\ Found(t) = {}
    \/ req[t].at = "invalidate" /\ ~Valid(req[t].bound)

Left(t) ==
    /\ LeavesFrom(t)
    /\ session' = session /\ Others(t)
    /\ Answered(t)
    /\ req'[t] = NoRequest

Committed(t) ==
    /\ session' = session /\ Others(t)
    /\ Answered(t)
    /\ ~buffered
    /\ UNCHANGED <<req[t].at, req[t].browser, req[t].kind, req[t].asked, req[t].bound, req[t].ends>>
    /\ req'[t].answer = None

Invalidated(t) ==
    LET s == req[t].bound IN
    /\ req[t].at = "invalidate" /\ Valid(s)
    /\ session' = [session EXCEPT ![s] = NoSession]
    /\ cookie' = Cookies(s)
    /\ \A r \in Threads \ {t} : Renaming(s, r)
    /\ UNCHANGED <<req[t].browser, req[t].kind, req[t].bound, req[t].committed, req[t].ends>>
    /\ req'[t].at = "destroy"
    /\ req'[t].asked = Renamed(s, req[t].asked)
    /\ req'[t].answer = Renamed(s, req[t].answer)

Welcomed(t) ==
    /\ cookie' = cookie /\ Others(t)
    /\ UNCHANGED <<req[t].browser, req[t].kind, req[t].asked, req[t].bound, req[t].answer,
                   req[t].committed, req[t].ends>>
    /\ req[t].at = "setUser" /\ req'[t].at = "loggedIn"
    /\ \E u \in Users :
        session' = [session EXCEPT ![req[t].bound].user = IF Valid(req[t].bound) THEN u ELSE @]

(* A step on the way keeps the thread busy, and only Left ends "destroy".  *)
Underway(t) == req[t].at \notin {"idle", "destroy"} /\ req'[t].at # "idle"

LEMMA ToProp ==
    ASSUME Typed, NEW t \in Threads, NEW at \in Ats, To(t, at)
    PROVE  /\ Others(t) /\ req'[t] \in RequestType /\ req' \in [Threads -> RequestType]
           /\ req'[t].at = at
           /\ UNCHANGED <<req[t].browser, req[t].kind, req[t].asked, req[t].bound,
                          req[t].answer, req[t].committed, req[t].ends>>
  BY DEF Typed, To, RequestType, Others

ThreadStep(t) ==
    \/ \E b \in Browsers, kind \in Kinds : Receive(t, b, kind)
    \/ IfInitConfig(t) \/ SetInitConfig(t) \/ ReadConfig(t)
    \/ CheckUser(t) \/ RestFilter(t) \/ RestEnd(t) \/ Commit(t) \/ BusinessEnds(t)
    \/ Login(t) \/ LoginGetUser(t) \/ LoginSetUser(t) \/ LoginFails(t) \/ LoginSetFlag(t)
    \/ Logout(t) \/ Respond(t) \/ Terminate(t) \/ Invalidate(t) \/ Destroy(t)

AtsProp == /\ \A kind \in Kinds : Route(kind) \in {"respond", "chain", "restFilter", "checkUser"}
           /\ \A t \in Threads : After(t) \in {"restEnd", "terminate"}

LEMMA AtsLemma == AtsProp
  BY DEF AtsProp, Route, After, Kinds

Gets(t) == /\ cookie' = cookie
           /\ \E at \in Ats : GotSession(t, at)

Changes(t) == /\ session' = session
              /\ \E at \in Ats : ChangedId(t, at)

Moves(t) == Quiet(t) \/ Gets(t) \/ Changes(t) \/ Committed(t) \/ Invalidated(t) \/ Welcomed(t)

LEMMA StepKinds ==
    ASSUME Typed, NEW t \in Threads, ThreadStep(t)
    PROVE  /\ Typed'
           /\ UNCHANGED <<overlap, buffered>>
           /\ \A r \in Threads \ {t} : flag'[r] = flag[r]
           /\ Received(t) \/ Left(t) \/ (Moves(t) /\ Underway(t))
<1> USE DEF Typed, At
<1>1. /\ req[t] \in RequestType /\ req \in [Threads -> RequestType]
      /\ Early \subseteq Ats /\ Late \subseteq Ats
  BY DEF Ats
<1>2. CASE \E b \in Browsers, kind \in Kinds : Receive(t, b, kind)
  <2>1. PICK b \in Browsers, kind \in Kinds : Receive(t, b, kind)
    BY <1>2
  <2>2. req'[t] = [NoRequest EXCEPT !.at = "config", !.browser = b, !.kind = kind,
                                    !.asked = cookie[b]]
    BY <1>1, <2>1 DEF Receive
  <2>3. req'[t] \in RequestType
    <3>1. "config" \in Ats /\ b \in Browsers \cup {None} /\ cookie[b] \in References
      BY DEF Ats, Early
    <3>2. NoRequest \in RequestType
      BY NoRequestType
    <3>3. QED
      BY <2>1, <2>2, <3>1, <3>2 DEF RequestType
  <2>4. Received(t)
    BY <1>1, <2>1, <2>2 DEF Receive, Received, Others, NoRequest, Busy
  <2>5. QED
    BY <1>1, <2>1, <2>3, <2>4 DEF Receive
<1>3. ASSUME NEW at \in Ats \ {"idle"}, To(t, at), req[t].at \notin {"idle", "destroy"}
      PROVE  Others(t) /\ req' \in [Threads -> RequestType] /\ Underway(t)
             /\ (UNCHANGED <<session, cookie>> => Quiet(t))
  BY <1>1, <1>3, ToProp DEF Quiet, Underway
<1>4. CASE IfInitConfig(t) \/ SetInitConfig(t) \/ BusinessEnds(t) \/ Login(t) \/ LoginFails(t)
  <2>1. /\ UNCHANGED <<session, cookie, flag, overlap, buffered>>
        /\ req[t].at \in {"config", "setConfig", "chain", "loggedIn"}
    BY <1>4 DEF IfInitConfig, SetInitConfig, BusinessEnds, Login, LoginFails, Business
  <2>2. PICK at \in Ats \ {"idle"} : To(t, at)
    <3>1. req[t].kind \in Kinds
      BY <1>1 DEF RequestType
    <3>2. {"respond", "chain", "restFilter", "checkUser", "setConfig", "readConfig", "login",
           "restEnd", "terminate"} \subseteq Ats \ {"idle"}
      BY DEF Ats, Early, Late
    <3>3. QED
      BY <1>4, <3>1, <3>2, AtsLemma
         DEF AtsProp, IfInitConfig, SetInitConfig, BusinessEnds, Login, LoginFails
  <2>3. QED
    BY <1>3, <2>1, <2>2 DEF Moves
<1>5. ASSUME NEW at \in Ats \ {"idle"}, GetSession(t, [req[t] EXCEPT !.at = at]),
             req[t].at \notin {"idle", "destroy"}, UNCHANGED <<cookie, overlap, buffered, flag>>
      PROVE  /\ Typed' /\ Gets(t) /\ Underway(t)
  <2>1. GotSession(t, at) /\ req' \in [Threads -> RequestType]
        /\ session' \in [Sessions -> SessionType]
    BY <1>5, GetSessionProp
  <2>2. QED
    BY <1>5, <2>1 DEF Gets, GotSession, Underway
<1>6. CASE ReadConfig(t) \/ CheckUser(t) \/ RestFilter(t) \/ LoginGetUser(t)
  <2>1. /\ UNCHANGED <<cookie, flag, overlap, buffered>>
        /\ req[t].at \in {"readConfig", "checkUser", "restFilter", "login"}
    BY <1>6 DEF ReadConfig, CheckUser, RestFilter, LoginGetUser
  <2>2. {"respond", "chain", "restFilter", "checkUser", "setUser", "restEnd", "terminate"}
           \subseteq Ats \ {"idle"}
    BY DEF Ats, Early, Late
  <2>3. CASE ReadConfig(t)
    <3>1. req[t].kind \in Kinds
      BY <1>1 DEF RequestType
    <3>2. Route(req[t].kind) \in Ats \ {"idle"}
      BY <2>2, <3>1, AtsLemma DEF AtsProp
    <3>3. GetSession(t, [req[t] EXCEPT !.at = Route(req[t].kind)])
      BY <2>3 DEF ReadConfig
    <3>4. QED
      BY <1>5, <2>1, <3>2, <3>3 DEF Moves
  <2>4. CASE CheckUser(t)
    <3>1. GetSession(t, [req[t] EXCEPT !.at = "chain"])
          \/ GetSession(t, [req[t] EXCEPT !.at = "terminate"])
      BY <2>4 DEF CheckUser
    <3>2. QED
      BY <1>5, <2>1, <2>2, <3>1 DEF Moves
  <2>5. CASE RestFilter(t)
    <3>1. GetSession(t, [req[t] EXCEPT !.at = "chain"])
          \/ GetSession(t, [req[t] EXCEPT !.at = "restEnd"])
      BY <2>5 DEF RestFilter
    <3>2. QED
      BY <1>5, <2>1, <2>2, <3>1 DEF Moves
  <2>6. CASE LoginGetUser(t)
    BY <1>5, <2>1, <2>2, <2>6 DEF LoginGetUser, Moves
  <2>7. QED
    BY <1>6, <2>3, <2>4, <2>5, <2>6
<1>7. CASE RestEnd(t) \/ Logout(t)
  <2>1. /\ UNCHANGED <<session, cookie, overlap, buffered>>
        /\ req[t].at \in {"restEnd", "chain"} /\ flag' = [flag EXCEPT ![t] = "logout"]
    BY <1>7 DEF RestEnd, Logout, Business
  <2>2. \/ req' = [req EXCEPT ![t] = [req[t] EXCEPT !.at = "terminate", !.ends = TRUE]]
        \/ req' = [req EXCEPT ![t] = [req[t] EXCEPT !.ends = TRUE]]
    BY <1>1, <1>7 DEF RestEnd, Logout
  <2>3. /\ req'[t] \in RequestType /\ Others(t) /\ req'[t].at # "idle" /\ req'[t].ends
        /\ UNCHANGED <<req[t].browser, req[t].kind, req[t].asked, req[t].bound, req[t].answer,
                       req[t].committed>>
    <3>1. "terminate" \in Ats
      BY DEF Ats, Late
    <3>2. CASE req' = [req EXCEPT ![t] = [req[t] EXCEPT !.at = "terminate", !.ends = TRUE]]
      BY <1>1, <3>1, <3>2 DEF RequestType, Others
    <3>3. CASE req' = [req EXCEPT ![t] = [req[t] EXCEPT !.ends = TRUE]]
      BY <1>1, <2>1, <3>3 DEF RequestType, Others
    <3>4. QED
      BY <2>2, <3>2, <3>3
  <2>4. req' \in [Threads -> RequestType]
    BY <1>1, <2>2, <2>3
  <2>5. Quiet(t) /\ Underway(t)
    BY <2>1, <2>3 DEF Quiet, Underway
  <2>6. QED
    BY <2>1, <2>4, <2>5 DEF Moves
<1>8. /\ \A at \in Ats \ {"idle"} : ChangeSessionId(t, at) /\ req[t].at \notin {"idle", "destroy"}
            /\ session' = session
            => /\ Changes(t) /\ Underway(t) /\ req' \in [Threads -> RequestType]
               /\ cookie' \in [Browsers -> References]
  BY ChangeSessionIdProp DEF ChangedId, Changes, Underway
<1>9. ASSUME Responded(t)
      PROVE  /\ Others(t) /\ req' \in [Threads -> RequestType] /\ cookie' \in [Browsers -> References]
             /\ session' = session /\ LeavesFrom(t) => Left(t)
  <2>1. req' = [req EXCEPT ![t] = NoRequest]
    BY <1>9 DEF Responded
  <2>2. req' \in [Threads -> RequestType] /\ Others(t) /\ req'[t] = NoRequest
    BY <1>1, <2>1, NoRequestType DEF Others
  <2>3. cookie' \in [Browsers -> References]
    BY <1>1, <1>9 DEF Responded, Answered, RequestType
  <2>4. QED
    BY <1>9, <2>2, <2>3 DEF Left, Responded
<1>10. CASE LoginSetFlag(t)
  <2>1. /\ UNCHANGED <<overlap, buffered, session>>
        /\ flag' = [flag EXCEPT ![t] = "login"] /\ req[t].at = "loggedIn"
        /\ {"chain", "restEnd", "terminate"} \subseteq Ats \ {"idle"}
    BY <1>10 DEF LoginSetFlag, Ats, Late
  <2>2. CASE ChangeSessionId(t, "chain")
    BY <1>8, <2>1, <2>2 DEF Moves
  <2>3. CASE To(t, After(t)) /\ cookie' = cookie
    BY <1>3, <2>1, <2>3, AtsLemma DEF AtsProp, Moves
  <2>4. QED
    BY <1>10, <2>2, <2>3 DEF LoginSetFlag
<1>11. CASE Respond(t) \/ Destroy(t)
  <2>1. /\ Responded(t) /\ LeavesFrom(t) /\ UNCHANGED <<overlap, buffered, session>>
        /\ flag' \in [Threads -> {"none", "login", "logout"}]
        /\ \A r \in Threads \ {t} : flag'[r] = flag[r]
    BY <1>11 DEF Respond, Destroy, LeavesFrom
  <2>2. Left(t) /\ req' \in [Threads -> RequestType] /\ cookie' \in [Browsers -> References]
    BY <1>9, <2>1
  <2>3. QED
    BY <2>1, <2>2
<1>12. CASE Terminate(t)
  <2>1. /\ UNCHANGED <<overlap, buffered, flag>> /\ req[t].at = "terminate"
        /\ {"destroy", "invalidate"} \subseteq Ats \ {"idle"}
    BY <1>12 DEF Terminate, Ats, Late
  <2>2. CASE To(t, "destroy") /\ UNCHANGED <<session, cookie>>
    BY <1>3, <2>1, <2>2 DEF Moves
  <2>3. CASE ChangeSessionId(t, "destroy") /\ session' = session
    BY <1>8, <2>1, <2>3 DEF Moves
  <2>4. CASE Responded(t) /\ session' = session /\ flag[t] # "none" /\ Found(t) = {}
    BY <1>9, <2>1, <2>4 DEF LeavesFrom
  <2>5. CASE GetSession(t, [req[t] EXCEPT !.at = "invalidate"]) /\ cookie' = cookie
    BY <1>5, <2>1, <2>5 DEF Moves
  <2>6. QED
    BY <1>12, <2>2, <2>3, <2>4, <2>5 DEF Terminate, MustThrow
<1>13. CASE Invalidate(t)
  <2> DEFINE s == req[t].bound
  <2>1. UNCHANGED <<overlap, buffered, flag>> /\ req[t].at = "invalidate"
    BY <1>13 DEF Invalidate
  <2>2. CASE Responded(t) /\ session' = session /\ ~Valid(s)
    BY <1>9, <2>1, <2>2 DEF LeavesFrom
  <2>3. CASE /\ Valid(s)
             /\ session' = [session EXCEPT ![s] = NoSession]
             /\ cookie' = Cookies(s)
             /\ req' = [Requests(s) EXCEPT ![t].at = "destroy"]
    <3> DEFINE R == Requests(s)
    <3>1. R \in [Threads -> RequestType] /\ cookie' \in [Browsers -> References]
      BY <2>3, RequestsProp
    <3>2. req' = [R EXCEPT ![t] = [R[t] EXCEPT !.at = "destroy"]]
      BY <2>3, <3>1
    <3>3. /\ req'[t] = [R[t] EXCEPT !.at = "destroy"]
          /\ \A r \in Threads \ {t} : req'[r] = R[r]
      BY <3>1, <3>2
    <3>4. [R[t] EXCEPT !.at = "destroy"] \in RequestType
      BY <3>1 DEF RequestType, Ats, Late
    <3>5. req' \in [Threads -> RequestType]
      BY <3>1, <3>2, <3>4
    <3>6. /\ req'[t].at = "destroy" /\ req'[t].browser = R[t].browser /\ req'[t].kind = R[t].kind
          /\ req'[t].bound = R[t].bound /\ req'[t].committed = R[t].committed
          /\ req'[t].ends = R[t].ends /\ req'[t].asked = R[t].asked
          /\ req'[t].answer = R[t].answer
      BY <3>1, <3>3 DEF RequestType
    <3>7. session' \in [Sessions -> SessionType]
      BY <2>3, NoRequestType
    <3>8. \A r \in Threads \ {t} : Renaming(s, r)
      BY <3>3, RequestsProp DEF Renaming
    <3>9. Invalidated(t)
      BY <2>1, <2>3, <3>6, <3>8, RequestsProp DEF Invalidated
    <3>10. QED
      BY <2>1, <3>1, <3>5, <3>6, <3>7, <3>9 DEF Moves, Underway
  <2>4. QED
    BY <1>13, <2>2, <2>3 DEF Invalidate
<1>14. CASE Commit(t)
  <2>1. /\ req' = [req EXCEPT ![t] = [req[t] EXCEPT !.committed = TRUE, !.answer = None]]
        /\ Answered(t) /\ req[t].at = "chain" /\ ~buffered
        /\ UNCHANGED <<overlap, buffered, session, flag>>
    BY <1>1, <1>14 DEF Commit
  <2>2. /\ req'[t] \in RequestType /\ Others(t) /\ req'[t].answer = None
        /\ UNCHANGED <<req[t].at, req[t].browser, req[t].kind, req[t].asked, req[t].bound, req[t].ends>>
    BY <1>1, <2>1 DEF RequestType, References, Others
  <2>3. req' \in [Threads -> RequestType]
    BY <1>1, <2>1, <2>2
  <2>4. cookie' \in [Browsers -> References]
    BY <1>1, <2>1 DEF Answered, RequestType
  <2>5. Committed(t) /\ Underway(t)
    BY <2>1, <2>2 DEF Committed, Underway
  <2>6. QED
    BY <2>1, <2>3, <2>4, <2>5 DEF Moves
<1>15. CASE LoginSetUser(t)
  <2>1. PICK u \in Users :
          session' = [session EXCEPT ![req[t].bound].user = IF Valid(req[t].bound) THEN u ELSE @]
    BY <1>15 DEF LoginSetUser
  <2>2. /\ UNCHANGED <<overlap, buffered, flag, cookie>> /\ req[t].at = "setUser"
        /\ To(t, "loggedIn") /\ "loggedIn" \in Ats \ {"idle"}
    BY <1>15 DEF LoginSetUser, Ats, Late
  <2>3. session' \in [Sessions -> SessionType]
    BY <2>1 DEF SessionType
  <2>4. Others(t) /\ req' \in [Threads -> RequestType] /\ Underway(t)
    BY <1>3, <2>2
  <2>5. Welcomed(t)
    BY <2>1, <2>2, <2>4, ToProp DEF Welcomed
  <2>6. QED
    BY <2>2, <2>3, <2>4, <2>5 DEF Moves
<1>16. QED
  BY <1>2, <1>4, <1>6, <1>7, <1>10, <1>11, <1>12, <1>13, <1>14, <1>15 DEF ThreadStep

-------------------------------------------------------------------------------
(* A request keeps what it has, but for the ids, while others take steps;  *)
(* a session that has ended is not used again while a request has it.      *)

Same(r) ==
    UNCHANGED <<req[r].at, req[r].browser, req[r].kind, req[r].bound, req[r].committed,
                req[r].ends, flag[r]>>

Over(s) == ~Valid(s) /\ \E r \in Threads : req[r].bound = s

LEMMA FrameProp ==
    ASSUME Typed, NEW t \in Threads, ThreadStep(t), NEW r \in Threads \ {t}
    PROVE  Same(r)
<1>1. flag'[r] = flag[r]
  BY StepKinds
<1>2. Received(t) \/ Left(t) \/ Quiet(t) \/ Gets(t) \/ Changes(t) \/ Committed(t)
      \/ Invalidated(t) \/ Welcomed(t)
  BY StepKinds DEF Moves
<1>3. req'[r] = req[r] => Same(r)
  BY <1>1 DEF Same
<1>4. CASE Received(t) \/ Left(t) \/ Quiet(t) \/ Committed(t) \/ Welcomed(t)
  BY <1>3, <1>4 DEF Received, Left, Quiet, Committed, Welcomed, Others
<1>5. CASE Gets(t)
  BY <1>3, <1>5 DEF Gets, GotSession
<1>6. CASE Changes(t)
  BY <1>1, <1>6 DEF Changes, ChangedId, Renaming, Same
<1>7. CASE Invalidated(t)
  BY <1>1, <1>7 DEF Invalidated, Renaming, Same
<1>8. QED
  BY <1>2, <1>4, <1>5, <1>6, <1>7

LEMMA SessionsProp ==
    ASSUME Typed, NEW t \in Threads, ThreadStep(t), NEW s \in Sessions, Ended(s)
    PROVE  /\ Ended(s)'
           /\ Over(s) => ~Valid(s)'
<1>1. session \in [Sessions -> SessionType]
  BY DEF Typed
<1>2. session[s] \in SessionType
  BY <1>1
<1>3. CASE session' = session
  BY <1>3 DEF Ended, Valid, Over
<1>4. CASE Invalidated(t)
  <2>1. session'[s] = IF s = req[t].bound THEN NoSession ELSE session[s]
    BY <1>1, <1>4 DEF Invalidated
  <2>2. QED
    BY <2>1 DEF Ended, Valid, NoSession, Over
<1>5. CASE Welcomed(t)
  <2>1. PICK u \in Users :
          session' = [session EXCEPT ![req[t].bound].user = IF Valid(req[t].bound) THEN u ELSE @]
    BY <1>5 DEF Welcomed
  <2>2. session'[s].valid = session[s].valid
    BY <1>1, <1>2, <2>1 DEF SessionType
  <2>3. ~Valid(s) => session'[s].user = session[s].user
    BY <1>1, <1>2, <2>1 DEF SessionType
  <2>4. QED
    BY <2>2, <2>3 DEF Ended, Valid, Over
<1>6. CASE Gets(t)
  <2>1. CASE session' # session
    <3>1. PICK x \in Unused : session' = [session EXCEPT ![x].valid = TRUE]
      BY <1>6, <2>1 DEF Gets, GotSession
    <3>2. s # x => session'[s] = session[s]
      BY <1>1, <3>1
    <3>3. s = x => session'[s].valid /\ session'[s].user = session[s].user
      BY <1>1, <1>2, <3>1 DEF SessionType
    <3>4. Over(s) => s # x
      BY <3>1 DEF Over, Unused
    <3>5. QED
      BY <3>2, <3>3, <3>4 DEF Ended, Valid, Over
  <2>2. QED
    BY <1>3, <2>1
<1>7. QED
  BY <1>3, <1>4, <1>5, <1>6, StepKinds
     DEF Moves, Received, Left, Quiet, Changes, Committed

-------------------------------------------------------------------------------
(* Where requests go, overlapped or not.                                   *)

LEMMA OwnControl ==
    ASSUME Typed, NEW t \in Threads, ThreadStep(t), Control(t), RestEnding(t),
           \A s \in Sessions : Ended(s)
    PROVE  Control(t)' /\ RestEnding(t)'
<1> DEFINE r == req[t]
<1>1. /\ r \in RequestType /\ req \in [Threads -> RequestType] /\ None \notin Sessions
      /\ Typed' /\ flag \in [Threads -> {"none", "login", "logout"}]
  BY StepKinds, RequestAssumption DEF Typed
<1> USE DEF Control, RestEnding, Late, InBusiness, At
<1>2. CASE \E b \in Browsers, kind \in Kinds : Receive(t, b, kind)
  <2>1. PICK b \in Browsers, kind \in Kinds : Receive(t, b, kind)
    BY <1>2
  <2>2. req'[t] = [NoRequest EXCEPT !.at = "config", !.browser = b, !.kind = kind,
                                    !.asked = cookie[b]]
    BY <1>1, <2>1 DEF Receive
  <2>3. req'[t].at = "config" /\ req'[t].browser = b
    BY <2>2 DEF NoRequest
  <2>4. QED
    BY <2>3
<1> DEFINE Going(at) ==
      /\ req'[t].at = at
      /\ UNCHANGED <<req[t].browser, req[t].kind, req[t].bound, req[t].ends>>
<1>3. ASSUME NEW at \in Ats, To(t, at) PROVE Going(at)
  BY <1>1, <1>3, ToProp
<1>4. ASSUME NEW at \in Ats, GetSession(t, [req[t] EXCEPT !.at = at])
      PROVE  /\ req'[t].at = at /\ req'[t].bound \in Sessions
             /\ UNCHANGED <<req[t].browser, req[t].kind, req[t].ends>>
  BY <1>1, <1>4, GetSessionProp, FoundProp DEF GotSession, Unused
<1>5. ASSUME NEW at \in Ats, ChangeSessionId(t, at)
      PROVE  /\ req'[t].at = at /\ req'[t].bound \in Sessions
             /\ UNCHANGED <<req[t].browser, req[t].kind, req[t].ends>>
  BY <1>1, <1>5, ChangeSessionIdProp, FoundProp DEF ChangedId
<1>6. CASE Left(t)
  BY <1>6 DEF Left, NoRequest
<1>7. /\ Ats = Early \cup Late \cup {"idle"}
      /\ {"setConfig", "readConfig", "checkUser", "restFilter", "respond", "chain", "login",
          "setUser", "loggedIn", "restEnd", "terminate", "invalidate", "destroy"} \subseteq Ats
  BY DEF Ats, Early
<1>8. /\ Route(r.kind) \in {"respond", "chain", "restFilter", "checkUser"}
      /\ Route(r.kind) = "respond" => r.kind = "trace"
      /\ Route(r.kind) = "chain" => r.kind = "resource"
      /\ Route(r.kind) = "checkUser" => r.kind # "rest"
      /\ Route(r.kind) = "restFilter" => r.kind = "rest"
  BY <1>1 DEF Route, RequestType, Kinds
<1>9. After(t) = IF r.kind = "rest" THEN "restEnd" ELSE "terminate"
  BY DEF After
<1>10. CASE IfInitConfig(t)
  BY <1>3, <1>7, <1>8, <1>10 DEF IfInitConfig
<1>11. CASE SetInitConfig(t)
  BY <1>3, <1>7, <1>11 DEF SetInitConfig
<1>12. CASE ReadConfig(t)
  BY <1>1, <1>4, <1>7, <1>8, <1>12 DEF ReadConfig
<1>13. CASE CheckUser(t)
  <2>1. \/ GetSession(t, [req[t] EXCEPT !.at = "chain"])
        \/ GetSession(t, [req[t] EXCEPT !.at = "terminate"])
    BY <1>13 DEF CheckUser
  <2>2. QED
    BY <1>1, <1>4, <1>7, <1>13, <2>1 DEF CheckUser
<1>14. CASE RestFilter(t)
  <2>1. \/ GetSession(t, [req[t] EXCEPT !.at = "chain"])
        \/ GetSession(t, [req[t] EXCEPT !.at = "restEnd"])
    BY <1>14 DEF RestFilter
  <2>2. r.kind = "rest"
    BY <1>14 DEF RestFilter
  <2>3. QED
    BY <1>1, <1>4, <1>7, <1>14, <2>1, <2>2 DEF RestFilter
<1>15. CASE RestEnd(t)
  <2>1. /\ req'[t] = [req[t] EXCEPT !.at = "terminate", !.ends = TRUE]
        /\ flag'[t] = "logout" /\ r.at = "restEnd"
    BY <1>1, <1>15 DEF RestEnd
  <2>2. req'[t].at = "terminate" /\ UNCHANGED <<req[t].browser, req[t].kind, req[t].bound>>
    BY <1>1, <2>1 DEF RequestType
  <2>3. QED
    BY <2>1, <2>2
<1>16. CASE Commit(t)
  <2>1. /\ req'[t] = [req[t] EXCEPT !.committed = TRUE, !.answer = None]
        /\ r.at = "chain"
    BY <1>1, <1>16 DEF Commit
  <2>2. UNCHANGED <<req[t].at, req[t].browser, req[t].kind, req[t].bound>>
    BY <1>1, <2>1 DEF RequestType
  <2>3. QED
    BY <2>1, <2>2
<1>17. CASE BusinessEnds(t)
  BY <1>3, <1>7, <1>9, <1>17 DEF BusinessEnds
<1>18. CASE Login(t)
  BY <1>3, <1>7, <1>18 DEF Login, Business
<1>19. CASE LoginGetUser(t)
  BY <1>1, <1>4, <1>7, <1>19 DEF LoginGetUser
<1>20. CASE LoginSetUser(t)
  BY <1>3, <1>7, <1>20 DEF LoginSetUser
<1>21. CASE LoginFails(t)
  BY <1>3, <1>7, <1>9, <1>21 DEF LoginFails
<1>22. CASE LoginSetFlag(t)
  BY <1>1, <1>3, <1>5, <1>7, <1>9, <1>22 DEF LoginSetFlag
<1>23. CASE Logout(t)
  <2>1. /\ req'[t] = [req[t] EXCEPT !.ends = TRUE]
        /\ r.at = "chain"
    BY <1>1, <1>23 DEF Logout, Business
  <2>2. UNCHANGED <<req[t].at, req[t].browser, req[t].kind, req[t].bound>>
    BY <1>1, <2>1 DEF RequestType
  <2>3. QED
    BY <2>1, <2>2
<1>24. CASE Respond(t) \/ Destroy(t)
  <2>1. req' = [req EXCEPT ![t] = NoRequest]
    BY <1>24 DEF Respond, Destroy, Responded
  <2>2. req'[t] = NoRequest
    BY <1>1, <2>1
  <2>3. QED
    BY <2>2 DEF NoRequest
<1>25. CASE Terminate(t)
  <2>1. r.at = "terminate" /\ flag' = flag
    BY <1>25 DEF Terminate
  <2>2. CASE flag[t] = "none" /\ To(t, "destroy")
    BY <1>3, <1>7, <2>1, <2>2
  <2>3. CASE flag[t] = "login" /\ ChangeSessionId(t, "destroy")
    BY <1>1, <1>5, <1>7, <2>1, <2>3
  <2>4. CASE Responded(t)
    <3>1. req'[t] = NoRequest
      BY <1>1, <2>4 DEF Responded
    <3>2. QED
      BY <3>1 DEF NoRequest
  <2>5. CASE flag[t] = "logout" /\ GetSession(t, [req[t] EXCEPT !.at = "invalidate"])
    BY <1>1, <1>4, <1>7, <2>1, <2>5
  <2>6. QED
    BY <1>25, <2>2, <2>3, <2>4, <2>5 DEF Terminate
<1>26. CASE Invalidate(t)
  <2>1. r.at = "invalidate" /\ r.bound \in Sessions
    BY <1>1, <1>26 DEF Invalidate, RequestType
  <2>2. CASE Responded(t)
    <3>1. req'[t] = NoRequest
      BY <1>1, <2>2 DEF Responded
    <3>2. QED
      BY <3>1 DEF NoRequest
  <2>3. CASE /\ session' = [session EXCEPT ![r.bound] = NoSession]
             /\ req' = [Requests(r.bound) EXCEPT ![t].at = "destroy"]
    <3> DEFINE R == Requests(r.bound)
    <3>1. R[t] \in RequestType /\ R \in [Threads -> RequestType]
      BY RequestsProp
    <3>2. req'[t] = [R[t] EXCEPT !.at = "destroy"]
      BY <2>3, <3>1
    <3>3. /\ req'[t].at = "destroy" /\ req'[t].browser = R[t].browser
          /\ req'[t].bound = R[t].bound
      BY <3>1, <3>2 DEF RequestType
    <3>4. req'[t].at = "destroy" /\ UNCHANGED <<req[t].browser, req[t].bound>>
      BY <3>3, RequestsProp
    <3>5. session'[r.bound] = NoSession
      BY <2>1, <2>3 DEF Typed
    <3>6. ~Valid(r.bound)'
      BY <3>4, <3>5 DEF Valid, NoSession
    <3>7. QED
      BY <2>1, <3>4, <3>6
  <2>4. QED
    BY <1>26, <2>2, <2>3 DEF Invalidate
<1>27. QED
  BY <1>2, <1>10, <1>11, <1>12, <1>13, <1>14, <1>15, <1>16, <1>17, <1>18, <1>19, <1>20,
     <1>21, <1>22, <1>23, <1>24, <1>25, <1>26 DEF ThreadStep

LEMMA ExpireProp ==
    ASSUME Typed, NEW s \in Sessions, Expire(s)
    PROVE  /\ Typed'
           /\ \A r \in Threads : Renaming(s, r) /\ Same(r) /\ req[r].bound # s
           /\ cookie' = Cookies(s) /\ session'[s] = NoSession
           /\ \A x \in Sessions \ {s} : session'[x] = session[x]
           /\ UNCHANGED <<overlap, buffered>>
<1>1. req' = Requests(s) /\ cookie' = Cookies(s) /\ flag' = flag
      /\ session' = [session EXCEPT ![s] = NoSession] /\ UNCHANGED <<overlap, buffered>>
  BY DEF Expire
<1>2. Typed'
  BY <1>1, RequestsProp, NoRequestType DEF Typed
<1>3. \A r \in Threads : Renaming(s, r)
  BY <1>1, RequestsProp DEF Renaming
<1>4. \A r \in Threads : Same(r)
  BY <1>1, <1>3 DEF Renaming, Same
<1>5. QED
  BY <1>1, <1>2, <1>3, <1>4 DEF Expire, Typed

NextSteps == (\E t \in Threads : ThreadStep(t)) \/ (\E s \in Sessions : Expire(s))

LEMMA NextProp == Next <=> NextSteps
  BY DEF Next, NextSteps, ThreadStep

(* The settings are read or not. *)
LEMMA ConfigProp ==
    ASSUME NextSteps, initConfig \in BOOLEAN, ignoreAuthPath \in BOOLEAN
    PROVE  initConfig' \in BOOLEAN /\ ignoreAuthPath' \in BOOLEAN
<1>1. ASSUME NEW t \in Threads, ThreadStep(t)
      PROVE  initConfig' \in BOOLEAN /\ ignoreAuthPath' \in BOOLEAN
  BY <1>1 DEF ThreadStep, Receive, IfInitConfig, SetInitConfig, ReadConfig, CheckUser, RestFilter,
     RestEnd, Commit, BusinessEnds, Login, LoginGetUser, LoginSetUser, LoginFails, LoginSetFlag,
     Logout, Respond, Terminate, Invalidate, Destroy
<1>2. ASSUME NEW s \in Sessions, Expire(s)
      PROVE  initConfig' \in BOOLEAN /\ ignoreAuthPath' \in BOOLEAN
  BY <1>2 DEF Expire
<1>3. QED
  BY <1>1, <1>2 DEF NextSteps

(* What holds overlapped or not. *)
CInv ==
    /\ TypeOK
    /\ \A t \in Threads : Control(t) /\ RestEnding(t)
    /\ \A s \in Sessions : Ended(s)

LEMMA InitCInv == Init => CInv
<1> SUFFICES ASSUME Init PROVE CInv
  OBVIOUS
<1>1. Typed
  BY NoRequestType DEF Init, Typed, References
<1>2. TypeOK
  BY <1>1, TypeParts DEF Init
<1>3. \A t \in Threads : req[t].at = "idle" /\ req[t].bound = None /\ req[t].kind = "trace"
  BY DEF Init, NoRequest
<1>4. \A s \in Sessions : Ended(s)
  BY DEF Init, NoSession, Ended
<1>5. \A t \in Threads : Control(t) /\ RestEnding(t)
  BY <1>3 DEF Control, RestEnding, Late, InBusiness
<1>6. QED
  BY <1>2, <1>4, <1>5 DEF CInv

LEMMA NextCInv == CInv /\ [Next]_vars => CInv'
<1> SUFFICES ASSUME CInv, [Next]_vars PROVE CInv'
  OBVIOUS
<1>1. /\ TypeOK /\ Typed /\ initConfig \in BOOLEAN /\ ignoreAuthPath \in BOOLEAN
      /\ overlap \in BOOLEAN /\ buffered \in BOOLEAN
  BY TypeParts DEF CInv
<1>2. CASE UNCHANGED vars
  <2>1. UNCHANGED <<overlap, buffered, session, cookie, req, flag, initConfig, ignoreAuthPath>>
    BY <1>2 DEF vars
  <2>2. TypeOK'
    BY <1>1, <2>1 DEF TypeOK
  <2>3. QED
    BY <2>1, <2>2 DEF CInv, Control, RestEnding, Ended, Valid
<1>3. ASSUME NEW t \in Threads, ThreadStep(t) PROVE CInv'
  <2>1. Typed' /\ UNCHANGED <<overlap, buffered>>
    BY <1>1, <1>3, StepKinds
  <2>2. initConfig' \in BOOLEAN /\ ignoreAuthPath' \in BOOLEAN
    BY <1>1, <1>3, ConfigProp DEF NextSteps
  <2>3. TypeOK'
    <3>1. Typed' /\ overlap' \in BOOLEAN /\ buffered' \in BOOLEAN
          /\ initConfig' \in BOOLEAN /\ ignoreAuthPath' \in BOOLEAN
      BY <1>1, <2>1, <2>2
    <3>2. QED
      BY <3>1, AtsAre DEF TypeOK, Typed, RequestType, SessionType
  <2>4. \A s \in Sessions : Ended(s)'
    BY <1>1, <1>3, SessionsProp DEF CInv
  <2>5. ASSUME NEW r \in Threads \ {t} PROVE Control(r)' /\ RestEnding(r)'
    <3>1. Same(r) /\ Control(r) /\ RestEnding(r) /\ req[r] \in RequestType
      BY <1>1, <1>3, FrameProp DEF CInv, Typed
    <3>2. Control(r)'
      BY <3>1 DEF Same, Control
    <3>3. req[r].bound \in Sessions /\ ~Valid(req[r].bound) => ~Valid(req[r].bound)'
      <4>1. ASSUME req[r].bound \in Sessions, ~Valid(req[r].bound)
            PROVE  ~Valid(req[r].bound)'
        <5>1. Ended(req[r].bound) /\ Over(req[r].bound)
          BY <4>1 DEF CInv, Over
        <5>2. \A s \in Sessions : Ended(s) /\ Over(s) => ~Valid(s)'
          BY <1>1, <1>3, SessionsProp
        <5>3. ~session'[req[r].bound].valid
          BY <4>1, <5>1, <5>2 DEF Valid
        <5>4. QED
          BY <3>1, <5>3 DEF Same, Valid
      <4>2. QED
        BY <4>1
    <3>4. req[r].kind = "rest" /\ req[r].at = "destroy" => req[r].bound \in Sessions
      BY <3>1 DEF Control, Late, RequestType
    <3>5. QED
      BY <3>1, <3>2, <3>3, <3>4 DEF Same, RestEnding
  <2>6. Control(t)' /\ RestEnding(t)'
    BY <1>1, <1>3, OwnControl DEF CInv
  <2>7. QED
    BY <2>3, <2>4, <2>5, <2>6 DEF CInv
<1>4. ASSUME NEW s \in Sessions, Expire(s) PROVE CInv'
  <2>1. Typed' /\ UNCHANGED <<overlap, buffered>>
    BY <1>1, <1>4, ExpireProp
  <2>2. initConfig' \in BOOLEAN /\ ignoreAuthPath' \in BOOLEAN
    BY <1>1, <1>4, ConfigProp DEF NextSteps
  <2>3. TypeOK'
    <3>1. Typed' /\ overlap' \in BOOLEAN /\ buffered' \in BOOLEAN
          /\ initConfig' \in BOOLEAN /\ ignoreAuthPath' \in BOOLEAN
      BY <1>1, <2>1, <2>2
    <3>2. QED
      BY <3>1, AtsAre DEF TypeOK, Typed, RequestType, SessionType
  <2>4. session'[s] = NoSession /\ \A x \in Sessions \ {s} : session'[x] = session[x]
    BY <1>1, <1>4, ExpireProp
  <2>5. \A x \in Sessions : Ended(x)'
    BY <2>4 DEF CInv, Ended, Valid, NoSession
  <2>6. ASSUME NEW r \in Threads PROVE Control(r)' /\ RestEnding(r)'
    <3>1. Same(r) /\ Control(r) /\ RestEnding(r) /\ req[r] \in RequestType
      BY <1>1, <1>4, ExpireProp DEF CInv, Typed
    <3>2. req[r].kind = "rest" /\ req[r].at = "destroy" => req[r].bound \in Sessions
      BY <3>1 DEF Control, Late, RequestType
    <3>3. req[r].bound \in Sessions /\ ~Valid(req[r].bound) => ~Valid(req[r].bound)'
      BY <2>4, <3>1 DEF Valid, NoSession, Same
    <3>4. QED
      BY <3>1, <3>2, <3>3 DEF Same, Control, RestEnding
  <2>7. QED
    BY <2>3, <2>5, <2>6 DEF CInv
<1>5. QED
  BY <1>2, <1>3, <1>4, NextProp DEF NextSteps

LEMMA CInvAlways == Spec => []CInv
  BY InitCInv, NextCInv, PTL DEF Spec

(* Types. *)
THEOREM TypeCorrect == Spec => []TypeOK
<1>1. CInv => TypeOK
  BY DEF CInv
<1>2. QED
  BY <1>1, CInvAlways, PTL

(* A REST request leaves no session behind, whatever happens in between.   *)
THEOREM RestEndsSession == Spec => RestLeavesNone
<1> DEFINE Ends == \A t \in Threads :
                      req[t].kind = "rest" /\ Busy(t) /\ req'[t].at = "idle"
                      => req[t].bound # None /\ ~session'[req[t].bound].valid
<1>1. ASSUME CInv, [Next]_vars PROVE [Ends]_vars
  <2>1. SUFFICES ASSUME NextSteps, NEW t \in Threads, req[t].kind = "rest", Busy(t),
                        req'[t].at = "idle"
                 PROVE  req[t].bound # None /\ ~session'[req[t].bound].valid
    BY <1>1, NextProp
  <2>2. Typed /\ Control(t) /\ RestEnding(t) /\ req[t].at # "idle"
    BY <1>1, <2>1, TypeParts DEF CInv, Busy
  <2>3. ThreadStep(t)
    <3>1. ASSUME NEW s \in Sessions, Expire(s) PROVE FALSE
      BY <2>1, <2>2, <3>1, ExpireProp DEF Same
    <3>2. ASSUME NEW r \in Threads \ {t}, ThreadStep(r) PROVE FALSE
      BY <2>1, <2>2, <3>2, FrameProp DEF Same
    <3>3. QED
      BY <2>1, <3>1, <3>2 DEF NextSteps
  <2>4. Left(t)
    BY <2>1, <2>2, <2>3, StepKinds DEF Received, Underway
  <2>5. LeavesFrom(t) /\ session' = session
    BY <2>4 DEF Left
  <2>6. SUFFICES req[t].bound # None /\ ~Valid(req[t].bound)
    BY <2>5 DEF Valid
  <2>7. req[t] \in RequestType
    BY <2>2 DEF Typed
  <2>8. req[t].at \in {"terminate", "invalidate", "destroy"}
    BY <2>1, <2>2, <2>5 DEF LeavesFrom, Control
  <2>9. req[t].bound # None /\ req[t].bound \in Sessions
    BY <2>1, <2>2, <2>7, <2>8 DEF Control, Late, RequestType
  <2>10. CASE req[t].at = "terminate" /\ Found(t) = {}
    BY <2>9, <2>10, FoundProp
  <2>11. CASE req[t].at = "destroy" \/ ~Valid(req[t].bound)
    BY <2>1, <2>2, <2>9, <2>11 DEF RestEnding
  <2>12. QED
    BY <2>5, <2>8, <2>9, <2>10, <2>11 DEF LeavesFrom
<1>2. QED
  BY <1>1, CInvAlways, PTL DEF Spec, RestLeavesNone, Ends

-------------------------------------------------------------------------------
(* If requests do not overlap: what a request holds, step by step.         *)

Box ==
    /\ Typed
    /\ \A t \in Threads : Control(t) /\ Holding(t) /\ Alone(t)
    /\ \A b \in Browsers : Known(b)

Boxed == (\A t \in Threads : Holding(t) /\ Alone(t)) /\ (\A b \in Browsers : Known(b))

(* A busy request has a browser; an idle thread has no session.            *)
LEMMA BoxProp ==
    ASSUME Box, NEW t \in Threads
    PROVE  /\ req[t] \in RequestType /\ None \notin Sessions /\ Stale \notin Sessions /\ Stale # None
           /\ Busy(t) => req[t].browser \in Browsers
           /\ req[t].bound # None => req[t].bound \in Sessions /\ Busy(t)
           /\ req[t].answer \in Sessions => req[t].answer = req[t].bound
           /\ \A b \in Browsers : cookie[b] \in References
<1>1. req[t] \in RequestType /\ Control(t) /\ Holding(t)
  BY DEF Box, Typed
<1>2. req[t].bound # None => req[t].bound \in Sessions /\ Busy(t)
  BY <1>1 DEF Control, Busy, RequestType
<1>3. QED
  BY <1>1, <1>2, RequestAssumption DEF Box, Typed, Control, Busy, Holding

(* Nothing a session is named by changes, and none begins or ends.         *)
LEMMA QuietBox ==
    ASSUME Box, NEW t \in Threads, Others(t), Underway(t), cookie' = cookie,
           UNCHANGED <<req[t].browser, req[t].asked, req[t].bound, req[t].answer>>,
           \A s \in Sessions : Valid(s)' <=> Valid(s)
    PROVE  /\ Boxed'
           /\ \A s \in Sessions : Reachable(s) => Reachable(s)'
<1>1. \A r \in Threads :
        /\ UNCHANGED <<req[r].browser, req[r].asked, req[r].bound, req[r].answer>>
        /\ Busy(r)' <=> Busy(r)
        /\ req'[r].at = req[r].at \/ req[r].at \notin {"idle", "destroy"}
  BY DEF Others, Underway, Busy
<1>2. \A r \in Threads : req[r].bound # None => (Valid(req[r].bound)' <=> Valid(req[r].bound))
  <2>1. ASSUME NEW r \in Threads, req[r].bound # None
        PROVE  Valid(req[r].bound)' <=> Valid(req[r].bound)
    <3>1. req[r].bound \in Sessions
      BY <2>1, BoxProp
    <3>2. req'[r].bound = req[r].bound
      BY <1>1
    <3>3. QED
      BY <3>1, <3>2 DEF Valid
  <2>2. QED
    BY <2>1
<1>3. ASSUME NEW r \in Threads PROVE Holding(r)'
  <2>1. Holding(r)
    BY DEF Box
  <2>2. QED
    BY <1>1, <1>2, <2>1 DEF Holding, Busy
<1>4. ASSUME NEW r \in Threads PROVE Alone(r)'
  <2>1. Alone(r)
    BY DEF Box
  <2>2. QED
    BY <1>1, <2>1 DEF Alone
<1>5. ASSUME NEW b \in Browsers PROVE Known(b)'
  BY DEF Box, Known, Valid
<1>6. ASSUME NEW s \in Sessions, Reachable(s) PROVE Reachable(s)'
  BY <1>1, <1>6 DEF Reachable, Valid
<1>7. QED
  BY <1>3, <1>4, <1>5, <1>6 DEF Boxed

(* Receiving: the browser is waiting for nothing else.                     *)
LEMMA ReceivedBox ==
    ASSUME Box, NEW t \in Threads, Received(t), ~overlap
    PROVE  /\ Boxed'
           /\ \A s \in Sessions : Reachable(s) => Reachable(s)'
<1>1. PICK b \in Browsers :
        /\ \A r \in Threads : Busy(r) => req[r].browser # b
        /\ req'[t].browser = b /\ req'[t].asked = cookie[b]
  BY DEF Received
<1>2. /\ UNCHANGED <<session, cookie>> /\ Others(t) /\ req[t].at = "idle"
      /\ req'[t].at = "config" /\ req'[t].bound = None /\ req'[t].answer = None
  BY DEF Received
<1>3. \A r \in Threads \ {t} : req'[r] = req[r]
  BY <1>2 DEF Others
<1>4. req[t].answer \notin Sessions /\ req[t].bound = None
  BY <1>2, BoxProp DEF Busy
<1>5. ASSUME NEW r \in Threads PROVE Holding(r)'
  <2>1. CASE r = t
    BY <1>1, <1>2, <2>1 DEF Holding
  <2>2. CASE r # t
    BY <1>2, <1>3, <2>2 DEF Box, Holding, Valid
  <2>3. QED
    BY <2>1, <2>2
<1>6. ASSUME NEW r \in Threads PROVE Alone(r)'
  <2>1. CASE r = t
    BY <1>1, <1>2, <1>3, <2>1 DEF Alone, Busy
  <2>2. CASE r # t
    BY <1>1, <1>2, <1>3, <2>2 DEF Box, Alone, Busy
  <2>3. QED
    BY <2>1, <2>2
<1>7. ASSUME NEW c \in Browsers PROVE Known(c)'
  BY <1>2 DEF Box, Known, Valid
<1>8. ASSUME NEW s \in Sessions, Reachable(s) PROVE Reachable(s)'
  BY <1>2, <1>3, <1>4, <1>8 DEF Reachable, Valid
<1>9. QED
  BY <1>5, <1>6, <1>7, <1>8 DEF Boxed

(* The cookie goes out: the session it names was the browser's.            *)
LEMMA AnsweredBox ==
    ASSUME Box, NEW t \in Threads, Busy(t), Answered(t), session' = session, Others(t),
           Left(t) \/ Committed(t)
    PROVE  /\ Boxed'
           /\ Left(t) => \A s \in Sessions : Reachable(s) => Reachable(s)'
<1> DEFINE b == req[t].browser
           a == req[t].answer
<1>1. /\ b \in Browsers /\ Holding(t) /\ Alone(t) /\ cookie \in [Browsers -> References]
      /\ None \notin Sessions /\ Stale \notin Sessions /\ Stale # None
      /\ a \in Sessions => a = req[t].bound
      /\ a \in References
  BY BoxProp DEF Box, Typed, RequestType
<1>2. \A c \in Browsers : cookie'[c] = IF c = b /\ a # None THEN a ELSE cookie[c]
  BY <1>1 DEF Answered
<1>3. \A r \in Threads \ {t} : req'[r] = req[r] /\ (Busy(r)' <=> Busy(r))
  BY DEF Others, Busy
<1>4. \A x : Valid(x)' <=> Valid(x)
  BY DEF Valid
<1>5. a \in Sessions => Valid(a)
  BY <1>1 DEF Holding
<1>6. ASSUME NEW r \in Threads PROVE Holding(r)'
  <2>1. CASE r = t /\ Left(t)
    BY <2>1 DEF Left, NoRequest, Holding
  <2>2. CASE r = t /\ Committed(t)
    <3>1. /\ UNCHANGED <<req[t].at, req[t].browser, req[t].asked, req[t].bound>>
          /\ req'[t].answer = None
      BY <2>2 DEF Committed
    <3>2. cookie'[b] = cookie[b] \/ (a # None /\ cookie'[b] = a)
      BY <1>1, <1>2
    <3>3. QED
      BY <1>1, <1>4, <2>2, <3>1, <3>2 DEF Holding, Busy, Valid
  <2>3. CASE r # t
    <3>1. Holding(r) /\ Control(r)
      BY DEF Box
    <3>2. Busy(r) => req[r].browser # b /\ req[r].browser \in Browsers
      BY <1>1, <2>3, BoxProp DEF Alone
    <3>3. req[r].bound # None => Busy(r)
      BY BoxProp
    <3>4. QED
      BY <1>2, <1>3, <2>3, <3>1, <3>2, <3>3 DEF Holding, Busy, Valid
  <2>4. QED
    BY <2>1, <2>2, <2>3
<1>7. ASSUME NEW r \in Threads PROVE Alone(r)'
  <2>1. CASE r = t /\ Left(t)
    BY <2>1 DEF Left, NoRequest, Alone, Busy
  <2>2. CASE r = t /\ Committed(t)
    <3>1. UNCHANGED <<req[t].at, req[t].browser, req[t].bound>>
      BY <2>2 DEF Committed
    <3>2. ASSUME NEW c \in Browsers, req[t].bound # None, cookie'[c] = req[t].bound
          PROVE  b = c
      BY <1>1, <1>2, <3>2 DEF Alone
    <3>3. QED
      BY <1>1, <1>3, <2>2, <3>1, <3>2 DEF Alone, Busy
  <2>3. CASE r # t
    <3>1. Alone(r) /\ Holding(r)
      BY DEF Box
    <3>2. ASSUME NEW c \in Browsers, req[r].bound # None, cookie'[c] = req[r].bound
          PROVE  req[r].browser = c
      <4>1. req[r].bound \in Sessions /\ req[r].bound # req[t].bound
        BY <2>3, <3>1, <3>2, BoxProp DEF Alone
      <4>2. cookie'[c] = cookie[c]
        BY <1>1, <1>2, <3>2, <4>1
      <4>3. QED
        BY <3>1, <3>2, <4>2 DEF Alone
    <3>3. /\ Busy(t)' => Busy(t)
          /\ req'[t].bound # None => req'[t].bound = req[t].bound
          /\ Busy(t)' => req'[t].browser = b
      BY DEF Left, Committed, NoRequest, Busy
    <3>4. ASSUME NEW q \in Threads \ {r}
          PROVE  /\ Busy(r)' /\ Busy(q)' => req'[q].browser # req'[r].browser
                 /\ req'[r].bound # None => req'[q].bound # req'[r].bound
      <4>1. CASE q = t
        BY <1>3, <2>3, <3>1, <3>3, <4>1 DEF Alone
      <4>2. CASE q # t
        BY <1>3, <2>3, <3>1, <4>2 DEF Alone
      <4>3. QED
        BY <4>1, <4>2
    <3>5. QED
      BY <1>3, <2>3, <3>2, <3>4 DEF Alone
  <2>4. QED
    BY <2>1, <2>2, <2>3
<1>8. ASSUME NEW c \in Browsers PROVE Known(c)'
  <2>1. \A d \in Browsers : Known(d)
    BY DEF Box
  <2>2. a \in Sessions => \A d \in Browsers \ {b} : cookie[d] # a
    BY <1>1 DEF Alone
  <2>3. QED
    BY <1>1, <1>2, <1>4, <1>5, <2>1, <2>2 DEF Known, Valid
<1>9. ASSUME Left(t), NEW s \in Sessions, Reachable(s) PROVE Reachable(s)'
  <2>1. CASE \E c \in Browsers : cookie[c] = s
    <3>1. PICK c \in Browsers : cookie[c] = s
      BY <2>1
    <3>2. CASE c = b /\ a # None
      <4>1. req[t].bound # None
        BY <1>1, <3>2 DEF Holding
      <4>2. s = req[t].bound
        BY <1>1, <3>1, <3>2, <4>1 DEF Holding
      <4>3. a = s \/ ~Valid(s)
        BY <1>1, <3>2, <4>1, <4>2 DEF Holding
      <4>4. QED
        BY <1>1, <1>2, <1>4, <3>2, <4>3 DEF Reachable, Valid
    <3>3. CASE ~(c = b /\ a # None)
      BY <1>2, <3>1, <3>3 DEF Reachable
    <3>4. QED
      BY <3>2, <3>3
  <2>2. CASE \E r \in Threads : req[r].answer = s
    <3>1. PICK r \in Threads : req[r].answer = s
      BY <2>2
    <3>2. CASE r = t
      BY <1>1, <1>2, <3>1, <3>2 DEF Reachable
    <3>3. CASE r # t
      BY <1>3, <3>1, <3>3 DEF Reachable
    <3>4. QED
      BY <3>2, <3>3
  <2>3. CASE ~Valid(s)
    BY <1>4, <2>3 DEF Reachable, Valid
  <2>4. QED
    BY <1>9, <2>1, <2>2, <2>3 DEF Reachable
<1>10. QED
  BY <1>6, <1>7, <1>8, <1>9 DEF Boxed

(* A session is had by one request only, and by the browser that names it. *)
LEMMA FoundAlone ==
    ASSUME Box, NEW t \in Threads, Busy(t), NEW s \in Found(t)
    PROVE  /\ s \in Sessions /\ Valid(s)
           /\ req[t].bound = None => s = req[t].asked /\ s = cookie[req[t].browser]
           /\ req[t].bound # None => s = req[t].bound
           /\ \A r \in Threads \ {t} : req[r].bound # s
           /\ \A b \in Browsers : cookie[b] = s => b = req[t].browser
<1>1. s \in Sessions /\ Valid(s) /\ s = IF req[t].bound = None THEN req[t].asked
                                        ELSE req[t].bound
  BY FoundProp
<1>2. Holding(t) /\ Alone(t) /\ req[t].browser \in Browsers
  BY BoxProp DEF Box
<1>3. req[t].bound = None => s = cookie[req[t].browser]
  BY <1>1, <1>2 DEF Holding, Busy
<1>4. ASSUME NEW r \in Threads \ {t} PROVE req[r].bound # s
  <2>1. CASE req[t].bound # None
    BY <1>1, <1>2, <2>1 DEF Alone
  <2>2. CASE req[t].bound = None
    <3>1. SUFFICES ASSUME req[r].bound = s PROVE FALSE
      OBVIOUS
    <3>2. Alone(r) /\ Busy(r) /\ req[r].bound # None
      BY <1>1, <3>1, BoxProp DEF Box
    <3>3. req[r].browser = req[t].browser
      BY <1>2, <1>3, <2>2, <3>1, <3>2 DEF Alone
    <3>4. QED
      BY <1>2, <3>2, <3>3 DEF Alone
  <2>3. QED
    BY <2>1, <2>2
<1>5. ASSUME NEW b \in Browsers, cookie[b] = s PROVE b = req[t].browser
  <2>1. CASE req[t].bound # None
    BY <1>1, <1>2, <1>5, <2>1 DEF Alone
  <2>2. CASE req[t].bound = None
    <3>1. Known(b) /\ cookie[req[t].browser] = cookie[b]
      BY <1>3, <1>5, <2>2 DEF Box
    <3>2. QED
      BY <1>1, <1>2, <1>5, <3>1 DEF Known
  <2>3. QED
    BY <2>1, <2>2
<1>6. QED
  BY <1>1, <1>3, <1>4, <1>5

(* getSession(): the session that was found becomes the request's, or a    *)
(* new one does, that nobody has.                                          *)
LEMMA GetsBox ==
    ASSUME Box, NEW t \in Threads, Gets(t), Underway(t)
    PROVE  /\ Boxed'
           /\ \A s \in Sessions : Reachable(s) => Reachable(s)'
<1>1. PICK at \in Ats : GotSession(t, at)
  BY DEF Gets
<1>2. /\ cookie' = cookie /\ Busy(t) /\ Busy(t)' /\ req[t].at # "destroy"
      /\ \A r \in Threads \ {t} : req'[r] = req[r]
      /\ req'[t].browser = req[t].browser /\ req'[t].asked = None
  BY <1>1 DEF Gets, GotSession, Underway, Busy
<1>3. Holding(t) /\ Alone(t) /\ req[t].browser \in Browsers /\ None \notin Sessions
      /\ Stale \notin Sessions /\ Stale # None
      /\ session \in [Sessions -> SessionType]
  BY <1>2, BoxProp DEF Box, Typed
<1>7. PICK s : req'[t].bound = s
  OBVIOUS
<1>4. CASE s \in Found(t) /\ req'[t].answer = req[t].answer /\ session' = session
  <2>1. /\ s \in Sessions /\ Valid(s)
        /\ req[t].bound = None => s = req[t].asked /\ s = cookie[req[t].browser]
        /\ req[t].bound # None => s = req[t].bound
        /\ \A r \in Threads \ {t} : req[r].bound # s
        /\ \A b \in Browsers : cookie[b] = s => b = req[t].browser
    BY <1>2, <1>4, FoundAlone
  <2>2. Valid(s)'
    BY <1>4, <2>1 DEF Valid
  <2>3. req'[t].answer \in {s, Stale, None}
        /\ (req'[t].answer = Stale => FALSE)
    BY <1>2, <1>3, <1>4, <2>1 DEF Holding
  <2>4. Holding(t)'
    BY <1>2, <1>3, <1>7, <2>1, <2>2, <2>3 DEF Holding
  <2>5. Alone(t)'
    BY <1>2, <1>3, <1>7, <2>1 DEF Alone, Busy
  <2>6. ASSUME NEW r \in Threads \ {t} PROVE Holding(r)' /\ Alone(r)'
    <3>1. Holding(r) /\ Alone(r) /\ req[r].bound # s
      BY <2>1 DEF Box
    <3>2. Holding(r)'
      BY <1>2, <1>4, <3>1 DEF Holding, Valid
    <3>3. Alone(r)'
      BY <1>2, <1>7, <3>1 DEF Alone, Busy
    <3>4. QED
      BY <3>2, <3>3
  <2>7. \A b \in Browsers : Known(b)'
    BY <1>2, <1>4 DEF Box, Known, Valid
  <2>8. ASSUME NEW x \in Sessions, Reachable(x) PROVE Reachable(x)'
    BY <1>2, <1>4, <2>8 DEF Reachable, Valid
  <2>9. QED
    BY <2>4, <2>5, <2>6, <2>7, <2>8 DEF Boxed
<1>5. CASE /\ Found(t) = {}
           /\ s \in Unused /\ req'[t].answer = s
           /\ session' = [session EXCEPT ![s].valid = TRUE]
  <2>1. s \in Sessions /\ ~Valid(s) /\ \A r \in Threads : req[r].bound # s
    BY <1>5 DEF Unused
  <2>2. req[t].bound = None
    <3>1. SUFFICES ASSUME req[t].bound # None PROVE FALSE
      OBVIOUS
    <3>2. req[t].bound \in Sessions /\ Valid(req[t].bound)
      BY <1>2, <1>3, <3>1, BoxProp DEF Holding
    <3>3. QED
      BY <1>5, <3>1, <3>2, FoundProp
  <2>3. req[t].asked = cookie[req[t].browser] /\ req[t].answer = None
    BY <1>2, <1>3, <2>2 DEF Holding, Busy
  <2>4. cookie[req[t].browser] \in {Stale, None}
    <3>1. SUFFICES ASSUME cookie[req[t].browser] \in Sessions PROVE FALSE
      BY <1>3, BoxProp DEF References
    <3>2. Valid(cookie[req[t].browser])
      BY <1>3, <3>1 DEF Box, Known
    <3>3. QED
      BY <1>5, <2>2, <2>3, <3>1, <3>2, FoundProp
  <2>5. /\ Valid(s)'
        /\ \A x \in Sessions \ {s} : session'[x] = session[x]
    <3>1. session'[s].valid /\ \A x \in Sessions \ {s} : session'[x] = session[x]
      BY <1>3, <1>5, <2>1 DEF SessionType
    <3>2. QED
      BY <3>1 DEF Valid
  <2>6. \A b \in Browsers : cookie[b] # s
    BY <2>1 DEF Box, Known
  <2>7. Holding(t)'
    BY <1>2, <1>3, <1>5, <1>7, <2>1, <2>2, <2>3, <2>4, <2>5 DEF Holding
  <2>8. Alone(t)'
    BY <1>2, <1>3, <1>7, <2>1, <2>6 DEF Alone, Busy
  <2>9. ASSUME NEW r \in Threads \ {t} PROVE Holding(r)' /\ Alone(r)'
    <3>1. Holding(r) /\ Alone(r) /\ req[r].bound # s
      BY <2>1 DEF Box
    <3>2. req[r].bound # None => req[r].bound \in Sessions \ {s}
      BY <3>1, BoxProp
    <3>3. Holding(r)'
      BY <1>2, <2>5, <3>1, <3>2 DEF Holding, Valid
    <3>4. Alone(r)'
      BY <1>2, <1>7, <3>1 DEF Alone, Busy
    <3>5. QED
      BY <3>3, <3>4
  <2>10. \A b \in Browsers : Known(b)'
    BY <1>2, <2>5, <2>6 DEF Box, Known, Valid
  <2>11. ASSUME NEW x \in Sessions, Reachable(x) PROVE Reachable(x)'
    <3>1. CASE x = s
      BY <1>5, <3>1 DEF Reachable
    <3>2. CASE x # s
      <4>1. Valid(x)' <=> Valid(x)
        BY <2>5, <3>2 DEF Valid
      <4>2. \A r \in Threads : req[r].answer = x => req'[r].answer = x
        BY <1>2, <1>3, <2>3
      <4>3. QED
        BY <1>2, <2>11, <4>1, <4>2 DEF Reachable
    <3>3. QED
      BY <3>1, <3>2
  <2>12. QED
    BY <2>7, <2>8, <2>9, <2>10, <2>11 DEF Boxed
<1>6. QED
  BY <1>1, <1>4, <1>5, <1>7 DEF GotSession

(* A session that one request at most has is renamed, or ends: the others  *)
(* keep what they hold.                                                    *)
LEMMA RenamingBox ==
    ASSUME Box, NEW s \in Sessions, cookie' = Cookies(s), NEW r \in Threads, Renaming(s, r),
           req[r].bound # s, \A x \in Sessions \ {s} : Valid(x)' <=> Valid(x)
    PROVE  /\ Holding(r)' /\ req'[r].answer = req[r].answer
           /\ \A b \in Browsers : cookie'[b] = IF cookie[b] = s THEN Stale ELSE cookie[b]
           /\ \A b \in Browsers : req[r].bound # None /\ cookie'[b] = req[r].bound
                                    => req[r].browser = b
<1>1. /\ req[r] \in RequestType /\ None \notin Sessions /\ Stale \notin Sessions /\ Stale # None
      /\ Busy(r) => req[r].browser \in Browsers
      /\ req[r].bound # None => req[r].bound \in Sessions /\ Busy(r)
      /\ req[r].answer \in Sessions => req[r].answer = req[r].bound
      /\ Holding(r) /\ Alone(r)
  BY BoxProp DEF Box
<1>2. \A b \in Browsers : cookie'[b] = IF cookie[b] = s THEN Stale ELSE cookie[b]
  BY DEF Cookies, Renamed
<1>3. req'[r].answer = req[r].answer /\ req'[r].bound = req[r].bound
      /\ req'[r].browser = req[r].browser /\ req'[r].at = req[r].at
      /\ req'[r].asked = IF req[r].asked = s THEN Stale ELSE req[r].asked
  BY <1>1 DEF Renaming, Renamed
<1>4. Holding(r)'
  <2>1. CASE req[r].bound = None
    BY <1>1, <1>2, <1>3, <2>1 DEF Holding, Busy
  <2>2. CASE req[r].bound # None
    <3>1. req[r].bound \in Sessions \ {s}
      BY <1>1, <2>2
    <3>2. Valid(req[r].bound)' <=> Valid(req[r].bound)
      BY <1>3, <3>1 DEF Valid
    <3>3. cookie'[req[r].browser] \in {req[r].bound, Stale, None}
      BY <1>1, <1>2, <2>2 DEF Holding
    <3>4. req'[r].asked = None
      BY <1>1, <1>3, <2>2 DEF Holding
    <3>5. QED
      BY <1>1, <1>3, <2>2, <3>2, <3>3, <3>4 DEF Holding
  <2>3. QED
    BY <2>1, <2>2
<1>5. ASSUME NEW b \in Browsers, req[r].bound # None, cookie'[b] = req[r].bound
      PROVE  req[r].browser = b
  BY <1>1, <1>2, <1>5 DEF Alone
<1>6. QED
  BY <1>2, <1>3, <1>4, <1>5

LEMMA RenamedKnown ==
    ASSUME Box, NEW s \in Sessions, cookie' = Cookies(s),
           \A x \in Sessions \ {s} : Valid(x)' <=> Valid(x)
    PROVE  \A b \in Browsers : Known(b)' /\ cookie'[b] # s
<1>1. Stale \notin Sessions
  BY RequestAssumption
<1>2. \A b \in Browsers : cookie'[b] = IF cookie[b] = s THEN Stale ELSE cookie[b]
  BY DEF Cookies, Renamed
<1>3. ASSUME NEW b \in Browsers PROVE Known(b)'
  <2>1. SUFFICES ASSUME cookie'[b] \in Sessions
                 PROVE  Valid(cookie[b])' /\ \A c \in Browsers \ {b} : cookie'[c] # cookie'[b]
    BY DEF Known
  <2>2. cookie'[b] = cookie[b] /\ cookie[b] \in Sessions \ {s}
    BY <1>1, <1>2, <2>1
  <2>3. Valid(cookie[b]) /\ \A c \in Browsers \ {b} : cookie[c] # cookie[b]
    BY <2>2 DEF Box, Known
  <2>4. Valid(cookie[b])'
    BY <2>2, <2>3 DEF Valid
  <2>5. QED
    BY <1>1, <1>2, <2>1, <2>2, <2>3, <2>4
<1>4. QED
  BY <1>1, <1>2, <1>3

(* changeSessionId(). *)
LEMMA ChangesBox ==
    ASSUME Box, NEW t \in Threads, Changes(t), Underway(t)
    PROVE  /\ Boxed'
           /\ ~req[t].committed => \A s \in Sessions : Reachable(s) => Reachable(s)'
<1>1. PICK at \in Ats : ChangedId(t, at)
  BY DEF Changes
<1>2. PICK s \in Found(t) :
        /\ cookie' = Cookies(s)
        /\ \A r \in Threads \ {t} : Renaming(s, r)
        /\ UNCHANGED <<req[t].browser, req[t].kind, req[t].committed, req[t].ends>>
        /\ req'[t].at = at /\ req'[t].asked = None /\ req'[t].bound = s
        /\ req'[t].answer = IF req[t].committed THEN None ELSE s
  BY <1>1 DEF ChangedId
<1>3. Busy(t) /\ session' = session /\ \A x : Valid(x)' <=> Valid(x)
  BY DEF Underway, Busy, Changes, Valid
<1>4. /\ s \in Sessions /\ Valid(s)
      /\ req[t].bound = None => s = cookie[req[t].browser]
      /\ req[t].bound # None => s = req[t].bound
      /\ \A r \in Threads \ {t} : req[r].bound # s
  BY <1>3, FoundAlone
<1>5. /\ Holding(t) /\ Alone(t) /\ req[t].browser \in Browsers /\ None \notin Sessions
      /\ Stale \notin Sessions /\ Stale # None
  BY <1>3, BoxProp DEF Box
<1>6. \A b \in Browsers : Known(b)' /\ cookie'[b] # s
  BY <1>2, <1>3, <1>4, RenamedKnown
<1>7. \A b \in Browsers : cookie'[b] = IF cookie[b] = s THEN Stale ELSE cookie[b]
  BY <1>2 DEF Cookies, Renamed
<1>8. ASSUME NEW r \in Threads \ {t}
      PROVE  /\ Holding(r)' /\ req'[r].answer = req[r].answer
             /\ \A b \in Browsers : req[r].bound # None /\ cookie'[b] = req[r].bound
                                       => req[r].browser = b
             /\ UNCHANGED <<req[r].at, req[r].browser, req[r].bound>>
  <2>1. Renaming(s, r) /\ req[r].bound # s
    BY <1>2, <1>4
  <2>2. QED
    BY <1>2, <1>3, <1>4, <2>1, RenamingBox DEF Renaming
<1>9. Holding(t)'
  <2>1. cookie'[req[t].browser] \in {s, Stale, None}
    BY <1>4, <1>5, <1>7 DEF Holding
  <2>2. Valid(s)'
    BY <1>3, <1>4 DEF Valid
  <2>3. QED
    BY <1>2, <1>4, <1>5, <2>1, <2>2 DEF Holding
<1>10. Busy(t)' <=> Busy(t)
  BY DEF Underway, Busy
<1>11. Alone(t)'
  <2>1. Alone(t)
    BY <1>5
  <2>2. ASSUME NEW r \in Threads \ {t}
        PROVE  /\ Busy(t)' /\ Busy(r)' => req'[r].browser # req'[t].browser
               /\ req'[t].bound # None => req'[r].bound # req'[t].bound
    BY <1>2, <1>4, <1>8, <1>10, <2>1 DEF Alone, Busy
  <2>3. \A b \in Browsers : req'[t].bound # None /\ cookie'[b] = req'[t].bound
                              => req'[t].browser = b
    BY <1>2, <1>6
  <2>4. QED
    BY <2>2, <2>3 DEF Alone
<1>12. ASSUME NEW r \in Threads \ {t} PROVE Alone(r)'
  <2>1. Alone(r) /\ req[r].bound # s
    BY <1>4 DEF Box
  <2>2. ASSUME NEW q \in Threads \ {r}
        PROVE  /\ Busy(r)' /\ Busy(q)' => req'[q].browser # req'[r].browser
               /\ req'[r].bound # None => req'[q].bound # req'[r].bound
    <3>1. CASE q = t
      BY <1>2, <1>8, <1>10, <2>1, <3>1 DEF Alone, Busy
    <3>2. CASE q # t
      BY <1>8, <2>1, <3>2 DEF Alone, Busy
    <3>3. QED
      BY <3>1, <3>2
  <2>3. QED
    BY <1>8, <2>2 DEF Alone
<1>13. ASSUME ~req[t].committed, NEW x \in Sessions, Reachable(x) PROVE Reachable(x)'
  <2>1. CASE x = s
    BY <1>2, <1>13, <2>1 DEF Reachable
  <2>2. CASE x # s /\ \E b \in Browsers : cookie[b] = x
    BY <1>7, <2>2 DEF Reachable
  <2>3. CASE x # s /\ \E r \in Threads : req[r].answer = x
    <3>1. PICK r \in Threads : req[r].answer = x
      BY <2>3
    <3>2. r # t
      <4>1. req[t].answer \in Sessions => req[t].answer = req[t].bound
        BY BoxProp
      <4>2. QED
        BY <1>4, <1>5, <2>3, <3>1, <4>1
    <3>3. QED
      BY <1>8, <3>1, <3>2 DEF Reachable
  <2>4. QED
    BY <1>3, <1>13, <2>1, <2>2, <2>3 DEF Reachable, Valid
<1>14. QED
  BY <1>6, <1>8, <1>9, <1>11, <1>12, <1>13 DEF Boxed

(* invalidate(). *)
LEMMA InvalidatedBox ==
    ASSUME Box, NEW t \in Threads, Invalidated(t)
    PROVE  /\ Boxed'
           /\ \A s \in Sessions : Reachable(s) => Reachable(s)'
<1> DEFINE s == req[t].bound
<1>1. /\ req[t].at = "invalidate" /\ Valid(s)
      /\ session' = [session EXCEPT ![s] = NoSession]
      /\ cookie' = Cookies(s)
      /\ \A r \in Threads \ {t} : Renaming(s, r)
      /\ UNCHANGED <<req[t].browser, req[t].bound>>
      /\ req'[t].at = "destroy"
      /\ req'[t].asked = Renamed(s, req[t].asked)
      /\ req'[t].answer = Renamed(s, req[t].answer)
  BY DEF Invalidated
<1>2. s # None /\ Busy(t)
  BY <1>1 DEF Box, Control, Busy
<1>3. /\ Holding(t) /\ Alone(t) /\ req[t].browser \in Browsers /\ None \notin Sessions
      /\ Stale \notin Sessions /\ Stale # None /\ s \in Sessions
      /\ session \in [Sessions -> SessionType]
  BY <1>2, BoxProp DEF Box, Typed
<1>4. /\ session'[s] = NoSession /\ \A x \in Sessions \ {s} : session'[x] = session[x]
  BY <1>1, <1>3
<1>5. \A x \in Sessions \ {s} : Valid(x)' <=> Valid(x)
  BY <1>4 DEF Valid
<1>6. ~Valid(s)'
  BY <1>1, <1>4 DEF Valid, NoSession
<1>7. \A b \in Browsers : Known(b)' /\ cookie'[b] # s
  BY <1>1, <1>3, <1>5, RenamedKnown
<1>8. \A b \in Browsers : cookie'[b] = IF cookie[b] = s THEN Stale ELSE cookie[b]
  BY <1>1 DEF Cookies, Renamed
<1>9. ASSUME NEW r \in Threads \ {t}
      PROVE  /\ Holding(r)' /\ req'[r].answer = req[r].answer
             /\ \A b \in Browsers : req[r].bound # None /\ cookie'[b] = req[r].bound
                                       => req[r].browser = b
             /\ UNCHANGED <<req[r].at, req[r].browser, req[r].bound>>
             /\ req[r].bound # s
  <2>1. Renaming(s, r) /\ req[r].bound # s
    BY <1>1, <1>2, <1>3 DEF Alone
  <2>2. QED
    BY <1>1, <1>3, <1>5, <2>1, RenamingBox DEF Renaming
<1>10. Holding(t)'
  <2>1. cookie'[req[t].browser] \in {Stale, None}
    BY <1>2, <1>3, <1>8 DEF Holding
  <2>2. req'[t].asked = None /\ req'[t].answer \in {Stale, None}
    BY <1>1, <1>2, <1>3 DEF Holding, Renamed
  <2>3. QED
    BY <1>1, <1>2, <1>3, <1>6, <2>1, <2>2 DEF Holding
<1>11. Busy(t)' <=> Busy(t)
  BY <1>1, <1>2 DEF Busy
<1>12. Alone(t)'
  <2>1. ASSUME NEW r \in Threads \ {t}
        PROVE  /\ Busy(t)' /\ Busy(r)' => req'[r].browser # req'[t].browser
               /\ req'[t].bound # None => req'[r].bound # req'[t].bound
    BY <1>1, <1>3, <1>9, <1>11 DEF Alone, Busy
  <2>2. \A b \in Browsers : cookie'[b] # req'[t].bound
    BY <1>1, <1>7
  <2>3. QED
    BY <2>1, <2>2 DEF Alone
<1>13. ASSUME NEW r \in Threads \ {t} PROVE Alone(r)'
  <2>1. Alone(r)
    BY DEF Box
  <2>2. ASSUME NEW q \in Threads \ {r}
        PROVE  /\ Busy(r)' /\ Busy(q)' => req'[q].browser # req'[r].browser
               /\ req'[r].bound # None => req'[q].bound # req'[r].bound
    <3>1. CASE q = t
      BY <1>1, <1>9, <1>11, <2>1, <3>1 DEF Alone, Busy
    <3>2. CASE q # t
      BY <1>9, <2>1, <3>2 DEF Alone, Busy
    <3>3. QED
      BY <3>1, <3>2
  <2>3. QED
    BY <1>9, <2>2 DEF Alone
<1>14. ASSUME NEW x \in Sessions, Reachable(x) PROVE Reachable(x)'
  <2>1. CASE x = s
    BY <1>6, <1>1, <2>1 DEF Reachable, Valid
  <2>2. CASE x # s /\ \E b \in Browsers : cookie[b] = x
    BY <1>8, <2>2 DEF Reachable
  <2>3. CASE x # s /\ \E r \in Threads : req[r].answer = x
    <3>1. PICK r \in Threads : req[r].answer = x
      BY <2>3
    <3>2. r # t
      BY <2>3, <3>1, BoxProp
    <3>3. QED
      BY <1>9, <3>1, <3>2 DEF Reachable
  <2>4. QED
    <3>1. x # s => (Valid(x)' <=> Valid(x))
      BY <1>5
    <3>2. QED
      BY <1>14, <2>1, <2>2, <2>3, <3>1 DEF Reachable, Valid
<1>15. QED
  BY <1>7, <1>9, <1>10, <1>12, <1>13, <1>14 DEF Boxed

(* A session that nobody has expires. *)
LEMMA ExpireBox ==
    ASSUME Box, NEW s \in Sessions, Expire(s)
    PROVE  /\ Boxed'
           /\ \A x \in Sessions : Reachable(x) => Reachable(x)'
<1>1. /\ \A r \in Threads : Renaming(s, r) /\ Same(r) /\ req[r].bound # s
      /\ cookie' = Cookies(s) /\ session'[s] = NoSession
      /\ \A x \in Sessions \ {s} : session'[x] = session[x]
  BY ExpireProp DEF Box
<1>2. \A x \in Sessions \ {s} : Valid(x)' <=> Valid(x)
  BY <1>1 DEF Valid
<1>3. \A b \in Browsers : Known(b)'
  BY <1>1, <1>2, RenamedKnown
<1>4. ASSUME NEW r \in Threads
      PROVE  /\ Holding(r)' /\ req'[r].answer = req[r].answer
             /\ \A b \in Browsers : cookie'[b] = IF cookie[b] = s THEN Stale ELSE cookie[b]
             /\ \A b \in Browsers : req[r].bound # None /\ cookie'[b] = req[r].bound
                                       => req[r].browser = b
  BY <1>1, <1>2, RenamingBox
<1>5. ASSUME NEW r \in Threads PROVE Alone(r)'
  BY <1>1, <1>4 DEF Box, Alone, Same, Busy
<1>6. ASSUME NEW x \in Sessions, Reachable(x) PROVE Reachable(x)'
  <2>1. CASE x = s
    BY <1>1, <2>1 DEF Reachable, Valid, NoSession
  <2>2. CASE x # s
    <3>1. \A b \in Browsers : cookie'[b] = IF cookie[b] = s THEN Stale ELSE cookie[b]
      BY <1>1 DEF Cookies, Renamed
    <3>2. Valid(x)' <=> Valid(x)
      BY <1>2, <2>2
    <3>3. QED
      BY <1>4, <1>6, <2>2, <3>1, <3>2 DEF Reachable
  <2>3. QED
    BY <2>1, <2>2
<1>7. QED
  BY <1>3, <1>4, <1>5, <1>6 DEF Boxed

-------------------------------------------------------------------------------
(* If requests do not overlap: the flag of a thread is of its request, and *)
(* a page has its user.                                                    *)

(* On the way getSession() finds the session that the request has.         *)
LEMMA FindsOwn ==
    ASSUME Box, NEW t \in Threads, req[t].bound # None, req[t].at # "destroy"
    PROVE  Found(t) = {req[t].bound} /\ Valid(req[t].bound) /\ req[t].bound \in Sessions
<1>1. req[t].bound \in Sessions /\ Holding(t)
  BY BoxProp DEF Box
<1>2. Valid(req[t].bound)
  BY <1>1 DEF Holding
<1>3. QED
  BY <1>1, <1>2, FoundProp

(* getSession() on the way of a request that has one changes nothing.      *)
LEMMA GetsOwn ==
    ASSUME Box, NEW t \in Threads, req[t].bound # None, req[t].at # "destroy",
           NEW at \in Ats, GetSession(t, [req[t] EXCEPT !.at = at])
    PROVE  req'[t].bound = req[t].bound /\ session' = session
<1>1. GotSession(t, at)
  BY GetSessionProp DEF Box
<1>2. QED
  BY <1>1, FindsOwn DEF GotSession

Sound(t) == Flagged(t) /\ PageUser(t)

LEMMA OwnSound ==
    ASSUME Box, NEW t \in Threads, ThreadStep(t), Sound(t)
    PROVE  Sound(t)'
<1> DEFINE r == req[t]
<1>1. /\ r \in RequestType /\ req \in [Threads -> RequestType] /\ None \notin Sessions
      /\ flag \in [Threads -> {"none", "login", "logout"}] /\ Typed /\ Control(t)
      /\ buffered' = buffered /\ session \in [Sessions -> SessionType]
  BY StepKinds, BoxProp DEF Box, Typed
<1> USE DEF Sound, Flagged, PageUser, Control, Late, Early, InBusiness, At
<1>2. CASE \E b \in Browsers, kind \in Kinds : Receive(t, b, kind)
  <2>1. PICK b \in Browsers, kind \in Kinds : Receive(t, b, kind)
    BY <1>2
  <2>2. req'[t] = [NoRequest EXCEPT !.at = "config", !.browser = b, !.kind = kind,
                                    !.asked = cookie[b]]
    BY <1>1, <2>1 DEF Receive
  <2>3. req'[t].at = "config" /\ req'[t].bound = None /\ ~req'[t].committed
    BY <2>2 DEF NoRequest
  <2>4. flag' = flag /\ req[t].at = "idle"
    BY <2>1 DEF Receive, Busy
  <2>5. QED
    BY <1>1, <2>3, <2>4
<1>3. ASSUME NEW at \in Ats, To(t, at)
      PROVE  /\ req'[t].at = at
             /\ UNCHANGED <<req[t].kind, req[t].bound, req[t].ends, req[t].committed>>
  BY <1>1, <1>3, ToProp
<1>4. ASSUME NEW at \in Ats, GetSession(t, [req[t] EXCEPT !.at = at])
      PROVE  /\ req'[t].at = at /\ req'[t].bound \in Sessions
             /\ UNCHANGED <<req[t].kind, req[t].ends, req[t].committed>>
  <2>1. GotSession(t, at) /\ Found(t) \subseteq Sessions
    BY <1>1, <1>4, GetSessionProp, FoundProp
  <2>2. QED
    BY <2>1 DEF GotSession, Unused
<1>5. ASSUME NEW at \in Ats, ChangeSessionId(t, at), r.bound # None, r.at # "destroy"
      PROVE  /\ req'[t].at = at /\ req'[t].bound = r.bound
             /\ UNCHANGED <<req[t].kind, req[t].ends, req[t].committed>>
  BY <1>1, <1>5, ChangeSessionIdProp, FindsOwn DEF ChangedId
<1>6. ASSUME Responded(t), flag'[t] = "none" PROVE Sound(t)'
  <2>1. req'[t] = NoRequest
    BY <1>1, <1>6 DEF Responded
  <2>2. QED
    BY <1>6, <2>1 DEF NoRequest
<1>7. {"setConfig", "readConfig", "checkUser", "restFilter", "respond", "chain", "login",
       "setUser", "loggedIn", "restEnd", "terminate", "invalidate", "destroy"} \subseteq Ats
  BY DEF Ats
<1>8. /\ Route(r.kind) \in {"respond", "chain", "restFilter", "checkUser"}
      /\ Route(r.kind) = "chain" => r.kind = "resource"
  BY <1>1 DEF Route, RequestType, Kinds
<1>9. After(t) = IF r.kind = "rest" THEN "restEnd" ELSE "terminate"
  BY DEF After
<1>10. CASE IfInitConfig(t)
  BY <1>1, <1>3, <1>7, <1>8, <1>10 DEF IfInitConfig
<1>11. CASE SetInitConfig(t)
  BY <1>1, <1>3, <1>7, <1>11 DEF SetInitConfig
<1>12. CASE ReadConfig(t)
  BY <1>1, <1>4, <1>7, <1>8, <1>12 DEF ReadConfig
<1>13. CASE CheckUser(t)
  <2>1. PICK allow \in BOOLEAN :
          GetSession(t, [req[t] EXCEPT !.at = IF IsExternalAuth(t) \/ (UserOf(t) # {} /\ allow)
                                              THEN "chain" ELSE "terminate"])
    BY <1>13 DEF CheckUser, IsAccessAllow
  <2>2. flag' = flag /\ r.at = "checkUser"
    BY <1>13 DEF CheckUser
  <2>3. CASE IsExternalAuth(t) \/ (UserOf(t) # {} /\ allow)
    <3>1. GetSession(t, [req[t] EXCEPT !.at = "chain"])
      BY <2>1, <2>3
    <3>2. Flagged(t)'
      BY <1>1, <1>4, <1>7, <2>2, <3>1
    <3>3. PageUser(t)'
      <4>1. SUFFICES ASSUME r.kind = "page" PROVE session'[req'[t].bound].user # NoUser
        BY <1>4, <1>7, <3>1
      <4>2. PICK s \in Found(t) : session[s].user # NoUser
        BY <2>3, <4>1 DEF IsExternalAuth, UserOf
      <4>3. \A x \in Found(t) : x = s
        BY FoundProp
      <4>4. GotSession(t, "chain")
        BY <1>1, <1>7, <3>1, GetSessionProp
      <4>5. QED
        BY <4>2, <4>3, <4>4 DEF GotSession
    <3>4. QED
      BY <3>2, <3>3
  <2>4. CASE ~(IsExternalAuth(t) \/ (UserOf(t) # {} /\ allow))
    <3>1. GetSession(t, [req[t] EXCEPT !.at = "terminate"])
      BY <2>1, <2>4
    <3>2. QED
      BY <1>1, <1>4, <1>7, <2>2, <3>1
  <2>5. QED
    BY <2>3, <2>4
<1>14. CASE RestFilter(t)
  <2>1. \/ GetSession(t, [req[t] EXCEPT !.at = "chain"])
        \/ GetSession(t, [req[t] EXCEPT !.at = "restEnd"])
    BY <1>14 DEF RestFilter
  <2>2. flag' = flag /\ r.at = "restFilter"
    BY <1>14 DEF RestFilter
  <2>3. QED
    BY <1>1, <1>4, <1>7, <2>1, <2>2
<1>15. CASE RestEnd(t)
  <2>1. /\ req'[t] = [req[t] EXCEPT !.at = "terminate", !.ends = TRUE]
        /\ flag'[t] = "logout" /\ r.at = "restEnd"
    BY <1>1, <1>15 DEF RestEnd
  <2>2. /\ req'[t].at = "terminate" /\ req'[t].ends
        /\ UNCHANGED <<req[t].kind, req[t].bound, req[t].committed>>
    BY <1>1, <2>1 DEF RequestType
  <2>3. QED
    BY <1>1, <2>1, <2>2
<1>16. CASE Commit(t)
  <2>1. /\ req'[t] = [req[t] EXCEPT !.committed = TRUE, !.answer = None]
        /\ r.at = "chain" /\ UNCHANGED <<session, flag>> /\ ~buffered
    BY <1>1, <1>16 DEF Commit
  <2>2. UNCHANGED <<req[t].at, req[t].kind, req[t].bound, req[t].ends>>
    BY <1>1, <2>1 DEF RequestType
  <2>3. QED
    BY <1>1, <2>1, <2>2
<1>17. CASE BusinessEnds(t)
  BY <1>1, <1>3, <1>7, <1>9, <1>17 DEF BusinessEnds
<1>18. CASE Login(t)
  BY <1>1, <1>3, <1>7, <1>18 DEF Login, Business
<1>19. CASE LoginGetUser(t)
  <2>1. /\ GetSession(t, [req[t] EXCEPT !.at = "setUser"]) /\ flag' = flag /\ r.at = "login"
    BY <1>19 DEF LoginGetUser
  <2>2. req'[t].bound = r.bound /\ session' = session
    BY <1>1, <1>7, <2>1, GetsOwn
  <2>3. QED
    BY <1>1, <1>4, <1>7, <2>1, <2>2
<1>20. CASE LoginSetUser(t)
  <2>1. PICK u \in Users :
          session' = [session EXCEPT ![r.bound].user = IF Valid(r.bound) THEN u ELSE @]
    BY <1>20 DEF LoginSetUser
  <2>2. To(t, "loggedIn") /\ flag' = flag /\ r.at = "setUser"
    BY <1>20 DEF LoginSetUser
  <2>3. r.bound \in Sessions /\ Valid(r.bound)
    BY <1>1, <2>2, FindsOwn
  <2>4. session'[r.bound].user = u
    BY <1>1, <2>1, <2>3 DEF SessionType
  <2>5. u # NoUser
    BY RequestAssumption
  <2>6. QED
    BY <1>1, <1>3, <1>7, <2>2, <2>4, <2>5
<1>21. CASE LoginFails(t)
  BY <1>1, <1>3, <1>7, <1>9, <1>21 DEF LoginFails
<1>22. CASE LoginSetFlag(t)
  <2>1. r.at = "loggedIn" /\ session' = session /\ flag'[t] = "login"
    BY <1>1, <1>22 DEF LoginSetFlag
  <2>2. Found(t) = {r.bound}
    BY <1>1, <2>1, FindsOwn
  <2>3. ChangeSessionId(t, "chain")
    BY <1>22, <2>2 DEF LoginSetFlag
  <2>4. QED
    BY <1>1, <1>5, <1>7, <2>1, <2>3
<1>23. CASE Logout(t)
  <2>1. /\ req'[t] = [req[t] EXCEPT !.ends = TRUE]
        /\ r.at = "chain" /\ r.kind # "resource" /\ session' = session /\ flag'[t] = "logout"
    BY <1>1, <1>23 DEF Logout, Business
  <2>2. req'[t].ends /\ UNCHANGED <<req[t].at, req[t].kind, req[t].bound, req[t].committed>>
    BY <1>1, <2>1 DEF RequestType
  <2>3. QED
    BY <1>1, <2>1, <2>2
<1>24. CASE Respond(t)
  BY <1>6, <1>24 DEF Respond
<1>25. CASE Destroy(t)
  BY <1>1, <1>6, <1>25 DEF Destroy
<1>26. CASE Terminate(t)
  <2>1. r.at = "terminate" /\ flag' = flag
    BY <1>26 DEF Terminate
  <2>2. CASE flag[t] = "none" /\ To(t, "destroy")
    BY <1>1, <1>3, <1>7, <2>1, <2>2
  <2>3. CASE flag[t] = "login" /\ ChangeSessionId(t, "destroy")
    BY <1>1, <1>5, <1>7, <2>1, <2>3
  <2>4. flag[t] # "none" => Found(t) # {}
    BY <2>1, FindsOwn
  <2>5. CASE flag[t] = "logout" /\ GetSession(t, [req[t] EXCEPT !.at = "invalidate"])
    BY <1>1, <1>4, <1>7, <2>1, <2>5
  <2>6. QED
    BY <1>26, <2>2, <2>3, <2>4, <2>5 DEF Terminate, MustThrow
<1>27. CASE Invalidate(t)
  <2>1. r.at = "invalidate" /\ flag' = flag
    BY <1>27 DEF Invalidate
  <2>2. Valid(r.bound)
    BY <1>1, <2>1, FindsOwn
  <2>3. req' = [Requests(r.bound) EXCEPT ![t].at = "destroy"]
    BY <1>27, <2>2 DEF Invalidate
  <2> DEFINE R == Requests(r.bound)
  <2>4. R[t] \in RequestType /\ R \in [Threads -> RequestType]
    BY <1>1, RequestsProp
  <2>5. req'[t] = [R[t] EXCEPT !.at = "destroy"]
    BY <2>3, <2>4
  <2>6. /\ req'[t].at = "destroy" /\ req'[t].bound = R[t].bound /\ req'[t].ends = R[t].ends
        /\ req'[t].committed = R[t].committed
    BY <2>4, <2>5 DEF RequestType
  <2>7. req'[t].at = "destroy" /\ UNCHANGED <<req[t].bound, req[t].ends, req[t].committed>>
    BY <1>1, <2>6, RequestsProp
  <2>8. QED
    BY <1>1, <2>1, <2>7
<1>28. QED
  BY <1>2, <1>10, <1>11, <1>12, <1>13, <1>14, <1>15, <1>16, <1>17, <1>18, <1>19, <1>20,
     <1>21, <1>22, <1>23, <1>24, <1>25, <1>26, <1>27 DEF ThreadStep

(* The user of a session stays while another request takes a step.         *)
LEMMA OtherSound ==
    ASSUME Box, NEW t \in Threads, ThreadStep(t), NEW r \in Threads \ {t}, Sound(r)
    PROVE  Sound(r)'
<1>1. Same(r) /\ buffered' = buffered
  BY FrameProp, StepKinds DEF Box
<1>2. Flagged(r)'
  BY <1>1 DEF Sound, Flagged, Same
<1>3. ASSUME req[r].kind = "page", req[r].at \in {"chain"} \cup InBusiness
      PROVE  session'[req[r].bound].user = session[req[r].bound].user
  <2> DEFINE s == req[r].bound
  <2>1. s # None /\ s \in Sessions /\ Alone(r) /\ session \in [Sessions -> SessionType]
    BY <1>3, BoxProp DEF Box, Typed, Control, InBusiness, Late
  <2>2. req[t].bound # s
    BY <2>1 DEF Alone
  <2>3. CASE session' = session
    BY <2>3
  <2>4. CASE Invalidated(t)
    BY <2>1, <2>2, <2>4 DEF Invalidated
  <2>5. CASE Welcomed(t)
    BY <2>1, <2>2, <2>5 DEF Welcomed
  <2>6. CASE Gets(t)
    <3>1. CASE session' # session
      <4>1. PICK x \in Unused : session' = [session EXCEPT ![x].valid = TRUE]
        BY <2>6, <3>1 DEF Gets, GotSession
      <4>2. x # s
        BY <4>1 DEF Unused
      <4>3. QED
        BY <2>1, <4>1, <4>2
    <3>2. QED
      BY <3>1
  <2>7. QED
    BY <2>3, <2>4, <2>5, <2>6, StepKinds
       DEF Box, Moves, Received, Left, Quiet, Changes, Committed
<1>4. QED
  BY <1>1, <1>2, <1>3 DEF Sound, PageUser, Same

LEMMA ExpireSound ==
    ASSUME Box, NEW s \in Sessions, Expire(s), NEW r \in Threads, Sound(r)
    PROVE  Sound(r)'
<1>1. /\ Same(r) /\ req[r].bound # s /\ buffered' = buffered
      /\ \A x \in Sessions \ {s} : session'[x] = session[x]
  BY ExpireProp DEF Box
<1>2. req[r].kind = "page" /\ req[r].at \in {"chain"} \cup InBusiness => req[r].bound \in Sessions
  BY BoxProp DEF Box, Control, InBusiness, Late
<1>3. QED
  BY <1>1, <1>2 DEF Sound, Flagged, PageUser, Same

-------------------------------------------------------------------------------
(* The invariant. *)

LEMMA InitRInv == Init => RInv
<1> SUFFICES ASSUME Init PROVE RInv
  OBVIOUS
<1>1. CInv
  BY InitCInv
<1>2. /\ \A t \in Threads : req[t] = NoRequest /\ flag[t] = "none"
      /\ \A b \in Browsers : cookie[b] = None
      /\ \A s \in Sessions : ~Valid(s)
  BY DEF Init, NoSession, Valid
<1>3. \A t \in Threads : Flagged(t) /\ Holding(t) /\ Alone(t) /\ PageUser(t)
  BY <1>2 DEF Flagged, Holding, Alone, PageUser, NoRequest, Busy, InBusiness
<1>4. \A b \in Browsers : Known(b)
  BY <1>2, RequestAssumption DEF Known
<1>5. \A s \in Sessions : Reachable(s)
  BY <1>2 DEF Reachable
<1>6. QED
  BY <1>1, <1>3, <1>4, <1>5 DEF CInv, RInv, Apart

LEMMA RInvBox ==
    ASSUME RInv, ~overlap
    PROVE  Box /\ CInv /\ (\A t \in Threads : Sound(t))
           /\ (buffered => \A s \in Sessions : Reachable(s))
  BY TypeParts DEF RInv, Apart, Box, CInv, Sound

LEMMA StepBoxed ==
    ASSUME RInv, ~overlap, NEW t \in Threads, ThreadStep(t)
    PROVE  Boxed' /\ (buffered => \A s \in Sessions : Reachable(s)')
<1>1. Box /\ Typed /\ Sound(t) /\ (buffered => \A s \in Sessions : Reachable(s))
  BY RInvBox DEF Box
<1>2. CASE Received(t)
  BY <1>1, <1>2, ReceivedBox
<1>3. CASE Left(t)
  <2>1. Answered(t) /\ session' = session /\ Others(t) /\ Busy(t)
    BY <1>3 DEF Left, LeavesFrom, Busy
  <2>2. QED
    BY <1>1, <1>3, <2>1, AnsweredBox
<1>4. CASE Underway(t) /\ (Quiet(t) \/ Welcomed(t))
  <2>1. /\ Others(t) /\ cookie' = cookie
        /\ UNCHANGED <<req[t].browser, req[t].asked, req[t].bound, req[t].answer>>
    BY <1>4 DEF Quiet, Welcomed
  <2>2. ASSUME NEW s \in Sessions PROVE Valid(s)' <=> Valid(s)
    <3>1. CASE Quiet(t)
      BY <3>1 DEF Quiet, Valid
    <3>2. CASE Welcomed(t)
      <4>1. session \in [Sessions -> SessionType]
        BY <1>1 DEF Typed
      <4>2. PICK u \in Users :
              session' = [session EXCEPT ![req[t].bound].user = IF Valid(req[t].bound) THEN u ELSE @]
        BY <3>2 DEF Welcomed
      <4>3. session'[s].valid = session[s].valid
        BY <4>1, <4>2 DEF SessionType
      <4>4. QED
        BY <4>3 DEF Valid
    <3>3. QED
      BY <1>4, <3>1, <3>2
  <2>3. QED
    BY <1>1, <1>4, <2>1, <2>2, QuietBox
<1>5. CASE Underway(t) /\ Gets(t)
  BY <1>1, <1>5, GetsBox
<1>6. CASE Underway(t) /\ Changes(t)
  BY <1>1, <1>6, ChangesBox DEF Sound, Flagged
<1>7. CASE Underway(t) /\ Committed(t)
  <2>1. Answered(t) /\ session' = session /\ Others(t) /\ Busy(t) /\ ~buffered
    BY <1>7 DEF Committed, Underway, Busy
  <2>2. QED
    BY <1>1, <1>7, <2>1, AnsweredBox
<1>8. CASE Invalidated(t)
  BY <1>1, <1>8, InvalidatedBox
<1>9. QED
  BY <1>1, <1>2, <1>3, <1>4, <1>5, <1>6, <1>7, <1>8, StepKinds DEF Moves

LEMMA NextRInv == RInv /\ [Next]_vars => RInv'
<1> SUFFICES ASSUME RInv, [Next]_vars PROVE RInv'
  OBVIOUS
<1>1. CInv /\ CInv' /\ Typed
  <2>1. CInv
    BY DEF RInv, CInv
  <2>2. QED
    BY <2>1, NextCInv, TypeParts DEF CInv
<1>2. SUFFICES ASSUME ~overlap' PROVE Apart'
  BY <1>1 DEF RInv, CInv
<1>3. CASE UNCHANGED vars
  <2>1. UNCHANGED <<overlap, buffered, session, cookie, req, flag, initConfig, ignoreAuthPath>>
    BY <1>3 DEF vars
  <2>2. Apart
    BY <1>2, <2>1 DEF RInv
  <2>3. QED
    BY <2>1, <2>2 DEF Apart, Flagged, Holding, Alone, PageUser, Known, Reachable, Valid, Busy
<1>4. ASSUME NEW t \in Threads, ThreadStep(t) PROVE Apart'
  <2>1. UNCHANGED <<overlap, buffered>>
    BY <1>1, <1>4, StepKinds
  <2>2. ~overlap /\ Box /\ \A r \in Threads : Sound(r)
    BY <1>2, <2>1, RInvBox
  <2>3. Boxed' /\ (buffered => \A s \in Sessions : Reachable(s)')
    BY <1>4, <2>2, StepBoxed
  <2>4. \A r \in Threads : Sound(r)'
    BY <1>4, <2>2, OwnSound, OtherSound
  <2>5. QED
    BY <2>1, <2>3, <2>4 DEF Apart, Boxed, Sound
<1>5. ASSUME NEW s \in Sessions, Expire(s) PROVE Apart'
  <2>1. UNCHANGED <<overlap, buffered>>
    BY <1>1, <1>5, ExpireProp
  <2>2. ~overlap /\ Box /\ (\A r \in Threads : Sound(r))
        /\ (buffered => \A x \in Sessions : Reachable(x))
    BY <1>2, <2>1, RInvBox
  <2>3. Boxed' /\ (buffered => \A x \in Sessions : Reachable(x)')
    BY <1>5, <2>2, ExpireBox
  <2>4. \A r \in Threads : Sound(r)'
    BY <1>5, <2>2, ExpireSound
  <2>5. QED
    BY <2>1, <2>3, <2>4 DEF Apart, Boxed, Sound
<1>6. QED
  BY <1>3, <1>4, <1>5, NextProp DEF NextSteps

LEMMA RInvAlways == Spec => []RInv
  BY InitRInv, NextRInv, PTL DEF Spec

-------------------------------------------------------------------------------
(* When requests do not overlap, a page that is not open to all works for  *)
(* a user to the end; and if responses fit into the buffer, the browser    *)
(* keeps the session that its user has logged in to.                       *)
THEOREM UsersAreKept == Spec => []UserKept
<1>1. ASSUME RInv PROVE UserKept
  <2>1. PageHasUser
    <3>1. SUFFICES ASSUME ~overlap, NEW t \in Threads, req[t].kind = "page", Business(t)
                   PROVE  req[t].bound # None /\ session[req[t].bound].user # NoUser
      BY DEF PageHasUser
    <3>2. Control(t) /\ PageUser(t)
      BY <1>1, <3>1, RInvBox DEF Box, Sound
    <3>3. QED
      BY <3>1, <3>2 DEF Business, At, Control, PageUser, Late
  <2>2. StaysLoggedInIfBuffered
    <3>1. SUFFICES ASSUME ~overlap, buffered, NEW s \in Sessions, Valid(s),
                          \A t \in Threads : req[t].bound # s
                   PROVE  \E b \in Browsers : cookie[b] = s
      BY DEF StaysLoggedInIfBuffered, StaysLoggedIn
    <3>2. Box /\ Reachable(s)
      BY <1>1, <3>1, RInvBox
    <3>3. \A t \in Threads : req[t].answer # s
      BY <3>1, <3>2, BoxProp
    <3>4. QED
      BY <3>1, <3>2, <3>3 DEF Reachable
  <2>3. QED
    BY <2>1, <2>2 DEF UserKept
<1>2. QED
  BY <1>1, RInvAlways, PTL

(* A session that a user has logged in to ends with a request of its own   *)
(* that logs out or is a REST request, if requests do not overlap; and     *)
(* overlapping or not, a REST request leaves no session behind.            *)
THEOREM SessionsEnd == Spec => SessionEnds
<1> DEFINE Keeps == ~overlap =>
              \A t \in Threads, s \in Sessions :
                  req[t].bound = s /\ session[s].user # NoUser /\ ~session'[s].valid
                  => \E r \in Threads : req[r].bound = s /\ req[r].ends
<1>1. ASSUME RInv, [Next]_vars PROVE [Keeps]_vars
  <2>1. SUFFICES ASSUME ~overlap, NextSteps, NEW t \in Threads, NEW s \in Sessions,
                        req[t].bound = s, session[s].user # NoUser, ~session'[s].valid
                 PROVE  \E r \in Threads : req[r].bound = s /\ req[r].ends
    BY <1>1, NextProp
  <2>2. Box /\ Typed /\ Ended(s) /\ \A r \in Threads : Flagged(r)
    BY <1>1, <2>1, RInvBox DEF Box, CInv, Sound
  <2>3. Valid(s)
    BY <2>1, <2>2 DEF Ended
  <2>4. session \in [Sessions -> SessionType] /\ session[s].valid
    BY <2>2, <2>3 DEF Typed, Valid
  <2>5. ASSUME NEW x \in Sessions, Expire(x) PROVE FALSE
    BY <2>1, <2>2, <2>4, <2>5, ExpireProp
  <2>6. ASSUME NEW r \in Threads, ThreadStep(r), ~Invalidated(r) PROVE FALSE
    <3>1. session' # session
      BY <2>1, <2>4
    <3>2. Gets(r) \/ Welcomed(r)
      BY <2>2, <2>6, <3>1, StepKinds DEF Moves, Received, Left, Quiet, Changes, Committed
    <3>3. CASE Gets(r)
      <4>1. PICK x \in Unused : session' = [session EXCEPT ![x].valid = TRUE]
        BY <3>1, <3>3 DEF Gets, GotSession
      <4>2. QED
        BY <2>1, <2>4, <4>1 DEF SessionType
    <3>4. CASE Welcomed(r)
      <4>1. PICK u \in Users :
              session' = [session EXCEPT ![req[r].bound].user = IF Valid(req[r].bound) THEN u ELSE @]
        BY <3>4 DEF Welcomed
      <4>2. QED
        BY <2>1, <2>4, <4>1 DEF SessionType
    <3>5. QED
      BY <3>2, <3>3, <3>4
  <2>7. PICK r \in Threads : Invalidated(r)
    BY <2>1, <2>5, <2>6 DEF NextSteps
  <2>8. req[r].bound = s
    BY <2>1, <2>4, <2>7 DEF Invalidated
  <2>9. req[r].ends
    BY <2>2, <2>7 DEF Invalidated, Flagged
  <2>10. QED
    BY <2>8, <2>9
<1>2. Spec => SessionKept
  BY <1>1, RInvAlways, PTL DEF Spec, SessionKept, Keeps
<1>3. QED
  BY <1>2, RestEndsSession DEF SessionEnds
===============================================================================
