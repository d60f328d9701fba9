------------------------------ MODULE RequestCycle ------------------------------
(***************************************************************************)
(* A request on its way through FWSessionFilter and FWRESTFilter: the HTTP *)
(* session it belongs to, the LOGIN flag that login, logout and the REST   *)
(* filter leave in the thread for the end of the request, and the settings *)
(* that the first request reads.                                           *)
(*                                                                         *)
(* The threads are pooled: a flag that stays is found by another request.  *)
(* The container (Tomcat) keeps the sessions: it creates one and changes   *)
(* its id when asked, and tells the browser so in a cookie as long as the  *)
(* response has not been committed. Of an id only matters which session it *)
(* names: that session, until its id is changed or it ends.                *)
(***************************************************************************)
EXTENDS Naturals, FiniteSets

CONSTANTS
    Threads,
    Browsers,
    Users, NoUser,
    Sessions,    \* bound: sessions at a time
    None,        \* no session, no id
    Stale        \* an id that names no session any more

ASSUME RequestAssumption ==
    /\ NoUser \notin Users
    /\ None \notin Sessions
    /\ Stale \notin Sessions /\ Stale # None

VARIABLES
    overlap,    \* browsers send requests while they wait for another response
    buffered,   \* every response fits into the buffer of the container
    session,    \* of each session: is it valid, and its user
    cookie,     \* the session whose id each browser sends
    req,        \* the request of each thread
    flag,       \* FWThreadLocal.LOGIN of each thread: TRUE is "login"
    initConfig, ignoreAuthPath   \* of FWSessionFilter; what is read: has it been?

vars == <<overlap, buffered, session, cookie, req, flag, initConfig, ignoreAuthPath>>

Kinds == {"trace", "resource", "rest", "open", "ignored", "page"}

(* asked: the id the browser has sent, until the session is looked for;    *)
(* bound: the session then; answer: the id to be told; ends: the request   *)
(* itself wants the session to end.                                        *)
NoRequest == [at |-> "idle", browser |-> None, kind |-> "trace", asked |-> None,
              bound |-> None, answer |-> None, committed |-> FALSE, ends |-> FALSE]

NoSession == [valid |-> FALSE, user |-> NoUser]

-------------------------------------------------------------------------------
(* The container. *)
Busy(t) == req[t].at # "idle"
Valid(s) == session[s].valid

Unused == {s \in Sessions : ~Valid(s) /\ \A t \in Threads : req[t].bound # s}

(* What getSession(false) finds: the session the request has had, if it is *)
(* still valid, or the one its cookie names.                               *)
Found(t) ==
    {s \in Sessions : Valid(s) /\ s = IF req[t].bound = None THEN req[t].asked ELSE req[t].bound}

(* getSession(): a new one if there is none, which it is too late for when *)
(* the response is committed. The request goes on as r.                    *)
MustThrow(t) == Found(t) = {} /\ req[t].committed

GetSession(t, r) ==
    \/ \E s \in Found(t) :
        /\ req' = [req EXCEPT ![t] = [r EXCEPT !.bound = s, !.asked = None]]
        /\ UNCHANGED session
    \/ /\ Found(t) = {} /\ ~req[t].committed
       /\ Unused # {}
       /\ LET s == CHOOSE u \in Unused : TRUE IN
          /\ req' = [req EXCEPT ![t] = [r EXCEPT !.bound = s, !.asked = None, !.answer = s]]
          /\ session' = [session EXCEPT ![s].valid = TRUE]

(* The ids of s that are on their way name nothing any more.               *)
Renamed(s, i) == IF i = s THEN Stale ELSE i
Cookies(s) == [b \in Browsers |-> Renamed(s, cookie[b])]
Requests(s) ==
    [t \in Threads |-> [req[t] EXCEPT !.asked = Renamed(s, @), !.answer = Renamed(s, @)]]

(* changeSessionId(): the request goes on at "at".                         *)
ChangeSessionId(t, at) ==
    \E s \in Found(t) :
        /\ cookie' = Cookies(s)
        /\ req' = [Requests(s) EXCEPT ![t].at = at, ![t].bound = s, ![t].asked = None,
                                      ![t].answer = IF req[t].committed THEN None ELSE s]

(* The response goes out, with the cookie.                                 *)
Answered(t) ==
    cookie' = IF req[t].answer = None THEN cookie
              ELSE [cookie EXCEPT ![req[t].browser] = req[t].answer]

Commit(t) ==
    /\ req[t].at = "chain"
    /\ ~buffered /\ ~req[t].committed
    /\ req' = [req EXCEPT ![t].committed = TRUE, ![t].answer = None]
    /\ Answered(t)
    /\ UNCHANGED <<overlap, buffered, session, flag, initConfig, ignoreAuthPath>>

(* A session that no request is using expires. *)
Expire(s) ==
    /\ Valid(s)
    /\ \A t \in Threads : req[t].bound # s
    /\ session' = [session EXCEPT ![s] = NoSession]
    /\ cookie' = Cookies(s)
    /\ req' = Requests(s)
    /\ UNCHANGED <<overlap, buffered, flag, initConfig, ignoreAuthPath>>

-------------------------------------------------------------------------------
Init ==
    /\ overlap \in BOOLEAN
    /\ buffered \in BOOLEAN
    /\ session = [s \in Sessions |-> NoSession]
    /\ cookie = [b \in Browsers |-> None]
    /\ req = [t \in Threads |-> NoRequest]
    /\ flag = [t \in Threads |-> "none"]
    /\ initConfig = FALSE
    /\ ignoreAuthPath = FALSE

Receive(t, b, kind) ==
    /\ ~Busy(t)
    /\ ~overlap => \A r \in Threads : Busy(r) => req[r].browser # b
    /\ req' = [req EXCEPT ![t] = [NoRequest EXCEPT !.at = "config", !.browser = b,
                                                   !.kind = kind, !.asked = cookie[b]]]
    /\ UNCHANGED <<overlap, buffered, session, cookie, flag, initConfig, ignoreAuthPath>>

At(t, at) == req[t].at = at
To(t, at) == req' = [req EXCEPT ![t].at = at]

(* Where each kind of request goes after the settings: TRACE is refused,   *)
(* resources and REST need no login here.                                  *)
Route(kind) ==
    CASE kind = "trace" -> "respond"
      [] kind = "resource" -> "chain"
      [] kind = "rest" -> "restFilter"
      [] OTHER -> "checkUser"

IfInitConfig(t) ==
    /\ At(t, "config")
    /\ To(t, IF initConfig THEN Route(req[t].kind) ELSE "setConfig")
    /\ UNCHANGED <<overlap, buffered, session, cookie, flag, initConfig, ignoreAuthPath>>

SetInitConfig(t) ==
    /\ At(t, "setConfig")
    /\ To(t, "readConfig")
    /\ initConfig' = TRUE
    /\ UNCHANGED <<overlap, buffered, session, cookie, flag, ignoreAuthPath>>

(* The settings depend on the locale of the session's user.                *)
ReadConfig(t) ==
    /\ At(t, "readConfig")
    /\ GetSession(t, [req[t] EXCEPT !.at = Route(req[t].kind)])
    /\ ignoreAuthPath' = TRUE
    /\ UNCHANGED <<overlap, buffered, cookie, flag, initConfig>>

-------------------------------------------------------------------------------
(* What is open to all: the login page and the like, and the paths of the  *)
(* setting fw.ignore.auth.url once it has been read.                       *)
IsExternalAuth(t) == req[t].kind = "open" \/ (req[t].kind = "ignored" /\ ignoreAuthPath)

UserOf(t) == {session[s].user : s \in Found(t)} \ {NoUser}

(* The role's patterns and the URL decide; either may happen.              *)
IsAccessAllow == BOOLEAN

(* The main way: a page for those who are logged in and have the right to  *)
(* it, or one that is open to all. The others are sent to the login page   *)
(* or get an error.                                                        *)
CheckUser(t) ==
    /\ At(t, "checkUser")
    /\ \E allow \in IsAccessAllow :
        LET goesOn == IsExternalAuth(t) \/ (UserOf(t) # {} /\ allow) IN
        GetSession(t, [req[t] EXCEPT !.at = IF goesOn THEN "chain" ELSE "terminate"])
    /\ UNCHANGED <<overlap, buffered, cookie, flag, initConfig, ignoreAuthPath>>

(* A fault: each REST request has a new session, as long as there are some. *)
RestFilterNew(t) ==
    /\ At(t, "restFilter")
    /\ LET s == CHOOSE u \in Unused : TRUE IN
       IF Unused = {} THEN GetSession(t, [req[t] EXCEPT !.at = "chain"])
       ELSE /\ req' = [req EXCEPT ![t].at = "chain", ![t].bound = s, ![t].answer = s]
            /\ session' = [session EXCEPT ![s].valid = TRUE]
    /\ UNCHANGED <<overlap, buffered, cookie, flag, initConfig, ignoreAuthPath>>

(* The token, or an API that needs none, is accepted; or it throws.        *)
Accepted == BOOLEAN

(* REST: a session that will be destroyed, then the token, or an error.    *)
RestFilter(t) ==
    /\ At(t, "restFilter")
    /\ \E ok \in Accepted :
        GetSession(t, [req[t] EXCEPT !.at = IF ok THEN "chain" ELSE "restEnd"])
    /\ UNCHANGED <<overlap, buffered, cookie, flag, initConfig, ignoreAuthPath>>

RestEnd(t) ==
    /\ At(t, "restEnd")
    /\ req' = [req EXCEPT ![t].at = "terminate", ![t].ends = TRUE]
    /\ flag' = [flag EXCEPT ![t] = "logout"]
    /\ UNCHANGED <<overlap, buffered, session, cookie, initConfig, ignoreAuthPath>>

-------------------------------------------------------------------------------
(* The application, or a REST resource. *)
Business(t) == At(t, "chain") /\ req[t].kind # "resource"

(* It returns or throws: the filters' finally blocks do the same. *)
After(t) == IF req[t].kind = "rest" THEN "restEnd" ELSE "terminate"

BusinessEnds(t) ==
    /\ At(t, "chain")
    /\ To(t, After(t))
    /\ UNCHANGED <<overlap, buffered, session, cookie, flag, initConfig, ignoreAuthPath>>

(* login(id, password) does nothing if the session has a user; login(id),  *)
(* which the activation of an account calls, does not look. An application *)
(* logs a user in before it writes its page.                               *)
Login(t) ==
    /\ Business(t)
    /\ ~req[t].committed
    /\ UserOf(t) = {} \/ req[t].kind = "rest"
    /\ To(t, "login")
    /\ UNCHANGED <<overlap, buffered, session, cookie, flag, initConfig, ignoreAuthPath>>

LoginGetUser(t) ==
    /\ At(t, "login")
    /\ GetSession(t, [req[t] EXCEPT !.at = "setUser"])
    /\ UNCHANGED <<overlap, buffered, cookie, flag, initConfig, ignoreAuthPath>>

(* A fault: the arguments of setId are mixed up. *)
LoginSetSession(t) ==
    /\ At(t, "setUser")
    /\ session' = [session EXCEPT ![req[t].bound].user = req[t].bound]
    /\ To(t, "loggedIn")
    /\ UNCHANGED <<overlap, buffered, cookie, flag, initConfig, ignoreAuthPath>>

LoginSetUser(t) ==
    /\ At(t, "setUser")
    /\ \E u \in Users :
        session' = [session EXCEPT ![req[t].bound].user = IF Valid(req[t].bound) THEN u ELSE @]
    /\ To(t, "loggedIn")
    /\ UNCHANGED <<overlap, buffered, cookie, flag, initConfig, ignoreAuthPath>>

(* The time of the login cannot be written, or its commit fails later.     *)
LoginFails(t) ==
    /\ At(t, "loggedIn")
    /\ To(t, After(t))
    /\ UNCHANGED <<overlap, buffered, session, cookie, flag, initConfig, ignoreAuthPath>>

LoginSetFlag(t) ==
    /\ At(t, "loggedIn")
    /\ flag' = [flag EXCEPT ![t] = "login"]
    /\ \/ ChangeSessionId(t, "chain")
       \/ /\ Found(t) = {}
          /\ To(t, After(t))
          /\ UNCHANGED cookie
    /\ UNCHANGED <<overlap, buffered, session, initConfig, ignoreAuthPath>>

Logout(t) ==
    /\ Business(t)
    /\ flag[t] # "logout" \/ ~req[t].ends
    /\ flag' = [flag EXCEPT ![t] = "logout"]
    /\ req' = [req EXCEPT ![t].ends = TRUE]
    /\ UNCHANGED <<overlap, buffered, session, cookie, initConfig, ignoreAuthPath>>

-------------------------------------------------------------------------------
(* The end of a request. What throws in terminate leaves the flag.         *)
Responded(t) ==
    /\ Answered(t)
    /\ req' = [req EXCEPT ![t] = NoRequest]

Respond(t) ==
    /\ At(t, "respond")
    /\ Responded(t)
    /\ UNCHANGED <<overlap, buffered, session, flag, initConfig, ignoreAuthPath>>

Terminate(t) ==
    /\ At(t, "terminate")
    /\ \/ /\ flag[t] = "none"
          /\ To(t, "destroy")
          /\ UNCHANGED <<session, cookie>>
       \/ /\ flag[t] = "login"
          /\ ChangeSessionId(t, "destroy")
          /\ UNCHANGED session
       \/ /\ flag[t] = "login"
          /\ Found(t) = {}
          /\ Responded(t)
          /\ UNCHANGED session
       \/ /\ flag[t] = "logout"
          /\ GetSession(t, [req[t] EXCEPT !.at = "invalidate"])
          /\ UNCHANGED cookie
       \/ /\ flag[t] = "logout"
          /\ MustThrow(t)
          /\ Responded(t)
          /\ UNCHANGED session
    /\ UNCHANGED <<overlap, buffered, flag, initConfig, ignoreAuthPath>>

(* invalidate() throws if another request has done so meanwhile. *)
Invalidate(t) ==
    /\ At(t, "invalidate")
    /\ LET s == req[t].bound IN
       \/ /\ Valid(s)
          /\ session' = [session EXCEPT ![s] = NoSession]
          /\ cookie' = Cookies(s)
          /\ req' = [Requests(s) EXCEPT ![t].at = "destroy"]
       \/ /\ ~Valid(s)
          /\ Responded(t)
          /\ UNCHANGED session
    /\ UNCHANGED <<overlap, buffered, flag, initConfig, ignoreAuthPath>>

(* A fault: the thread-local values are not destroyed. *)
DestroyNothing(t) ==
    /\ At(t, "destroy")
    /\ Responded(t)
    /\ UNCHANGED <<overlap, buffered, session, flag, initConfig, ignoreAuthPath>>

Destroy(t) ==
    /\ At(t, "destroy")
    /\ flag' = [flag EXCEPT ![t] = "none"]
    /\ Responded(t)
    /\ UNCHANGED <<overlap, buffered, session, initConfig, ignoreAuthPath>>

-------------------------------------------------------------------------------
Next ==
    \/ \E t \in Threads :
        \/ \E b \in Browsers, kind \in Kinds : Receive(t, b, kind)
        \/ IfInitConfig(t)
        \/ SetInitConfig(t)
        \/ ReadConfig(t)
        \/ CheckUser(t)
        \/ RestFilter(t)
        \/ RestEnd(t)
        \/ Commit(t)
        \/ BusinessEnds(t)
        \/ Login(t)
        \/ LoginGetUser(t)
        \/ LoginSetUser(t)
        \/ LoginFails(t)
        \/ LoginSetFlag(t)
        \/ Logout(t)
        \/ Respond(t)
        \/ Terminate(t)
        \/ Invalidate(t)
        \/ Destroy(t)
    \/ \E s \in Sessions : Expire(s)

Spec == Init /\ [][Next]_vars

-------------------------------------------------------------------------------
References == Sessions \cup {None, Stale}

TypeOK ==
    /\ overlap \in BOOLEAN
    /\ buffered \in BOOLEAN
    /\ session \in [Sessions -> [valid : BOOLEAN, user : Users \cup {NoUser}]]
    /\ cookie \in [Browsers -> References]
    /\ req \in [Threads ->
         [at : {"idle", "config", "setConfig", "readConfig", "checkUser", "restFilter", "chain",
                "login", "setUser", "loggedIn", "restEnd", "terminate", "invalidate",
                "destroy", "respond"},
          browser : Browsers \cup {None}, kind : Kinds, asked : References,
          bound : Sessions \cup {None}, answer : References,
          committed : BOOLEAN, ends : BOOLEAN]]
    /\ flag \in [Threads -> {"none", "login", "logout"}]
    /\ initConfig \in BOOLEAN
    /\ ignoreAuthPath \in BOOLEAN

(* A session that a user has logged in to ends with a request of its own   *)
(* that logs out or is a REST request, never with one that finds a flag    *)
(* another has left in the thread. (Overlapping requests may: terminate    *)
(* throws where another has ended the session, and the flag stays.)        *)
SessionKept ==
    [][~overlap =>
        \A t \in Threads, s \in Sessions :
            req[t].bound = s /\ session[s].user # NoUser /\ ~session'[s].valid
            => \E r \in Threads : req[r].bound = s /\ req[r].ends]_vars

(* A REST request leaves no session behind ("RESTは常にセッション破棄する",   *)
(* FWRESTFilter), whatever happens in between.                             *)
RestLeavesNone ==
    [][\A t \in Threads :
        req[t].kind = "rest" /\ Busy(t) /\ req'[t].at = "idle"
        => req[t].bound # None /\ ~session'[req[t].bound].valid]_vars

(* When sessions end: with their own requests, and with every REST call.   *)
SessionEnds == SessionKept /\ RestLeavesNone

(* A page that is not open to all works for a user of its session to the   *)
(* end, if requests do not overlap.                                        *)
PageHasUser ==
    ~overlap =>
        \A t \in Threads :
            req[t].kind = "page" /\ Business(t) =>
                req[t].bound # None /\ session[req[t].bound].user # NoUser

(* A session that a user has logged in to is the one a browser asks for,   *)
(* until it ends: "セッションとはユーザーがログインしてからログアウトするまで  *)
(* の期間のことを表す" (session.rst).                                         *)
StaysLoggedIn ==
    ~overlap =>
        \A s \in Sessions :
            Valid(s) /\ session[s].user # NoUser /\ (\A t \in Threads : req[t].bound # s)
            => \E b \in Browsers : cookie[b] = s

(* It is so if responses are not committed before the filters are through. *)
StaysLoggedInIfBuffered == buffered => StaysLoggedIn

(* A user who is logged in stays so: within a request, and between two.    *)
UserKept == PageHasUser /\ StaysLoggedInIfBuffered
===============================================================================
