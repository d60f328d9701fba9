------------------------------ MODULE PushSessions ------------------------------
(***************************************************************************)
(* The push notice service: which WebSocket sessions it knows of, and how  *)
(* the callbacks of the container, the REST resource, the pinger and its   *)
(* timers use the maps of SessionManager.                                  *)
(*                                                                         *)
(* A user connects with a token and may connect again; without             *)
(* MULTI_SESSION the earlier sessions are closed then. Notices go to all   *)
(* sessions of a user. A pinger finds the clients that have vanished. None *)
(* of the maps and lists is synchronized: each access is a step.           *)
(***************************************************************************)
EXTENDS Integers, Sequences, SequencesExt

CONSTANTS
    Users,
    Sessions,    \* bound: connections ever made
    UserOf,      \* whose token a session connects with
    NoList,      \* a list that is null
    Serialized   \* callbacks do not overlap

ASSUME PushAssumption ==
    /\ UserOf \in [Sessions -> Users]
    /\ NoList \notin Sessions
    /\ Serialized \in BOOLEAN

VARIABLES
    multi,    \* the property MULTI_SESSION
    conn,     \* of each session: "none", "open", "gone" (the client has
              \* vanished, isOpen() is still true) or "closed"
    byUser,   \* SessionManager.sessions; a list is named after the session
              \* whose add has made it
    list,     \* the items of each list and how often it has changed (modCount)
    index,    \* the keys of SessionManager.index (it maps s to UserOf[s])
    pong,     \* the last pong: "none", "old", or "new" since the last ping
    opener,   \* of each session: the thread that runs onOpen
    closer,   \* of each session: the thread that runs onClose
    timers,   \* sessions that a thread of setTimeout watches
    pinger,   \* the thread of PingSender
    notice    \* a request to PushResource

vars == <<multi, conn, byUser, list, index, pong, opener, closer, timers, pinger, notice>>

-------------------------------------------------------------------------------
NewList == [items |-> <<>>, mods |-> 0]
Added(l, s) == [items |-> Append(l.items, s), mods |-> l.mods + 1]
Removed(l, s) ==
    IF s \in ToSet(l.items)
    THEN [items |-> RemoveFirst(l.items, s), mods |-> l.mods + 1]
    ELSE l

(* An iterator: its list, where it is, and what the list must still be:    *)
(* next() throws a ConcurrentModificationException otherwise.              *)
Iterator(l) == [list |-> l, cursor |-> 0, was |-> list[l]]
NoIterator == [list |-> NoList, cursor |-> 0, was |-> NewList]

HasNext(it) == it.cursor # Len(list[it.list].items)
Changed(it) == list[it.list] # it.was
Element(it) == it.was.items[it.cursor + 1]
Advance(it) == [it EXCEPT !.cursor = @ + 1]

IsOpen(s) == conn[s] \in {"open", "gone"}

(* The next one can be had and written to (getAsyncRemote throws else).     *)
Usable(it) == ~Changed(it) /\ IsOpen(Element(it))

(* session.close(): the container calls onClose, see OnClose. *)
Closed(s) == [conn EXCEPT ![s] = IF IsOpen(s) THEN "closed" ELSE @]

-------------------------------------------------------------------------------
(* Who may run. *)
Opening(s) == opener[s].at \notin {"none", "done"}
Closing(s) == closer[s].at \notin {"none", "done"}
AwaitsOnClose(s) == conn[s] = "closed" /\ closer[s].at = "none"

Quiet ==
    /\ \A s \in Sessions : ~Opening(s) /\ ~Closing(s) /\ ~AwaitsOnClose(s)
    /\ pinger.at \in {"sleep", "dead"}
    /\ notice.at # "next"

MayStart == Serialized => Quiet

(* The container calls onClose from within close(), whoever calls that:    *)
(* serialized, this thread goes on when onClose has ended.                 *)
MayGoOn == Serialized => \A s \in Sessions : ~Closing(s) /\ ~AwaitsOnClose(s)
MayClose(s) == Serialized => \A t \in Sessions : ~Closing(t)

-------------------------------------------------------------------------------
Idle == [at |-> "none", it |-> NoIterator]
NoNotice(at) == [at |-> at, it |-> NoIterator, sent |-> {}]

Init ==
    /\ multi \in BOOLEAN
    /\ conn = [s \in Sessions |-> "none"]
    /\ byUser = [u \in Users |-> NoList]
    /\ list = [s \in Sessions |-> NewList]
    /\ index = {}
    /\ pong = [s \in Sessions |-> "none"]
    /\ opener = [s \in Sessions |-> Idle]
    /\ closer = [s \in Sessions |-> Idle]
    /\ timers = {}
    /\ pinger = [at |-> "sleep", it |-> NoIterator, users |-> {}]
    /\ notice = NoNotice("none")

(* onOpen: the token is asked of the database; without a user, close.      *)
OnOpen(s) ==
    /\ conn[s] = "none"
    /\ MayStart
    /\ \/ /\ conn' = [conn EXCEPT ![s] = "open"]
          /\ opener' = [opener EXCEPT ![s].at = IF multi THEN "get" ELSE "evict"]
       \/ /\ conn' = [conn EXCEPT ![s] = "closed"]
          /\ opener' = [opener EXCEPT ![s].at = "done"]
    /\ UNCHANGED <<multi, byUser, list, index, pong, closer, timers, pinger, notice>>

Opener(s, at) == opener[s].at = at /\ MayGoOn
OpenerTo(s, at) == opener' = [opener EXCEPT ![s].at = at]

(* An exception out of onOpen: the container closes the session.           *)
OpenFails(s) ==
    /\ OpenerTo(s, "done")
    /\ conn' = Closed(s)
    /\ UNCHANGED <<byUser, list, index>>

(* remove(userId): all sessions the user has are told, taken off the index *)
(* and closed.                                                             *)
Evict(s) ==
    /\ Opener(s, "evict")
    /\ LET l == byUser[UserOf[s]] IN
       opener' = [opener EXCEPT ![s] =
                    IF l = NoList THEN [Idle EXCEPT !.at = "get"]
                    ELSE [at |-> "evictNext", it |-> Iterator(l)]]
    /\ UNCHANGED <<multi, conn, byUser, list, index, pong, closer, timers, pinger, notice>>

EvictNext(s) ==
    /\ Opener(s, "evictNext")
    /\ LET it == opener[s].it IN
       \/ /\ HasNext(it)
          /\ ~Usable(it)
          /\ OpenFails(s)
       \/ /\ HasNext(it)
          /\ Usable(it)
          /\ index' = index \ {Element(it)}
          /\ OpenerTo(s, "evictClose")
          /\ UNCHANGED <<conn, byUser, list>>
       \/ /\ ~HasNext(it)
          /\ OpenerTo(s, "evictLast")
          /\ UNCHANGED <<conn, byUser, list, index>>
    /\ UNCHANGED <<multi, pong, closer, timers, pinger, notice>>

(* A fault the runs must find: the session is told and forgotten, but not  *)
(* closed.                                                                 *)
EvictUnclosed(s) ==
    /\ Opener(s, "evictClose")
    /\ opener' = [opener EXCEPT ![s].at = "evictNext", ![s].it = Advance(@)]
    /\ UNCHANGED <<multi, conn, byUser, list, index, pong, closer, timers, pinger, notice>>

(* An IOException of close() ends the loop.                                *)
EvictClose(s) ==
    /\ Opener(s, "evictClose")
    /\ LET it == opener[s].it
           e == Element(it)
       IN
       /\ conn' = Closed(e)
       /\ \/ opener' = [opener EXCEPT ![s] = [at |-> "evictNext", it |-> Advance(it)]]
          \/ conn[e] = "gone" /\ OpenerTo(s, "evictLast")
    /\ UNCHANGED <<multi, byUser, list, index, pong, closer, timers, pinger, notice>>

EvictLast(s) ==
    /\ Opener(s, "evictLast")
    /\ byUser' = [byUser EXCEPT ![UserOf[s]] = NoList]
    /\ opener' = [opener EXCEPT ![s] = [Idle EXCEPT !.at = "get"]]
    /\ UNCHANGED <<multi, conn, list, index, pong, closer, timers, pinger, notice>>

(* add: the user's list, a new one if there is none, and the index. *)
AddGet(s) ==
    /\ Opener(s, "get")
    /\ OpenerTo(s, IF byUser[UserOf[s]] = NoList THEN "put" ELSE "add")
    /\ UNCHANGED <<multi, conn, byUser, list, index, pong, closer, timers, pinger, notice>>

AddPut(s) ==
    /\ Opener(s, "put")
    /\ byUser' = [byUser EXCEPT ![UserOf[s]] = s]
    /\ OpenerTo(s, "add")
    /\ UNCHANGED <<multi, conn, list, index, pong, closer, timers, pinger, notice>>

AddSession(s) ==
    /\ Opener(s, "add")
    /\ LET l == byUser[UserOf[s]] IN
       \/ l = NoList /\ OpenFails(s)
       \/ /\ l # NoList
          /\ list' = [list EXCEPT ![l] = Added(@, s)]
          /\ OpenerTo(s, "index")
          /\ UNCHANGED <<conn, byUser, index>>
    /\ UNCHANGED <<multi, pong, closer, timers, pinger, notice>>

(* A fault: key and value are swapped. *)
AddIndexSwapped(s) ==
    /\ Opener(s, "index")
    /\ index' = index \cup {UserOf[s]}
    /\ OpenerTo(s, "done")
    /\ UNCHANGED <<multi, conn, byUser, list, pong, closer, timers, pinger, notice>>

AddIndex(s) ==
    /\ Opener(s, "index")
    /\ index' = index \cup {s}
    /\ OpenerTo(s, "done")
    /\ UNCHANGED <<multi, conn, byUser, list, pong, closer, timers, pinger, notice>>

-------------------------------------------------------------------------------
(* The client. It closes the connection, or vanishes, when onOpen is over: *)
(* the container reads nothing of it before.                               *)
ClientCloses(s) ==
    /\ conn[s] = "open" /\ opener[s].at = "done"
    /\ MayStart
    /\ conn' = [conn EXCEPT ![s] = "closed"]
    /\ UNCHANGED <<multi, byUser, list, index, pong, opener, closer, timers, pinger, notice>>

ClientVanishes(s) ==
    /\ conn[s] = "open" /\ opener[s].at = "done"
    /\ conn' = [conn EXCEPT ![s] = "gone"]
    /\ UNCHANGED <<multi, byUser, list, index, pong, opener, closer, timers, pinger, notice>>

PongMessage(s) ==
    /\ conn[s] = "open" /\ s \in timers
    /\ pong' = [pong EXCEPT ![s] = "new"]
    /\ UNCHANGED <<multi, conn, byUser, list, index, opener, closer, timers, pinger, notice>>

-------------------------------------------------------------------------------
(* onClose: remove(session). Its own close() does nothing any more.        *)
OnClose(s) ==
    /\ AwaitsOnClose(s)
    /\ MayClose(s)
    /\ pong' = [pong EXCEPT ![s] = "none"]
    /\ closer' = [closer EXCEPT ![s].at = IF s \in index THEN "get" ELSE "done"]
    /\ UNCHANGED <<multi, conn, byUser, list, index, opener, timers, pinger, notice>>

Closer(s, at) == closer[s].at = at
CloserTo(s, at) == closer' = [closer EXCEPT ![s].at = at]

(* Without a list, an exception: the session stays on the index.           *)
RemoveGet(s) ==
    /\ Closer(s, "get")
    /\ LET l == byUser[UserOf[s]] IN
       closer' = [closer EXCEPT ![s] =
                    IF l = NoList THEN [Idle EXCEPT !.at = "done"]
                    ELSE [at |-> "remove", it |-> Iterator(l)]]
    /\ UNCHANGED <<multi, conn, byUser, list, index, pong, opener, timers, pinger, notice>>

RemoveSession(s) ==
    /\ Closer(s, "remove")
    /\ list' = [list EXCEPT ![closer[s].it.list] = Removed(@, s)]
    /\ CloserTo(s, "ifEmpty")
    /\ UNCHANGED <<multi, conn, byUser, index, pong, opener, timers, pinger, notice>>

(* A fault: a user's empty list is kept. *)
RemoveNever(s) ==
    /\ Closer(s, "ifEmpty")
    /\ CloserTo(s, "unindex")
    /\ UNCHANGED <<multi, conn, byUser, list, index, pong, opener, timers, pinger, notice>>

RemoveIfEmpty(s) ==
    /\ Closer(s, "ifEmpty")
    /\ CloserTo(s, IF list[closer[s].it.list].items = <<>> THEN "removeUser" ELSE "unindex")
    /\ UNCHANGED <<multi, conn, byUser, list, index, pong, opener, timers, pinger, notice>>

RemoveUser(s) ==
    /\ Closer(s, "removeUser")
    /\ byUser' = [byUser EXCEPT ![UserOf[s]] = NoList]
    /\ CloserTo(s, "unindex")
    /\ UNCHANGED <<multi, conn, list, index, pong, opener, timers, pinger, notice>>

RemoveIndex(s) ==
    /\ Closer(s, "unindex")
    /\ index' = index \ {s}
    /\ closer' = [closer EXCEPT ![s] = [Idle EXCEPT !.at = "done"]]
    /\ UNCHANGED <<multi, conn, byUser, list, pong, opener, timers, pinger, notice>>

-------------------------------------------------------------------------------
(* The pinger. A round begins when the timers of the last have rung: the   *)
(* interval (PING_INTERVAL_SEC) is taken to be longer than theirs.         *)
LoggedIn == {u \in Users : byUser[u] # NoList}

GetLoginUsers ==
    /\ pinger.at = "sleep"
    /\ timers = {}
    /\ MayStart
    /\ pinger' = [pinger EXCEPT !.at = "user", !.users = LoggedIn]
    /\ UNCHANGED <<multi, conn, byUser, list, index, pong, opener, closer, timers, notice>>

(* Another thread adds or removes a user meanwhile: an exception that      *)
(* nobody catches, and no further round.                                   *)
GetLoginUsersFails ==
    /\ pinger.at = "sleep"
    /\ timers = {}
    /\ ~Serialized
    /\ LoggedIn # {}
    /\ \E s \in Sessions :
        IF UserOf[s] \in LoggedIn
        THEN opener[s].at = "evictLast" \/ closer[s].at = "removeUser"
        ELSE opener[s].at = "put"
    /\ pinger' = [pinger EXCEPT !.at = "dead"]
    /\ UNCHANGED <<multi, conn, byUser, list, index, pong, opener, closer, timers, notice>>

(* The next user; the list may be null by now.                             *)
PingUser ==
    /\ pinger.at = "user"
    /\ \/ \E u \in pinger.users :
            IF byUser[u] = NoList
            THEN pinger' = [pinger EXCEPT !.at = "dead"]
            ELSE pinger' = [at |-> "next", it |-> Iterator(byUser[u]), users |-> pinger.users \ {u}]
       \/ /\ pinger.users = {}
          /\ pinger' = [pinger EXCEPT !.at = "sleep", !.it = NoIterator]
    /\ UNCHANGED <<multi, conn, byUser, list, index, pong, opener, closer, timers, notice>>

(* A ping, and a thread that looks for the pong later. What the ping       *)
(* throws is caught, what the iterator throws is not.                      *)
PingNext ==
    /\ pinger.at = "next"
    /\ LET it == pinger.it IN
       \/ /\ HasNext(it) /\ Changed(it)
          /\ pinger' = [pinger EXCEPT !.at = "dead"]
          /\ UNCHANGED <<pong, timers>>
       \/ /\ HasNext(it) /\ ~Changed(it)
          /\ pinger' = [pinger EXCEPT !.it = Advance(it)]
          /\ LET e == Element(it) IN
             IF IsOpen(e)
             THEN /\ timers' = timers \cup {e}
                  /\ pong' = [pong EXCEPT ![e] = IF @ = "new" THEN "old" ELSE @]
             ELSE UNCHANGED <<pong, timers>>
       \/ /\ ~HasNext(it)
          /\ pinger' = [pinger EXCEPT !.at = "user"]
          /\ UNCHANGED <<pong, timers>>
    /\ UNCHANGED <<multi, conn, byUser, list, index, opener, closer, notice>>

(* A fault: a client that has never answered is not noticed. *)
PongTimeoutOld(s) ==
    /\ s \in timers
    /\ MayStart
    /\ timers' = timers \ {s}
    /\ conn' = IF pong[s] = "old" THEN Closed(s) ELSE conn
    /\ UNCHANGED <<multi, byUser, list, index, pong, opener, closer, pinger, notice>>

(* Ten seconds after the ping: no pong since, close. *)
PongTimeout(s) ==
    /\ s \in timers
    /\ MayStart
    /\ timers' = timers \ {s}
    /\ conn' = IF pong[s] = "new" THEN conn ELSE Closed(s)
    /\ UNCHANGED <<multi, byUser, list, index, pong, opener, closer, pinger, notice>>

-------------------------------------------------------------------------------
(* POST /notice with the right access key: to all sessions of a user, or   *)
(* an error. A user who is not logged in has no list: an error, too.       *)
Notice ==
    /\ notice.at # "next"
    /\ MayStart
    /\ \E u \in Users :
        notice' = IF byUser[u] = NoList
                  THEN NoNotice("error")
                  ELSE [NoNotice("next") EXCEPT !.it = Iterator(byUser[u])]
    /\ UNCHANGED <<multi, conn, byUser, list, index, pong, opener, closer, timers, pinger>>

(* A fault: only the first session gets it. *)
NoticeFirst ==
    /\ notice.at = "next"
    /\ LET it == notice.it IN
       notice' = IF it.cursor = 0 /\ Usable(it)
                 THEN [notice EXCEPT !.it = Advance(it), !.sent = {Element(it)}]
                 ELSE NoNotice(IF it.cursor = 0 THEN "error" ELSE "ok")
    /\ UNCHANGED <<multi, conn, byUser, list, index, pong, opener, closer, timers, pinger>>

NoticeNext ==
    /\ notice.at = "next"
    /\ LET it == notice.it IN
       \/ /\ HasNext(it)
          /\ ~Usable(it)
          /\ notice' = NoNotice("error")
       \/ /\ HasNext(it)
          /\ Usable(it)
          /\ notice' = [notice EXCEPT !.it = Advance(it), !.sent = @ \cup {Element(it)}]
       \/ /\ ~HasNext(it)
          /\ notice' = NoNotice("ok")
    /\ UNCHANGED <<multi, conn, byUser, list, index, pong, opener, closer, timers, pinger>>

-------------------------------------------------------------------------------
OpenStep(s) ==
    \/ Evict(s)
    \/ EvictNext(s)
    \/ EvictClose(s)
    \/ EvictLast(s)
    \/ AddGet(s)
    \/ AddPut(s)
    \/ AddSession(s)
    \/ AddIndex(s)

CloseStep(s) ==
    \/ OnClose(s)
    \/ RemoveGet(s)
    \/ RemoveSession(s)
    \/ RemoveIfEmpty(s)
    \/ RemoveUser(s)
    \/ RemoveIndex(s)

PingStep ==
    \/ PingUser
    \/ PingNext

Next ==
    \/ \E s \in Sessions :
        \/ OnOpen(s)
        \/ OpenStep(s)
        \/ CloseStep(s)
        \/ ClientCloses(s)
        \/ ClientVanishes(s)
        \/ PongMessage(s)
        \/ PongTimeout(s)
    \/ GetLoginUsers
    \/ GetLoginUsersFails
    \/ PingStep
    \/ Notice
    \/ NoticeNext

Spec == Init /\ [][Next]_vars

(* Threads go on and timers ring. That they do so although others start    *)
(* again and again (SF) matters only where callbacks do not overlap.       *)
Fairness ==
    /\ \A s \in Sessions :
        /\ WF_vars(OpenStep(s))
        /\ WF_vars(CloseStep(s))
        /\ SF_vars(PongTimeout(s))
    /\ SF_vars(GetLoginUsers)
    /\ WF_vars(PingStep)
    /\ WF_vars(NoticeNext)

FairSpec == Spec /\ Fairness

-------------------------------------------------------------------------------
Iterators == [list : Sessions \cup {NoList}, cursor : Nat,
              was : [items : Seq(Sessions), mods : Nat]]

TypeOK ==
    /\ multi \in BOOLEAN
    /\ conn \in [Sessions -> {"none", "open", "gone", "closed"}]
    /\ byUser \in [Users -> Sessions \cup {NoList}]
    /\ list \in [Sessions -> [items : Seq(Sessions), mods : Nat]]
    /\ index \subseteq Sessions
    /\ pong \in [Sessions -> {"none", "old", "new"}]
    /\ opener \in [Sessions -> [at : {"none", "evict", "evictNext", "evictClose", "evictLast",
                                     "get", "put", "add", "index", "done"},
                                it : Iterators]]
    /\ closer \in [Sessions -> [at : {"none", "get", "remove", "ifEmpty", "removeUser",
                                     "unindex", "done"},
                                it : Iterators]]
    /\ timers \subseteq Sessions
    /\ pinger \in [at : {"sleep", "user", "next", "dead"}, it : Iterators, users : SUBSET Users]
    /\ notice \in [at : {"none", "next", "ok", "error"}, it : Iterators,
                   sent : SUBSET Sessions]

SessionsOf(u) == IF byUser[u] = NoList THEN {} ELSE ToSet(list[byUser[u]].items)
Connected(u) == {s \in Sessions : UserOf[s] = u /\ IsOpen(s)}

(* Without MULTI_SESSION a user has one session.                           *)
OneSession == ~multi => \A u \in Users : \A s, t \in Connected(u) : s = t

(* Between callbacks that do not overlap the maps agree with each other    *)
(* and with the connections: each user's list holds exactly the open       *)
(* sessions, all of them on the index, and a user without any has no list; *)
(* and no user has more sessions than MULTI_SESSION allows.                *)
Registered ==
    Quiet =>
        /\ \A u \in Users : SessionsOf(u) = Connected(u)
        /\ \A u \in LoggedIn : SessionsOf(u) # {}
        /\ index = UNION {Connected(u) : u \in Users}
        /\ OneSession

(* A session that stays open is on the index, so that its onClose will     *)
(* find its user: also where callbacks overlap and some of them fail.      *)
OpenIsIndexed == Quiet => \A s \in Sessions : IsOpen(s) => s \in index

(* A notice that is not refused has been sent to each session the user     *)
(* has then.                                                               *)
NoticeReaches ==
    [][notice.at = "next" /\ notice'.at = "ok"
       => Connected(UserOf[notice.it.list]) \subseteq notice.sent]_vars

(* A session whose client has vanished is closed ("pong応答のタイムアウト処理", *)
(* PingSender), whatever happens to the others.                            *)
GoneAreClosed == \A s \in Sessions : conn[s] = "gone" ~> conn[s] = "closed"
===============================================================================
