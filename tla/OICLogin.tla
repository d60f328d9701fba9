--------------------------------- MODULE OICLogin ---------------------------------
(* The OpenID Connect relying party (src/handywedge-openidconnect/.../         *)
(* OICService.java, OICStateManager.java): the holder of the states of the     *)
(* logins under way, which every login request adds to and at times cleans up, *)
(* and the requests that bring an id_token back, which look up the state, the  *)
(* provider's public key and then log in at the Handywedge application.        *)
(*                                                                             *)
(* A state is named by the login it was made for.  The user's browser may post *)
(* the same answer of the provider more than once.  Tokens are those the       *)
(* provider issues; what differs between them is the key they are signed with. *)
EXTENDS Naturals, FiniteSets

CONSTANTS
    Logins,         \* the login requests, each of which makes a state
    Auths,          \* the requests that post an id_token
    None,           \* no key, no login
    RefreshSize,    \* state_holder_refresh_size (1000 in the properties file)
    MaxKid          \* bound on the provider's keys

ASSUME BoundsAssumption ==
    /\ RefreshSize \in Nat /\ MaxKid \in Nat \ {0}
    /\ None \notin Nat /\ None \notin Logins

VARIABLES
    holder,         \* STATE_HOLDER
    old,            \* the logins whose state is older than HOLD_TERM
    lpc,            \* where each login is
    todo, expired,  \* of each refresh: the ids to come, and those before xTime
    signer,         \* the provider's key: it signs with this one
    token,          \* the key that each login's id_token is signed with
    cachedKid, cachedPubKey,
    apc,            \* where each auth request is
    of,             \* the login whose answer it posts
    pubKey,         \* the key it has got
    answer,         \* how it ends: a token, an exception, or an empty page
    overlapped      \* a history variable: two requests were in getPublicKey at once

logins == <<holder, old, lpc, todo, expired>>
provider == <<signer, token>>
cache == <<cachedKid, cachedPubKey>>
auths == <<apc, of, pubKey, answer, overlapped>>
vars == <<logins, provider, cache, auths>>

Kids == 1..MaxKid

Init ==
    /\ holder = {} /\ old = {}
    /\ lpc = [l \in Logins |-> "new"]
    /\ todo = [l \in Logins |-> {}] /\ expired = [l \in Logins |-> {}]
    /\ signer = 1
    /\ token = [l \in Logins |-> None]
    /\ cachedKid = None /\ cachedPubKey = None
    /\ apc = [a \in Auths |-> "idle"]
    /\ of = [a \in Auths |-> None]
    /\ pubKey = [a \in Auths |-> None]
    /\ answer = [a \in Auths |-> "none"]
    /\ overlapped = FALSE

-----------------------------------------------------------------------------------
(* The login request.                                                           *)

(* createState puts the new state.                                              *)
CreateState(l) ==
    /\ lpc[l] = "new"
    /\ lpc' = [lpc EXCEPT ![l] = "put"]
    /\ holder' = holder \cup {l}
    /\ UNCHANGED <<old, todo, expired, provider, cache, auths>>

(* It then looks at the size of the holder, which others add to meanwhile, and  *)
(* starts a refresh, whose iterator runs over the ids there are by then.        *)
TooMany == RefreshSize > 0 /\ Cardinality(holder) > RefreshSize

CheckSize(l) ==
    /\ lpc[l] = "put"
    /\ IF TooMany
       THEN /\ lpc' = [lpc EXCEPT ![l] = "refresh"]
            /\ todo' = [todo EXCEPT ![l] = holder]
            /\ expired' = [expired EXCEPT ![l] = old]
       ELSE /\ lpc' = [lpc EXCEPT ![l] = "redirected"]
            /\ UNCHANGED <<todo, expired>>
    /\ UNCHANGED <<holder, old, provider, cache, auths>>

(* Fault: the states that are not old are removed.                              *)
RefreshNextReversed(l, id) ==
    /\ lpc[l] = "refresh" /\ id \in todo[l] \cap holder
    /\ todo' = [todo EXCEPT ![l] = @ \ {id}]
    /\ holder' = IF id \in expired[l] THEN holder ELSE holder \ {id}
    /\ UNCHANGED <<old, lpc, expired, provider, cache, auths>>

(* One round of refresh, for an id that is still there.                         *)
RefreshNext(l, id) ==
    /\ lpc[l] = "refresh" /\ id \in todo[l] \cap holder
    /\ todo' = [todo EXCEPT ![l] = @ \ {id}]
    /\ holder' = IF id \in expired[l] THEN holder \ {id} ELSE holder
    /\ UNCHANGED <<old, lpc, expired, provider, cache, auths>>

(* Fault: the exception is caught, and the refresh counts as done.              *)
RefreshGoneCaught(l, id) ==
    /\ lpc[l] = "refresh" /\ id \in todo[l] \ holder
    /\ todo' = [todo EXCEPT ![l] = {}]
    /\ lpc' = [lpc EXCEPT ![l] = "redirected"]
    /\ UNCHANGED <<holder, old, expired, provider, cache, auths>>

(* The id was removed since the iterator was made.  The iterator leaves it out, *)
(* or it had fetched it ahead: then the state is null and the login request     *)
(* ends in an exception, with its own state left in the holder.                 *)
RefreshGone(l, id) ==
    /\ lpc[l] = "refresh" /\ id \in todo[l] \ holder
    /\ \/ todo' = [todo EXCEPT ![l] = @ \ {id}] /\ UNCHANGED lpc
          /\ UNCHANGED expired
       \/ todo' = [todo EXCEPT ![l] = {}] /\ lpc' = [lpc EXCEPT ![l] = "failed"]
          /\ expired' = [expired EXCEPT ![l] = {}]
    /\ UNCHANGED <<holder, old, provider, cache, auths>>

RefreshEnd(l) ==
    /\ lpc[l] = "refresh" /\ todo[l] = {}
    /\ lpc' = [lpc EXCEPT ![l] = "redirected"]
    /\ expired' = [expired EXCEPT ![l] = {}]
    /\ UNCHANGED <<holder, old, todo, provider, cache, auths>>

(* HOLD_TERM passes since the state was made.                                   *)
Age(l) ==
    /\ lpc[l] # "new" /\ l \notin old
    /\ old' = old \cup {l}
    /\ UNCHANGED <<holder, lpc, todo, expired, provider, cache, auths>>

-----------------------------------------------------------------------------------
(* The provider.                                                                *)

(* The user signs in.  When the provider answers with an error instead, auth   *)
(* reports it and leaves the state where it is: nothing changes.                *)
SignIn(l) ==
    /\ lpc[l] = "redirected"
    /\ lpc' = [lpc EXCEPT ![l] = "signedIn"]
    /\ token' = [token EXCEPT ![l] = signer]
    /\ UNCHANGED <<holder, old, todo, expired, signer, cache, auths>>

Rotate ==
    /\ signer < MaxKid
    /\ signer' = signer + 1
    /\ UNCHANGED <<logins, token, cache, auths>>

-----------------------------------------------------------------------------------
(* The auth request.                                                            *)

Goto(a, step) == apc' = [apc EXCEPT ![a] = step]
End(a, how) ==
    /\ Goto(a, "done")
    /\ answer' = [answer EXCEPT ![a] = how]
    /\ pubKey' = [pubKey EXCEPT ![a] = None]

Kid(a) == token[of[a]]

(* A request between the first and the last line of getPublicKey.               *)
InGetKey(a) == apc[a] \in {"readKey", "fetch", "setKid", "setKey"}

(* getState; a state is not in use by one request only.                         *)
Post(a, l) ==
    /\ apc[a] = "idle" /\ lpc[l] = "signedIn"
    /\ of' = [of EXCEPT ![a] = l]
    /\ IF l \in holder
       THEN Goto(a, "getKey") /\ UNCHANGED <<pubKey, answer>>
       ELSE End(a, "exception")
    /\ UNCHANGED <<logins, provider, cache, overlapped>>

(* Of two requests in getPublicKey at once, one does not only read the cache.   *)
Overlap(a) ==
    \E b \in Auths : InGetKey(b) /\ ~(cachedKid = Kid(a) /\ apc[b] = "readKey")

(* Fault: the id is written before the key is known.                            *)
CheckCacheWritingKid(a) ==
    /\ apc[a] = "getKey"
    /\ Goto(a, IF cachedKid = Kid(a) THEN "readKey" ELSE "fetch")
    /\ cachedKid' = Kid(a)
    /\ overlapped' = (overlapped \/ Overlap(a))
    /\ UNCHANGED <<logins, provider, cachedPubKey, of, pubKey, answer>>

(* Only the id is compared; the key is read next.                               *)
CheckCache(a) ==
    /\ apc[a] = "getKey"
    /\ Goto(a, IF cachedKid = Kid(a) THEN "readKey" ELSE "fetch")
    /\ overlapped' = (overlapped \/ Overlap(a))
    /\ UNCHANGED <<logins, provider, cache, of, pubKey, answer>>

ReadCached(a) ==
    /\ apc[a] = "readKey"
    /\ pubKey' = [pubKey EXCEPT ![a] = cachedPubKey]
    /\ Goto(a, "validate")
    /\ UNCHANGED <<logins, provider, cache, of, answer, overlapped>>

(* The JWKS document is fetched and the key is in it; or the call fails, or the *)
(* provider has withdrawn the key.                                              *)
Fetch(a) ==
    /\ apc[a] = "fetch"
    /\ pubKey' = [pubKey EXCEPT ![a] = Kid(a)]
    /\ Goto(a, "setKid")
    /\ UNCHANGED <<logins, provider, cache, of, answer, overlapped>>

(* Fault: the failure is not noticed.                                           *)
FetchFailsUnnoticed(a) ==
    /\ apc[a] = "fetch"
    /\ Goto(a, "setKid")
    /\ UNCHANGED <<logins, provider, cache, of, pubKey, answer, overlapped>>

FetchFails(a) ==
    /\ apc[a] = "fetch"
    /\ End(a, "exception")
    /\ UNCHANGED <<logins, provider, cache, of, overlapped>>

SetKid(a) ==
    /\ apc[a] = "setKid"
    /\ cachedKid' = Kid(a)
    /\ Goto(a, "setKey")
    /\ UNCHANGED <<logins, provider, cachedPubKey, of, pubKey, answer, overlapped>>

SetKey(a) ==
    /\ apc[a] = "setKey"
    /\ cachedPubKey' = pubKey[a]
    /\ Goto(a, "validate")
    /\ UNCHANGED <<logins, provider, cachedKid, of, pubKey, answer, overlapped>>

(* With its key the token is valid, and the user is logged in at the            *)
(* application; with another it is invalid; with none the exception is logged   *)
(* only, and the user gets an empty page.                                       *)
Validate(a) ==
    /\ apc[a] = "validate"
    /\ CASE pubKey[a] = Kid(a) -> Goto(a, "respond") /\ UNCHANGED <<pubKey, answer>>
         [] pubKey[a] = None -> End(a, "empty")
         [] OTHER -> End(a, "exception")
    /\ UNCHANGED <<logins, provider, cache, of, overlapped>>

(* The token has expired, or the application's login fails.                     *)
LoginFails(a) ==
    /\ apc[a] = "validate" /\ pubKey[a] = Kid(a)
    /\ \E how \in {"exception", "empty"} : End(a, how)
    /\ UNCHANGED <<logins, provider, cache, of, overlapped>>

(* The answer is written, and the state removed; an answer that cannot be       *)
(* written is logged only, and the state stays.                                 *)
Respond(a) ==
    /\ apc[a] = "respond"
    /\ \/ End(a, "ok") /\ holder' = holder \ {of[a]}
       \/ End(a, "empty") /\ UNCHANGED holder
    /\ UNCHANGED <<old, lpc, todo, expired, provider, cache, of, overlapped>>

-----------------------------------------------------------------------------------
LoginStep(l) ==
    \/ CreateState(l) \/ CheckSize(l) \/ RefreshEnd(l) \/ Age(l) \/ SignIn(l)
    \/ \E id \in Logins : RefreshNext(l, id) \/ RefreshGone(l, id)

AuthStep(a) ==
    \/ \E l \in Logins : Post(a, l)
    \/ CheckCache(a) \/ ReadCached(a) \/ Fetch(a) \/ FetchFails(a)
    \/ SetKid(a) \/ SetKey(a) \/ Validate(a) \/ LoginFails(a)
    \/ Respond(a)

Next ==
    \/ \E l \in Logins : LoginStep(l)
    \/ \E a \in Auths : AuthStep(a)
    \/ Rotate

Spec == Init /\ [][Next]_vars

-----------------------------------------------------------------------------------
(* Properties.                                                                  *)

(* Types; a request that goes on to log the user in has verified the token with *)
(* the key the token names (auth: getPublicKey, validate, handywedgeLogin).     *)
TypeOK ==
    /\ holder \subseteq {l \in Logins : lpc[l] # "new"} /\ old \subseteq Logins
    /\ lpc \in [Logins -> {"new", "put", "refresh", "redirected", "signedIn", "failed"}]
    /\ todo \in [Logins -> SUBSET Logins] /\ expired \in [Logins -> SUBSET Logins]
    /\ \A l \in Logins : todo[l] # {} => lpc[l] = "refresh"
    /\ signer \in Kids
    /\ token \in [Logins -> 1..signer \cup {None}]
    /\ cachedKid \in 1..signer \cup {None} /\ cachedPubKey \in 1..signer \cup {None}
    /\ apc \in [Auths -> {"idle", "getKey", "readKey", "fetch", "setKid", "setKey",
                          "validate", "respond", "done"}]
    /\ of \in [Auths -> Logins \cup {None}]
    /\ pubKey \in [Auths -> 1..signer \cup {None}]
    /\ answer \in [Auths -> {"none", "ok", "exception", "empty"}]
    /\ overlapped \in BOOLEAN
    /\ \A a \in Auths :
          apc[a] \in {"setKid", "setKey", "respond"} => pubKey[a] = Kid(a)

(* A user who comes back within the term finds the state of the login, whatever *)
(* other logins clean up, until an answer of that login has been honoured       *)
(* (OICStateManager.refresh and remove).                                        *)
FreshSurvives ==
    \A l \in Logins :
        lpc[l] # "new" /\ l \notin old /\ l \notin holder
            => \E a \in Auths : of[a] = l /\ answer[a] = "ok"

(* A refresh that ends leaves none of the states that were too old when it      *)
(* began, although other requests remove states under its iterator              *)
(* (OICStateManager.refresh).                                                   *)
RefreshClears ==
    [][\A l \in Logins :
          lpc[l] = "refresh" /\ lpc'[l] = "redirected" => expired[l] \cap holder' = {}]_vars

(* Unless one request was in getPublicKey while another filled the cache, the   *)
(* cached key is that of the cached id whenever nobody writes it, and no token  *)
(* is checked with another key than its own: failed calls and rotations of the  *)
(* provider's keys do not spoil the cache (getPublicKey).                       *)
CacheMatches ==
    ~overlapped =>
        /\ cachedKid = cachedPubKey \/ \E a \in Auths : apc[a] = "setKey"
        /\ \A a \in Auths : apc[a] = "validate" => pubKey[a] = Kid(a)

===================================================================================
