----------------------------- MODULE OICLoginProofs -----------------------------
(***************************************************************************)
(* What TLAPS proves about OICLogin, for any number of logins and of auth  *)
(* requests, any refresh size and any number of keys of the provider.      *)
(***************************************************************************)
EXTENDS OICLogin, TLAPS

-------------------------------------------------------------------------------
(* Types. A login whose answer has been posted is signed in and its token  *)
(* names a key: so the key a request compares with does not change under   *)
(* its hands, whatever the provider rotates.                               *)

Named(l) == lpc[l] = "signedIn" => token[l] \in 1..signer

Posted(a) == apc[a] # "idle" => of[a] \in Logins /\ lpc[of[a]] = "signedIn"

TInv ==
    /\ TypeOK
    /\ \A l \in Logins : Named(l)
    /\ \A a \in Auths : Posted(a)

LEMMA InitTInv == Init => TInv
<1> SUFFICES ASSUME Init PROVE TInv
  OBVIOUS
<1>1. 1 \in Kids
  BY BoundsAssumption DEF Kids
<1>2. TypeOK
  BY <1>1 DEF Init, TypeOK
<1>3. QED
  BY <1>2 DEF Init, TInv, Named, Posted

(* The logins' own steps. *)
LEMMA LoginTInv ==
    ASSUME TInv, NEW l \in Logins, LoginStep(l)
    PROVE  TInv'
<1> USE DEF TInv, TypeOK, Named, Posted, Kid
<1>1. UNCHANGED <<signer, cachedKid, cachedPubKey, apc, of, pubKey, answer, overlapped>>
  BY DEF LoginStep, CreateState, CheckSize, RefreshNext, RefreshGone, RefreshEnd, Age, SignIn,
     provider, cache, auths
<1>2. CASE CreateState(l)
  BY <1>1, <1>2 DEF CreateState, provider
<1>3. CASE CheckSize(l)
  BY <1>1, <1>3 DEF CheckSize, provider
<1>4. CASE RefreshEnd(l)
  BY <1>1, <1>4 DEF RefreshEnd, provider
<1>5. CASE Age(l)
  BY <1>1, <1>5 DEF Age, provider
<1>6. CASE SignIn(l)
  <2>1. signer \in 1..signer
    BY DEF Kids
  <2>2. \A a \in Auths : apc[a] # "idle" => Kid(a)' = Kid(a)
    BY <1>1, <1>6 DEF SignIn
  <2>3. QED
    BY <1>1, <1>6, <2>1, <2>2 DEF SignIn
<1>7. ASSUME NEW id \in Logins, RefreshNext(l, id) PROVE TInv'
  BY <1>1, <1>7 DEF RefreshNext, provider
<1>8. ASSUME NEW id \in Logins, RefreshGone(l, id) PROVE TInv'
  BY <1>1, <1>8 DEF RefreshGone, provider
<1>9. QED
  BY <1>2, <1>3, <1>4, <1>5, <1>6, <1>7, <1>8 DEF LoginStep

(* The provider's.                                                         *)
LEMMA RotateTInv ==
    ASSUME TInv, Rotate
    PROVE  TInv'
<1>1. signer \in Nat /\ signer' = signer + 1 /\ signer' \in Kids
  BY BoundsAssumption DEF TInv, TypeOK, Kids, Rotate
<1>2. 1..signer \subseteq 1..signer'
  BY <1>1
<1>3. QED
  BY <1>1, <1>2 DEF TInv, TypeOK, Named, Posted, Kid, Rotate, logins, cache, auths

(* The auth requests'.                                                     *)
LEMMA AuthTInv ==
    ASSUME TInv, NEW a \in Auths, AuthStep(a)
    PROVE  TInv'
<1> USE DEF TInv, TypeOK, Named, Posted, Kid, Goto, End, logins, provider, cache
<1>1. ASSUME NEW l \in Logins, Post(a, l) PROVE TInv'
  BY <1>1 DEF Post
<1>2. of[a] \in Logins => token[of[a]] \in 1..signer \cup {None}
  OBVIOUS
<1>3. CASE CheckCache(a)
  BY <1>3 DEF CheckCache, Overlap
<1>4. CASE ReadCached(a)
  BY <1>4 DEF ReadCached
<1>5. CASE Fetch(a)
  BY <1>2, <1>5 DEF Fetch
<1>6. CASE FetchFails(a)
  BY <1>6 DEF FetchFails
<1>7. CASE SetKid(a)
  BY <1>2, <1>7 DEF SetKid
<1>8. CASE SetKey(a)
  BY <1>8 DEF SetKey
<1>9. CASE Validate(a)
  BY <1>9 DEF Validate
<1>10. CASE LoginFails(a)
  BY <1>10 DEF LoginFails
<1>11. CASE Respond(a)
  BY <1>11 DEF Respond
<1>12. QED
  BY <1>1, <1>3, <1>4, <1>5, <1>6, <1>7, <1>8, <1>9, <1>10, <1>11 DEF AuthStep

LEMMA NextTInv == TInv /\ [Next]_vars => TInv'
<1>1. TInv /\ UNCHANGED vars => TInv'
  BY DEF vars, logins, provider, cache, auths, TInv, TypeOK, Named, Posted, Kid
<1>2. QED
  BY <1>1, LoginTInv, RotateTInv, AuthTInv DEF Next

LEMMA TypeInvariance == Spec => []TInv
  BY InitTInv, NextTInv, PTL DEF Spec

(* The state has its types, and a request that writes the cache or logs    *)
(* the user in does so with the key its token names.                       *)
THEOREM TypeCorrect == Spec => []TypeOK
<1>1. TInv => TypeOK
  BY DEF TInv
<1>2. QED
  BY <1>1, TypeInvariance, PTL

-------------------------------------------------------------------------------
(* The states of the logins. What a refresh removes is old, and what it    *)
(* still has to remove is ahead of its iterator.                           *)

Ahead(l) ==
    /\ expired[l] \subseteq old
    /\ lpc[l] = "refresh" => expired[l] \cap holder \subseteq todo[l]

LInv ==
    /\ FreshSurvives
    /\ \A a \in Auths : answer[a] # "none" => apc[a] = "done"
    /\ \A l \in old : lpc[l] # "new"
    /\ \A l \in Logins : Ahead(l)

LEMMA InitLInv == Init => LInv
  BY DEF Init, LInv, FreshSurvives, Ahead

LEMMA LoginLInv ==
    ASSUME TInv, LInv, NEW l \in Logins, LoginStep(l)
    PROVE  LInv'
<1> USE DEF LInv, FreshSurvives, Ahead, TInv, TypeOK
<1>1. UNCHANGED <<apc, of, answer>>
  BY DEF LoginStep, CreateState, CheckSize, RefreshNext, RefreshGone, RefreshEnd, Age, SignIn, auths
<1>2. CASE CreateState(l)
  BY <1>1, <1>2 DEF CreateState
<1>3. CASE CheckSize(l)
  BY <1>1, <1>3 DEF CheckSize
<1>4. CASE RefreshEnd(l)
  BY <1>1, <1>4 DEF RefreshEnd
<1>5. CASE Age(l)
  BY <1>1, <1>5 DEF Age
<1>6. CASE SignIn(l)
  BY <1>1, <1>6 DEF SignIn
<1>7. ASSUME NEW id \in Logins, RefreshNext(l, id) PROVE LInv'
  BY <1>1, <1>7 DEF RefreshNext
<1>8. ASSUME NEW id \in Logins, RefreshGone(l, id) PROVE LInv'
  BY <1>1, <1>8 DEF RefreshGone
<1>9. QED
  BY <1>2, <1>3, <1>4, <1>5, <1>6, <1>7, <1>8 DEF LoginStep

LEMMA AuthLInv ==
    ASSUME TInv, LInv, NEW a \in Auths, AuthStep(a)
    PROVE  LInv'
<1>1. UNCHANGED <<old, lpc, todo, expired>>
  BY DEF AuthStep, Post, CheckCache, ReadCached, Fetch, FetchFails, SetKid, SetKey, Validate,
     LoginFails, Respond, logins
<1>2. apc[a] # "done" /\ answer[a] = "none"
  BY DEF AuthStep, Post, CheckCache, ReadCached, Fetch, FetchFails, SetKid, SetKey, Validate,
     LoginFails, Respond, LInv
<1>3. \A b \in Auths \ {a} : UNCHANGED <<apc[b], of[b], answer[b]>>
  BY DEF AuthStep, Post, CheckCache, ReadCached, Fetch, FetchFails, SetKid, SetKey, Validate,
     LoginFails, Respond, Goto, End, TInv, TypeOK
<1>4. answer'[a] # "none" => apc'[a] = "done"
  BY <1>2 DEF AuthStep, Post, CheckCache, ReadCached, Fetch, FetchFails, SetKid, SetKey,
     Validate, LoginFails, Respond, Goto, End, TInv, TypeOK
<1>5. \/ UNCHANGED holder
      \/ holder' = holder \ {of[a]} /\ answer'[a] = "ok" /\ of'[a] = of[a]
  BY DEF AuthStep, Post, CheckCache, ReadCached, Fetch, FetchFails, SetKid, SetKey, Validate,
     LoginFails, Respond, Goto, End, logins, TInv, TypeOK
<1>6. FreshSurvives'
  BY <1>1, <1>2, <1>3, <1>5 DEF LInv, FreshSurvives
<1>7. QED
  BY <1>1, <1>3, <1>4, <1>5, <1>6 DEF LInv, Ahead

LEMMA LoginInvariance == Spec => []LInv
<1>1. LInv /\ UNCHANGED vars => LInv'
  BY DEF vars, logins, auths, LInv, FreshSurvives, Ahead
<1>2. LInv /\ Rotate => LInv'
  BY DEF Rotate, logins, auths, LInv, FreshSurvives, Ahead
<1>3. TInv /\ LInv /\ [Next]_vars => LInv'
  BY <1>1, <1>2, LoginLInv, AuthLInv DEF Next
<1>4. QED
  BY InitLInv, <1>3, TypeInvariance, PTL DEF Spec

(* A user who comes back within the term finds the state of the login,     *)
(* whatever refreshes run at once and however often an answer is posted.   *)
THEOREM FreshStatesSurvive == Spec => []FreshSurvives
<1>1. LInv => FreshSurvives
  BY DEF LInv
<1>2. QED
  BY <1>1, LoginInvariance, PTL

(* A refresh that ends has removed all that was too old when it began,     *)
(* although others remove states under its iterator.                       *)
THEOREM RefreshesClear == Spec => RefreshClears
<1> DEFINE Cleared == \A l \in Logins : lpc[l] = "refresh" /\ lpc'[l] = "redirected" =>
                          expired[l] \cap holder' = {}
<1>1. TInv /\ LInv /\ [Next]_vars => [Cleared]_vars
  <2> SUFFICES ASSUME TInv, LInv, Next, NEW l \in Logins,
                      lpc[l] = "refresh", lpc'[l] = "redirected"
               PROVE  expired[l] \cap holder' = {}
    OBVIOUS
  <2>1. RefreshEnd(l)
    BY DEF Next, LoginStep, AuthStep, CreateState, CheckSize, RefreshNext, RefreshGone,
       RefreshEnd, Age, SignIn, Rotate, Post, CheckCache, ReadCached, Fetch, FetchFails,
       SetKid, SetKey, Validate, LoginFails, Respond, logins, TInv, TypeOK
  <2>2. expired[l] \cap holder \subseteq todo[l]
    BY DEF LInv, Ahead
  <2>3. QED
    BY <2>1, <2>2 DEF RefreshEnd
<1>2. QED
  BY <1>1, TypeInvariance, LoginInvariance, PTL DEF Spec, RefreshClears

-------------------------------------------------------------------------------
(* The cache. As long as no request has come into getPublicKey while       *)
(* another filled the cache, there is one that fills it and no other in    *)
(* getPublicKey, or there are only some that read.                         *)

Reading(a) == apc[a] = "readKey"

Keyed(a) ==
    /\ Reading(a) => cachedKid = Kid(a) /\ cachedPubKey = Kid(a)
    /\ apc[a] = "setKey" => cachedKid = Kid(a)
    /\ apc[a] = "validate" => pubKey[a] = Kid(a)

CInv ==
    ~overlapped =>
        /\ \A a \in Auths, b \in Auths :
              a # b /\ InGetKey(a) /\ InGetKey(b) => Reading(a) /\ Reading(b)
        /\ \A a \in Auths : Keyed(a)
        /\ cachedKid = cachedPubKey \/ \E a \in Auths : apc[a] = "setKey"

LEMMA InitCInv == Init => CInv
  BY DEF Init, CInv, InGetKey, Reading, Keyed

LEMMA LoginCInv ==
    ASSUME TInv, CInv, NEW l \in Logins, LoginStep(l)
    PROVE  CInv'
<1>1. /\ UNCHANGED <<cachedKid, cachedPubKey, apc, of, pubKey, overlapped>>
      /\ token' = token \/ SignIn(l)
  BY DEF LoginStep, CreateState, CheckSize, RefreshNext, RefreshGone, RefreshEnd, Age, SignIn,
     provider, cache, auths
<1>2. \A a \in Auths : apc[a] # "idle" => Kid(a)' = Kid(a)
  BY <1>1 DEF SignIn, TInv, TypeOK, Posted, Kid
<1>3. QED
  BY <1>1, <1>2 DEF CInv, InGetKey, Reading, Keyed

LEMMA AuthCInv ==
    ASSUME TInv, CInv, NEW a \in Auths, AuthStep(a)
    PROVE  CInv'
<1> USE DEF CInv, InGetKey, Reading, Keyed, TInv, TypeOK, Posted, Kid, Goto, End,
            logins, provider, cache
<1>1. ASSUME NEW l \in Logins, Post(a, l) PROVE CInv'
  BY <1>1 DEF Post
<1>2. CASE CheckCache(a)
  <2> SUFFICES ASSUME ~overlapped' PROVE CInv'
    OBVIOUS
  <2>1. ~overlapped /\ \A b \in Auths : InGetKey(b) => cachedKid = Kid(a) /\ Reading(b)
    BY <1>2 DEF CheckCache, Overlap
  <2>2. cachedKid = cachedPubKey
    BY <2>1
  <2>3. /\ apc' = [apc EXCEPT ![a] = IF cachedKid = Kid(a) THEN "readKey" ELSE "fetch"]
        /\ UNCHANGED <<token, cachedKid, cachedPubKey, of, pubKey>>
    BY <1>2 DEF CheckCache
  <2>4. ASSUME NEW b \in Auths, NEW c \in Auths, b # c, InGetKey(b)', InGetKey(c)'
        PROVE  Reading(b)' /\ Reading(c)'
    BY <2>1, <2>3, <2>4
  <2>5. \A b \in Auths : Keyed(b)'
    BY <2>1, <2>2, <2>3
  <2>6. QED
    BY <2>2, <2>3, <2>4, <2>5
<1>3. CASE ReadCached(a)
  BY <1>3 DEF ReadCached
<1>4. CASE Fetch(a)
  BY <1>4 DEF Fetch
<1>5. CASE FetchFails(a)
  BY <1>5 DEF FetchFails
<1>6. CASE SetKid(a)
  BY <1>6 DEF SetKid
<1>7. CASE SetKey(a)
  BY <1>7 DEF SetKey
<1>8. CASE Validate(a)
  BY <1>8 DEF Validate
<1>9. CASE LoginFails(a)
  BY <1>9 DEF LoginFails
<1>10. CASE Respond(a)
  BY <1>10 DEF Respond
<1>11. QED
  BY <1>1, <1>2, <1>3, <1>4, <1>5, <1>6, <1>7, <1>8, <1>9, <1>10 DEF AuthStep

(* The cached key is that of the cached id whenever nobody writes it, and  *)
(* every token is checked with its own key, unless one request was in      *)
(* getPublicKey while another filled the cache: failed calls and the       *)
(* provider's rotations do no harm.                                        *)
THEOREM CacheIsRight == Spec => []CacheMatches
<1>1. CInv /\ UNCHANGED vars => CInv'
  BY DEF vars, provider, cache, auths, CInv, InGetKey, Reading, Keyed, Kid
<1>2. CInv /\ Rotate => CInv'
  BY DEF Rotate, cache, auths, CInv, InGetKey, Reading, Keyed, Kid
<1>3. TInv /\ CInv /\ [Next]_vars => CInv'
  BY <1>1, <1>2, LoginCInv, AuthCInv DEF Next
<1>4. CInv => CacheMatches
  BY DEF CInv, Keyed, CacheMatches
<1>5. QED
  BY InitCInv, <1>3, <1>4, TypeInvariance, PTL DEF Spec
===============================================================================
