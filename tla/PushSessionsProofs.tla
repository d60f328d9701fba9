--------------------------- MODULE PushSessionsProofs ---------------------------
(***************************************************************************)
(* What TLAPS proves about PushSessions, for any number of sessions and    *)
(* users.  Whatever overlaps: the variables keep their types (TInv) and    *)
(* open sessions stay on the index (OInv).  Where callbacks do not overlap *)
(* (Serialized), the maps agree with the connections and notices reach     *)
(* everybody (SInv).  Each action has up to three lemmas: ...Typed keeps   *)
(* TInv, ...Went says point by point what it changes, ...Keeps keeps SInv. *)
(***************************************************************************)
EXTENDS PushSessions, SequenceTheorems, WellFoundedInduction, TLAPS

(* Append adds an element. *)
LEMMA Appended ==
    ASSUME NEW S, NEW q \in Seq(S), NEW e \in S
    PROVE  /\ Append(q, e) \in Seq(S)
           /\ ToSet(Append(q, e)) = ToSet(q) \cup {e}
           /\ IsInjective(q) /\ e \notin ToSet(q) => IsInjective(Append(q, e))
<1> DEFINE r == Append(q, e)
<1>1. /\ r \in Seq(S) /\ DOMAIN r = 1..(Len(q) + 1) /\ DOMAIN q = 1..Len(q) /\ Len(q) \in Nat
      /\ \A i \in 1..Len(q) : r[i] = q[i]
      /\ r[Len(q) + 1] = e
  OBVIOUS
<1> HIDE DEF r
<1>2. ToSet(r) = ToSet(q) \cup {e}
  <2>1. \A i \in DOMAIN r : r[i] \in ToSet(q) \cup {e}
    BY <1>1 DEF ToSet
  <2>2. \A i \in DOMAIN q : i \in DOMAIN r /\ r[i] = q[i]
    BY <1>1
  <2>3. Len(q) + 1 \in DOMAIN r
    BY <1>1
  <2>4. QED
    BY <1>1, <2>1, <2>2, <2>3 DEF ToSet
<1>3. ASSUME IsInjective(q), e \notin ToSet(q) PROVE IsInjective(r)
  <2>1. \A i \in 1..Len(q) : q[i] # e
    BY <1>1, <1>3 DEF ToSet
  <2>2. \A i, j \in 1..Len(q) : q[i] = q[j] => i = j
    BY <1>1, <1>3 DEF IsInjective
  <2>3. ASSUME NEW i \in DOMAIN r, NEW j \in DOMAIN r, r[i] = r[j] PROVE i = j
    BY <1>1, <2>1, <2>2, <2>3
  <2>4. QED
    BY <2>3 DEF IsInjective
<1>4. QED
  BY <1>1, <1>2, <1>3 DEF r

(* RemoveAt drops one element. *)
LEMMA Dropped ==
    ASSUME NEW S, NEW q \in Seq(S), NEW k \in 1..Len(q)
    PROVE  /\ RemoveAt(q, k) \in Seq(S)
           /\ Len(RemoveAt(q, k)) = Len(q) - 1
           /\ \A i \in 1..(Len(q) - 1) : RemoveAt(q, k)[i] = IF i < k THEN q[i] ELSE q[i + 1]
<1> DEFINE a == SubSeq(q, 1, k - 1)
           b == SubSeq(q, k + 1, Len(q))
<1>1. Len(q) \in Nat /\ k \in Nat
  OBVIOUS
<1>2. /\ a \in Seq(S) /\ Len(a) = k - 1 /\ \A i \in 1..(k - 1) : a[i] = q[i]
  OBVIOUS
<1>3. /\ b \in Seq(S) /\ Len(b) = Len(q) - k
      /\ \A i \in 1..(Len(q) - k) : b[i] = q[i + k]
  OBVIOUS
<1>4. RemoveAt(q, k) = a \o b
  BY DEF RemoveAt
<1> HIDE DEF a, b
<1>5. /\ a \o b \in Seq(S) /\ Len(a \o b) = Len(a) + Len(b)
      /\ \A i \in 1..(Len(a) + Len(b)) :
            (a \o b)[i] = IF i <= Len(a) THEN a[i] ELSE b[i - Len(a)]
  BY <1>2, <1>3, ConcatProperties
<1>6. QED
  BY <1>1, <1>2, <1>3, <1>4, <1>5

(* Min of a set of numbers is its least element. *)
LEMMA MinExists ==
    ASSUME NEW T, T \subseteq Nat, T # {}
    PROVE  Min(T) \in T /\ \A n \in T : Min(T) <= n
<1> DEFINE R == {ss \in Nat \X Nat : ss[1] < ss[2]}
<1>1. IsWellFoundedOn(R, Nat)
  BY NatLessThanWellFounded DEF OpToRel
<1> HIDE DEF R
<1>2. PICK x \in T : \A y \in T : ~(<<y, x>> \in R)
  BY <1>1, WFMin
<1>3. ASSUME NEW y \in T PROVE x <= y
  <2>1. y \in Nat /\ x \in Nat
    OBVIOUS
  <2>2. ~(y < x)
    BY <1>2, <2>1 DEF R
  <2>3. QED
    BY <2>1, <2>2
<1>4. QED
  BY <1>3 DEF Min

(* RemoveFirst drops an element that is equal to the given one. *)
LEMMA First ==
    ASSUME NEW S, NEW q \in Seq(S), NEW e \in ToSet(q)
    PROVE  \E k \in 1..Len(q) : q[k] = e /\ RemoveFirst(q, e) = RemoveAt(q, k)
<1> DEFINE T == {i \in 1..Len(q) : q[i] = e}
<1>1. T \subseteq Nat /\ T # {}
  BY DEF ToSet
<1>2. Min(T) \in T
  BY <1>1, MinExists
<1>3. RemoveFirst(q, e) = RemoveAt(q, Min(T))
  BY <1>1 DEF RemoveFirst, SelectInSeq
<1>4. QED
  BY <1>2, <1>3

(* Without repetitions, RemoveFirst removes the element from the set.      *)
LEMMA Without ==
    ASSUME NEW S, NEW q \in Seq(S), NEW e \in ToSet(q)
    PROVE  /\ RemoveFirst(q, e) \in Seq(S)
           /\ IsInjective(q) =>
                 /\ ToSet(RemoveFirst(q, e)) = ToSet(q) \ {e}
                 /\ IsInjective(RemoveFirst(q, e))
<1>1. PICK k \in 1..Len(q) : q[k] = e /\ RemoveFirst(q, e) = RemoveAt(q, k)
  BY First
<1> DEFINE r == RemoveAt(q, k)
<1>2. /\ r \in Seq(S)
      /\ Len(r) = Len(q) - 1
      /\ \A i \in 1..(Len(q) - 1) : r[i] = IF i < k THEN q[i] ELSE q[i + 1]
  BY Dropped
<1>3. /\ Len(q) \in Nat /\ DOMAIN q = 1..Len(q)
      /\ k \in Nat /\ 1 <= k /\ k <= Len(q)
  OBVIOUS
<1>4. DOMAIN r = 1..(Len(q) - 1)
  BY <1>2
<1> HIDE DEF r
<1>5. ASSUME IsInjective(q)
      PROVE  ToSet(r) = ToSet(q) \ {e} /\ IsInjective(r)
  <2>1. \A i, j \in 1..Len(q) : q[i] = q[j] => i = j
    BY <1>3, <1>5 DEF IsInjective
  <2>2. ASSUME NEW i \in DOMAIN r
        PROVE  r[i] \in ToSet(q) /\ r[i] # e
    <3>1. i \in Nat /\ 1 <= i /\ i <= Len(q) - 1 /\ i \in 1..Len(q) /\ i + 1 \in 1..Len(q)
      BY <1>3, <1>4
    <3>2. CASE i < k
      <4>1. r[i] = q[i]
        BY <1>2, <1>4, <3>2
      <4>2. i # k
        BY <1>3, <3>1, <3>2
      <4>3. QED
        BY <1>1, <1>3, <2>1, <3>1, <4>1, <4>2 DEF ToSet
    <3>3. CASE ~(i < k)
      <4>1. r[i] = q[i + 1]
        BY <1>2, <1>4, <3>3
      <4>2. i + 1 # k
        BY <1>3, <3>1, <3>3
      <4>3. QED
        BY <1>1, <1>3, <2>1, <3>1, <4>1, <4>2 DEF ToSet
    <3>4. QED
      BY <3>2, <3>3
  <2>3. ASSUME NEW j \in DOMAIN q, q[j] # e
        PROVE  \E i \in DOMAIN r : r[i] = q[j]
    <3>1. j \in Nat /\ 1 <= j /\ j <= Len(q) /\ j # k
      BY <1>1, <1>3, <2>3
    <3>2. CASE j < k
      <4>1. j \in 1..(Len(q) - 1)
        BY <1>3, <3>1, <3>2
      <4>2. r[j] = q[j]
        BY <1>2, <3>2, <4>1
      <4>3. QED
        BY <1>4, <4>1, <4>2
    <3>3. CASE ~(j < k)
      <4>1. j - 1 \in 1..(Len(q) - 1) /\ ~(j - 1 < k) /\ (j - 1) + 1 = j
        BY <1>3, <3>1, <3>3
      <4>2. r[j - 1] = q[j]
        BY <1>2, <4>1
      <4>3. QED
        BY <1>4, <4>1, <4>2
    <3>4. QED
      BY <3>2, <3>3
  <2>4. ASSUME NEW i \in DOMAIN r, NEW j \in DOMAIN r, r[i] = r[j]
        PROVE  i = j
    <3>1. /\ i \in Nat /\ 1 <= i /\ i <= Len(q) - 1 /\ i \in 1..(Len(q) - 1)
          /\ j \in Nat /\ 1 <= j /\ j <= Len(q) - 1 /\ j \in 1..(Len(q) - 1)
      BY <1>3, <1>4
    <3>2. /\ r[i] = IF i < k THEN q[i] ELSE q[i + 1]
          /\ r[j] = IF j < k THEN q[j] ELSE q[j + 1]
      BY <1>2, <3>1
    <3>3. PICK m \in Nat : m = IF i < k THEN i ELSE i + 1
      BY <3>1
    <3>4. PICK n \in Nat : n = IF j < k THEN j ELSE j + 1
      BY <3>1
    <3>5. m \in 1..Len(q) /\ n \in 1..Len(q)
      BY <1>3, <3>1, <3>3, <3>4
    <3>6. q[m] = q[n]
      BY <2>4, <3>2, <3>3, <3>4
    <3>7. m = n
      BY <2>1, <3>5, <3>6
    <3>8. QED
      BY <1>3, <3>1, <3>3, <3>4, <3>7
  <2>5. QED
    BY <2>2, <2>3, <2>4 DEF ToSet, IsInjective
<1>6. QED
  BY <1>1, <1>2, <1>5 DEF r

-------------------------------------------------------------------------------
(* The type invariant. An iterator is over a list there is, and has not    *)
(* gone past its end; so what it yields is a session.                      *)
OpenAts == {"none", "evict", "evictNext", "evictClose", "evictLast",
            "get", "put", "add", "index", "done"}
CloseAts == {"none", "get", "remove", "ifEmpty", "removeUser", "unindex", "done"}
Items == [items : Seq(Sessions), mods : Nat]
Openers == [at : OpenAts, it : Iterators]
Closers == [at : CloseAts, it : Iterators]

Walks(it) == it.list \in Sessions /\ it.cursor <= Len(it.was.items)

OpenerWalks(o) ==
    /\ o.at \in {"evictNext", "evictClose"} => Walks(o.it)
    /\ o.at = "evictClose" => o.it.cursor # Len(o.it.was.items)
CloserWalks(k) == k.at \in {"remove", "ifEmpty"} => k.it.list \in Sessions

MapsOK ==
    /\ multi \in BOOLEAN
    /\ conn \in [Sessions -> {"none", "open", "gone", "closed"}]
    /\ byUser \in [Users -> Sessions \cup {NoList}]
    /\ list \in [Sessions -> Items]
    /\ index \subseteq Sessions
    /\ pong \in [Sessions -> {"none", "old", "new"}]
    /\ timers \subseteq Sessions
OpenersOK == opener \in [Sessions -> Openers] /\ \A s \in Sessions : OpenerWalks(opener[s])
ClosersOK == closer \in [Sessions -> Closers] /\ \A s \in Sessions : CloserWalks(closer[s])
PingerOK ==
    /\ pinger \in [at : {"sleep", "user", "next", "dead"}, it : Iterators, users : SUBSET Users]
    /\ pinger.at = "next" => Walks(pinger.it)
NoticeOK ==
    /\ notice \in [at : {"none", "next", "ok", "error"}, it : Iterators, sent : SUBSET Sessions]
    /\ notice.at = "next" => Walks(notice.it)

TInv == MapsOK /\ OpenersOK /\ ClosersOK /\ PingerOK /\ NoticeOK

(* The type invariant of PushSessions is part of TInv. *)
LEMMA TInvIsTyped == TInv => TypeOK
  BY DEF TInv, TypeOK, MapsOK, OpenersOK, ClosersOK, PingerOK, NoticeOK, Openers, Closers,
         OpenAts, CloseAts, Items

(* No session is the null list. *)
LEMMA Facts ==
    /\ UserOf \in [Sessions -> Users]
    /\ \A s \in Sessions : s # NoList
    /\ Serialized \in BOOLEAN
  BY PushAssumption

(* The initial values are typed. *)
LEMMA NoneTyped ==
    /\ NewList \in Items /\ NoIterator \in Iterators
    /\ Idle \in Openers /\ Idle \in Closers
    /\ Idle.at = "none"
    /\ \A a \in OpenAts : [Idle EXCEPT !.at = a] \in Openers /\ [Idle EXCEPT !.at = a].at = a
    /\ \A a \in CloseAts : [Idle EXCEPT !.at = a] \in Closers /\ [Idle EXCEPT !.at = a].at = a
<1>1. NewList \in Items
  BY DEF NewList, Items
<1>2. NoIterator \in Iterators
  BY <1>1 DEF NoIterator, Iterators, Items
<1>3. "none" \in OpenAts /\ "none" \in CloseAts
  BY DEF OpenAts, CloseAts
<1>4. QED
  BY <1>1, <1>2, <1>3 DEF Idle, Openers, Closers

(* What an iterator is when it is made. *)
LEMMA IteratorTyped ==
    ASSUME TInv, NEW l \in Sessions
    PROVE  /\ Iterator(l) \in Iterators /\ Walks(Iterator(l))
           /\ Iterator(l).list = l /\ Iterator(l).cursor = 0 /\ Iterator(l).was = list[l]
<1>1. list[l] \in Items
  BY DEF TInv, MapsOK
<1>2. 0 <= Len(list[l].items)
  BY <1>1 DEF Items
<1>3. QED
  BY <1>1, <1>2 DEF Iterator, Iterators, Items, Walks

(* next() yields a session and leaves the iterator at most at the end. *)
LEMMA AdvanceTyped ==
    ASSUME NEW it \in Iterators, Walks(it), it.cursor # Len(it.was.items)
    PROVE  /\ Element(it) \in Sessions
           /\ Advance(it) \in Iterators /\ Walks(Advance(it))
           /\ Advance(it).list = it.list /\ Advance(it).was = it.was
           /\ Advance(it).cursor = it.cursor + 1
<1>1. /\ it.was.items \in Seq(Sessions) /\ Len(it.was.items) \in Nat
      /\ it.cursor \in Nat /\ it.cursor <= Len(it.was.items)
  BY DEF Iterators, Walks
<1>2. it.cursor + 1 \in 1..Len(it.was.items)
  BY <1>1
<1>3. Element(it) \in Sessions
  BY <1>1, <1>2 DEF Element
<1>4. Advance(it) = [list |-> it.list, cursor |-> it.cursor + 1, was |-> it.was]
  BY DEF Advance, Iterators
<1>5. QED
  BY <1>1, <1>2, <1>3, <1>4 DEF Iterators, Walks

(* An iterator that has a next one and whose list is as it was can go on. *)
LEMMA MayAdvance ==
    ASSUME NEW it, HasNext(it), ~Changed(it)
    PROVE  it.cursor # Len(it.was.items)
  BY DEF HasNext, Changed

(* A user's list is a list of sessions. *)
LEMMA ListTyped ==
    ASSUME NEW l \in Items, NEW s \in Sessions
    PROVE  Added(l, s) \in Items /\ Removed(l, s) \in Items
<1>1. Append(l.items, s) \in Seq(Sessions) /\ l.mods + 1 \in Nat
  BY DEF Items
<1>2. s \in ToSet(l.items) => RemoveFirst(l.items, s) \in Seq(Sessions)
  BY Without DEF Items
<1>3. QED
  BY <1>1, <1>2 DEF Added, Removed, Items

(* A step of a thread leaves the others alone. *)
LEMMA OpenerPut ==
    ASSUME OpenersOK, NEW s \in Sessions, NEW r \in Openers, OpenerWalks(r),
           opener' = [opener EXCEPT ![s] = r]
    PROVE  OpenersOK'
<1>1. opener' \in [Sessions -> Openers]
  BY DEF OpenersOK
<1>2. \A t \in Sessions : opener'[t] = IF t = s THEN r ELSE opener[t]
  BY DEF OpenersOK
<1>3. \A t \in Sessions : OpenerWalks(opener'[t])
  BY <1>2 DEF OpenersOK
<1>4. QED
  BY <1>1, <1>3 DEF OpenersOK, OpenerWalks

(* The same for onClose. *)
LEMMA CloserPut ==
    ASSUME ClosersOK, NEW s \in Sessions, NEW r \in Closers, CloserWalks(r),
           closer' = [closer EXCEPT ![s] = r]
    PROVE  ClosersOK'
<1>1. closer' \in [Sessions -> Closers]
  BY DEF ClosersOK
<1>2. \A t \in Sessions : closer'[t] = IF t = s THEN r ELSE closer[t]
  BY DEF ClosersOK
<1>3. \A t \in Sessions : CloserWalks(closer'[t])
  BY <1>2 DEF ClosersOK
<1>4. QED
  BY <1>1, <1>3 DEF ClosersOK, CloserWalks

(* OpenerTo only changes where the thread is. *)
LEMMA OpenerToPut ==
    ASSUME OpenersOK, NEW s \in Sessions, NEW a \in OpenAts, OpenerTo(s, a)
    PROVE  /\ opener' = [opener EXCEPT ![s] = [at |-> a, it |-> opener[s].it]]
           /\ [at |-> a, it |-> opener[s].it] \in Openers
           /\ a \notin {"evictNext", "evictClose"} => OpenersOK'
<1>1. opener[s] \in Openers
  BY DEF OpenersOK
<1>2. [opener[s] EXCEPT !.at = a] = [at |-> a, it |-> opener[s].it]
  BY <1>1 DEF Openers
<1>3. opener' = [opener EXCEPT ![s] = [opener[s] EXCEPT !.at = a]]
  BY DEF OpenersOK, OpenerTo
<1>4. [at |-> a, it |-> opener[s].it] \in Openers
  BY <1>1 DEF Openers
<1>5. a \notin {"evictNext", "evictClose"} => OpenerWalks([at |-> a, it |-> opener[s].it])
  BY DEF OpenerWalks
<1>6. QED
  BY <1>2, <1>3, <1>4, <1>5, OpenerPut

(* The same for CloserTo. *)
LEMMA CloserToPut ==
    ASSUME ClosersOK, NEW s \in Sessions, NEW a \in CloseAts, CloserTo(s, a)
    PROVE  /\ closer' = [closer EXCEPT ![s] = [at |-> a, it |-> closer[s].it]]
           /\ [at |-> a, it |-> closer[s].it] \in Closers
           /\ a \notin {"remove", "ifEmpty"} => ClosersOK'
<1>1. closer[s] \in Closers
  BY DEF ClosersOK
<1>2. [closer[s] EXCEPT !.at = a] = [at |-> a, it |-> closer[s].it]
  BY <1>1 DEF Closers
<1>3. closer' = [closer EXCEPT ![s] = [closer[s] EXCEPT !.at = a]]
  BY DEF ClosersOK, CloserTo
<1>4. [at |-> a, it |-> closer[s].it] \in Closers
  BY <1>1 DEF Closers
<1>5. a \notin {"remove", "ifEmpty"} => CloserWalks([at |-> a, it |-> closer[s].it])
  BY DEF CloserWalks
<1>6. QED
  BY <1>2, <1>3, <1>4, <1>5, CloserPut

(* A connection closes and stays one of the known states. *)
LEMMA ClosedTyped ==
    ASSUME MapsOK, NEW e \in Sessions
    PROVE  /\ Closed(e) \in [Sessions -> {"none", "open", "gone", "closed"}]
           /\ Closed(e)[e] = (IF IsOpen(e) THEN "closed" ELSE conn[e])
           /\ \A t \in Sessions : t # e => Closed(e)[t] = conn[t]
  BY DEF MapsOK, Closed

(* An onOpen that throws leaves everything typed. *)
LEMMA OpenFailsTyped ==
    ASSUME MapsOK, OpenersOK, NEW s \in Sessions, OpenFails(s),
           UNCHANGED <<multi, pong, timers>>
    PROVE  MapsOK' /\ OpenersOK'
<1>1. OpenersOK'
  BY OpenerToPut DEF OpenFails, OpenAts
<1>2. MapsOK'
  BY ClosedTyped DEF OpenFails, MapsOK
<1>3. QED
  BY <1>1, <1>2

(* So does each step of onOpen. *)
LEMMA OpenStepTyped ==
    ASSUME TInv, NEW s \in Sessions, OpenStep(s)
    PROVE  TInv'
<1>1. /\ MapsOK /\ OpenersOK /\ ClosersOK /\ PingerOK /\ NoticeOK
      /\ opener[s] \in Openers /\ OpenerWalks(opener[s])
      /\ UserOf[s] \in Users /\ opener[s].it \in Iterators
  BY Facts DEF TInv, OpenersOK, Openers
<1>2. UNCHANGED <<closer, pinger, notice>>
  BY DEF OpenStep, Evict, EvictNext, EvictClose, EvictLast, AddGet, AddPut, AddSession,
         AddIndex
<1>3. ClosersOK' /\ PingerOK' /\ NoticeOK'
  BY <1>1, <1>2 DEF ClosersOK, PingerOK, NoticeOK
<1>4. ASSUME NEW a \in OpenAts \ {"evictNext", "evictClose"}, OpenerTo(s, a) PROVE OpenersOK'
  BY <1>1, <1>4, OpenerToPut
<1>5. ASSUME Evict(s) PROVE MapsOK' /\ OpenersOK'
  <2>1. MapsOK'
    BY <1>1, <1>5 DEF Evict, MapsOK
  <2>2. CASE byUser[UserOf[s]] = NoList
    <3>1. opener' = [opener EXCEPT ![s] = [Idle EXCEPT !.at = "get"]]
      BY <1>5, <2>2 DEF Evict
    <3>2. OpenerWalks([Idle EXCEPT !.at = "get"])
      BY NoneTyped DEF OpenerWalks, OpenAts
    <3>3. QED
      BY <1>1, <2>1, <3>1, <3>2, NoneTyped, OpenerPut DEF OpenAts
  <2>3. CASE byUser[UserOf[s]] # NoList
    <3> DEFINE l == byUser[UserOf[s]]
    <3>1. l \in Sessions
      BY <1>1, <2>3 DEF MapsOK
    <3>2. opener' = [opener EXCEPT ![s] = [at |-> "evictNext", it |-> Iterator(l)]]
      BY <1>5, <2>3 DEF Evict
    <3>3. Iterator(l) \in Iterators /\ Walks(Iterator(l))
      BY <3>1, IteratorTyped
    <3> HIDE DEF l
    <3>4. /\ [at |-> "evictNext", it |-> Iterator(l)] \in Openers
          /\ OpenerWalks([at |-> "evictNext", it |-> Iterator(l)])
      BY <3>3 DEF Openers, OpenAts, OpenerWalks
    <3>5. QED
      BY <1>1, <2>1, <3>2, <3>4, OpenerPut
  <2>4. QED
    BY <2>2, <2>3
<1>6. ASSUME EvictNext(s) PROVE MapsOK' /\ OpenersOK'
  <2> DEFINE it == opener[s].it
  <2>1. CASE OpenFails(s)
    BY <1>1, <1>6, <2>1, OpenFailsTyped DEF EvictNext
  <2>2. CASE OpenerTo(s, "evictLast") /\ UNCHANGED <<conn, byUser, list, index>>
    BY <1>1, <1>4, <1>6, <2>2 DEF EvictNext, OpenAts, MapsOK
  <2>3. CASE /\ HasNext(it) /\ Usable(it) /\ index' = index \ {Element(it)}
             /\ OpenerTo(s, "evictClose")
             /\ UNCHANGED <<conn, byUser, list>>
    <3>1. Walks(it) /\ it.cursor # Len(it.was.items)
      BY <1>1, <1>6, <2>3, MayAdvance DEF EvictNext, Opener, OpenerWalks, Usable
    <3>2. OpenerWalks([at |-> "evictClose", it |-> it])
      BY <3>1 DEF OpenerWalks
    <3>3. OpenersOK'
      BY <1>1, <2>3, <3>2, OpenerToPut, OpenerPut DEF OpenAts
    <3>4. MapsOK'
      BY <1>1, <1>6, <2>3 DEF EvictNext, MapsOK
    <3>5. QED
      BY <3>3, <3>4
  <2>4. QED
    BY <1>6, <2>1, <2>2, <2>3 DEF EvictNext
<1>7. ASSUME EvictClose(s) PROVE MapsOK' /\ OpenersOK'
  <2> DEFINE it == opener[s].it
  <2>1. Walks(it) /\ it.cursor # Len(it.was.items)
    BY <1>1, <1>7 DEF EvictClose, Opener, OpenerWalks
  <2>2. Element(it) \in Sessions /\ Advance(it) \in Iterators /\ Walks(Advance(it))
    BY <1>1, <2>1, AdvanceTyped
  <2>3. MapsOK'
    BY <1>1, <1>7, <2>2, ClosedTyped DEF EvictClose, MapsOK
  <2>4. CASE OpenerTo(s, "evictLast")
    BY <1>4, <2>3, <2>4 DEF OpenAts
  <2>5. CASE opener' = [opener EXCEPT ![s] = [at |-> "evictNext", it |-> Advance(it)]]
    <3>1. /\ [at |-> "evictNext", it |-> Advance(it)] \in Openers
          /\ OpenerWalks([at |-> "evictNext", it |-> Advance(it)])
      BY <2>2 DEF Openers, OpenAts, OpenerWalks
    <3>2. QED
      BY <1>1, <2>3, <2>5, <3>1, OpenerPut
  <2>6. QED
    BY <1>7, <2>4, <2>5 DEF EvictClose
<1>8. ASSUME EvictLast(s) PROVE MapsOK' /\ OpenersOK'
  <2>1. OpenerWalks([Idle EXCEPT !.at = "get"]) /\ [Idle EXCEPT !.at = "get"] \in Openers
    BY NoneTyped DEF OpenerWalks, OpenAts
  <2>2. opener' = [opener EXCEPT ![s] = [Idle EXCEPT !.at = "get"]]
    BY <1>8 DEF EvictLast
  <2>3. MapsOK'
    BY <1>1, <1>8 DEF EvictLast, MapsOK
  <2>4. QED
    BY <1>1, <2>1, <2>2, <2>3, OpenerPut
<1>9. ASSUME AddGet(s) PROVE MapsOK' /\ OpenersOK'
  <2>1. \E a \in {"put", "add"} : OpenerTo(s, a)
    BY <1>9 DEF AddGet
  <2>2. MapsOK'
    BY <1>1, <1>9 DEF AddGet, MapsOK
  <2>3. QED
    BY <1>4, <2>1, <2>2 DEF OpenAts
<1>10. ASSUME AddPut(s) PROVE MapsOK' /\ OpenersOK'
  <2>1. MapsOK'
    BY <1>1, <1>10 DEF AddPut, MapsOK
  <2>2. QED
    BY <1>4, <1>10, <2>1 DEF AddPut, OpenAts
<1>11. ASSUME AddSession(s) PROVE MapsOK' /\ OpenersOK'
  <2> DEFINE l == byUser[UserOf[s]]
  <2>1. CASE OpenFails(s)
    BY <1>1, <1>11, <2>1, OpenFailsTyped DEF AddSession
  <2>2. CASE /\ l # NoList /\ list' = [list EXCEPT ![l] = Added(@, s)]
             /\ OpenerTo(s, "index") /\ UNCHANGED <<conn, byUser, index>>
    <3>1. l \in Sessions /\ list[l] \in Items
      BY <1>1, <2>2 DEF MapsOK
    <3>2. Added(list[l], s) \in Items
      BY <3>1, ListTyped
    <3>3. MapsOK'
      BY <1>1, <1>11, <2>2, <3>2 DEF AddSession, MapsOK
    <3>4. QED
      BY <1>4, <2>2, <3>3 DEF OpenAts
  <2>3. QED
    BY <1>11, <2>1, <2>2 DEF AddSession
<1>12. ASSUME AddIndex(s) PROVE MapsOK' /\ OpenersOK'
  <2>1. MapsOK'
    BY <1>1, <1>12 DEF AddIndex, MapsOK
  <2>2. QED
    BY <1>4, <1>12, <2>1 DEF AddIndex, OpenAts
<1>13. QED
  BY <1>3, <1>5, <1>6, <1>7, <1>8, <1>9, <1>10, <1>11, <1>12 DEF OpenStep, TInv

(* So does each step of onClose. *)
LEMMA CloseStepTyped ==
    ASSUME TInv, NEW s \in Sessions, CloseStep(s)
    PROVE  TInv'
<1>1. /\ MapsOK /\ OpenersOK /\ ClosersOK /\ PingerOK /\ NoticeOK
      /\ closer[s] \in Closers /\ CloserWalks(closer[s])
      /\ UserOf[s] \in Users
  BY Facts DEF TInv, ClosersOK
<1>2. UNCHANGED <<multi, conn, timers, opener, pinger, notice>>
  BY DEF CloseStep, OnClose, RemoveGet, RemoveSession, RemoveIfEmpty, RemoveUser, RemoveIndex
<1>3. OpenersOK' /\ PingerOK' /\ NoticeOK'
  BY <1>1, <1>2 DEF OpenersOK, PingerOK, NoticeOK
<1>4. ASSUME NEW a \in CloseAts \ {"remove", "ifEmpty"}, CloserTo(s, a) PROVE ClosersOK'
  BY <1>1, <1>4, CloserToPut
<1>5. ASSUME OnClose(s) PROVE MapsOK' /\ ClosersOK'
  <2>1. MapsOK'
    BY <1>1, <1>5 DEF OnClose, MapsOK
  <2>2. \E a \in {"get", "done"} : CloserTo(s, a)
    BY <1>5 DEF OnClose, CloserTo
  <2>3. QED
    BY <1>4, <2>1, <2>2 DEF CloseAts
<1>6. ASSUME RemoveGet(s) PROVE MapsOK' /\ ClosersOK'
  <2>1. MapsOK'
    BY <1>1, <1>6 DEF RemoveGet, MapsOK
  <2>2. CASE byUser[UserOf[s]] = NoList
    <3>1. closer' = [closer EXCEPT ![s] = [Idle EXCEPT !.at = "done"]]
      BY <1>6, <2>2 DEF RemoveGet
    <3>2. [Idle EXCEPT !.at = "done"] \in Closers /\ CloserWalks([Idle EXCEPT !.at = "done"])
      BY NoneTyped DEF CloserWalks, CloseAts
    <3>3. QED
      BY <1>1, <2>1, <3>1, <3>2, CloserPut
  <2>3. CASE byUser[UserOf[s]] # NoList
    <3> DEFINE l == byUser[UserOf[s]]
    <3>1. l \in Sessions
      BY <1>1, <2>3 DEF MapsOK
    <3>2. closer' = [closer EXCEPT ![s] = [at |-> "remove", it |-> Iterator(l)]]
      BY <1>6, <2>3 DEF RemoveGet
    <3>3. Iterator(l) \in Iterators /\ Iterator(l).list \in Sessions
      BY <3>1, IteratorTyped
    <3> HIDE DEF l
    <3>4. /\ [at |-> "remove", it |-> Iterator(l)] \in Closers
          /\ CloserWalks([at |-> "remove", it |-> Iterator(l)])
      BY <3>3 DEF Closers, CloseAts, CloserWalks
    <3>5. QED
      BY <1>1, <2>1, <3>2, <3>4, CloserPut
  <2>4. QED
    BY <2>2, <2>3
<1>7. ASSUME RemoveSession(s) PROVE MapsOK' /\ ClosersOK'
  <2> DEFINE l == closer[s].it.list
  <2>1. l \in Sessions
    BY <1>1, <1>7 DEF RemoveSession, Closer, CloserWalks
  <2>2. list[l] \in Items
    BY <1>1, <2>1 DEF MapsOK
  <2>3. Removed(list[l], s) \in Items
    BY <2>2, ListTyped
  <2>4. MapsOK'
    BY <1>1, <1>2, <1>7, <2>1, <2>3 DEF RemoveSession, MapsOK
  <2>5. CloserWalks([at |-> "ifEmpty", it |-> closer[s].it])
    BY <2>1 DEF CloserWalks
  <2>6. ClosersOK'
    BY <1>1, <1>7, <2>5, CloserToPut, CloserPut DEF RemoveSession, CloseAts
  <2>7. QED
    BY <2>4, <2>6
<1>8. ASSUME RemoveIfEmpty(s) PROVE MapsOK' /\ ClosersOK'
  <2>1. MapsOK'
    BY <1>1, <1>8 DEF RemoveIfEmpty, MapsOK
  <2>2. \E a \in {"removeUser", "unindex"} : CloserTo(s, a)
    BY <1>8 DEF RemoveIfEmpty
  <2>3. QED
    BY <1>4, <2>1, <2>2 DEF CloseAts
<1>9. ASSUME RemoveUser(s) PROVE MapsOK' /\ ClosersOK'
  <2>1. MapsOK'
    BY <1>1, <1>9 DEF RemoveUser, MapsOK
  <2>2. QED
    BY <1>4, <1>9, <2>1 DEF RemoveUser, CloseAts
<1>10. ASSUME RemoveIndex(s) PROVE MapsOK' /\ ClosersOK'
  <2>1. [Idle EXCEPT !.at = "done"] \in Closers /\ CloserWalks([Idle EXCEPT !.at = "done"])
    BY NoneTyped DEF CloserWalks, CloseAts
  <2>2. closer' = [closer EXCEPT ![s] = [Idle EXCEPT !.at = "done"]]
    BY <1>10 DEF RemoveIndex
  <2>3. MapsOK'
    BY <1>1, <1>10 DEF RemoveIndex, MapsOK
  <2>4. QED
    BY <1>1, <2>1, <2>2, <2>3, CloserPut
<1>11. QED
  BY <1>3, <1>5, <1>6, <1>7, <1>8, <1>9, <1>10 DEF CloseStep, TInv

(* The steps of the client, of the pinger and of a notice change only one  *)
(* map or their own thread.                                                *)
LEMMA OtherStepTyped ==
    ASSUME TInv,
           \/ \E s \in Sessions : \/ OnOpen(s) \/ ClientCloses(s) \/ ClientVanishes(s)
                                  \/ PongMessage(s) \/ PongTimeout(s)
           \/ GetLoginUsers \/ GetLoginUsersFails \/ PingStep \/ Notice \/ NoticeNext
    PROVE  TInv'
<1>1. MapsOK /\ OpenersOK /\ ClosersOK /\ PingerOK /\ NoticeOK
  BY DEF TInv
<1>2. /\ NoIterator \in Iterators
      /\ \A u \in Users : byUser[u] # NoList =>
            /\ byUser[u] \in Sessions
            /\ Iterator(byUser[u]) \in Iterators /\ Walks(Iterator(byUser[u]))
  BY <1>1, NoneTyped, IteratorTyped DEF MapsOK
<1>3. ASSUME NEW s \in Sessions, OnOpen(s) PROVE TInv'
  <2>1. MapsOK' /\ ClosersOK' /\ PingerOK' /\ NoticeOK'
    BY <1>1, <1>3 DEF OnOpen, MapsOK, ClosersOK, PingerOK, NoticeOK
  <2>2. \E a \in {"get", "evict", "done"} : OpenerTo(s, a)
    BY <1>3 DEF OnOpen, OpenerTo
  <2>3. OpenersOK'
    BY <1>1, <2>2, OpenerToPut DEF OpenAts
  <2>4. QED
    BY <2>1, <2>3 DEF TInv
<1>4. ASSUME NEW s \in Sessions,
             ClientCloses(s) \/ ClientVanishes(s) \/ PongMessage(s) \/ PongTimeout(s)
      PROVE  TInv'
  <2>1. /\ MapsOK'
        /\ UNCHANGED <<opener, closer, pinger, notice>>
    BY <1>1, <1>4, ClosedTyped DEF ClientCloses, ClientVanishes, PongMessage, PongTimeout, MapsOK
  <2>2. QED
    BY <1>1, <2>1 DEF TInv, OpenersOK, ClosersOK, PingerOK, NoticeOK
<1>5. ASSUME Notice \/ NoticeNext PROVE TInv'
  <2>1. MapsOK' /\ OpenersOK' /\ ClosersOK' /\ PingerOK'
    BY <1>1, <1>5 DEF Notice, NoticeNext, MapsOK, OpenersOK, ClosersOK, PingerOK
  <2>2. ASSUME NEW a \in {"error", "ok"}, notice' = NoNotice(a) PROVE NoticeOK'
    BY <1>2, <2>2 DEF NoNotice, NoticeOK
  <2>3. ASSUME Notice PROVE NoticeOK'
    <3>1. PICK u \in Users :
            notice' = IF byUser[u] = NoList
                      THEN NoNotice("error")
                      ELSE [NoNotice("next") EXCEPT !.it = Iterator(byUser[u])]
      BY <2>3 DEF Notice
    <3>2. CASE byUser[u] = NoList
      BY <2>2, <3>1, <3>2
    <3>3. CASE byUser[u] # NoList
      <4> DEFINE i == Iterator(byUser[u])
      <4>1. notice' = [at |-> "next", it |-> i, sent |-> {}]
        BY <3>1, <3>3 DEF NoNotice
      <4>2. i \in Iterators /\ Walks(i)
        BY <1>2, <3>3
      <4> HIDE DEF i
      <4>3. QED
        BY <4>1, <4>2 DEF NoticeOK
    <3>4. QED
      BY <3>2, <3>3
  <2>4. ASSUME NoticeNext PROVE NoticeOK'
    <3> DEFINE it == notice.it
    <3>1. CASE \E a \in {"error", "ok"} : notice' = NoNotice(a)
      BY <2>2, <3>1
    <3>2. CASE /\ HasNext(it) /\ Usable(it)
               /\ notice' = [notice EXCEPT !.it = Advance(it), !.sent = @ \cup {Element(it)}]
      <4>1. it \in Iterators /\ Walks(it) /\ it.cursor # Len(it.was.items)
        BY <1>1, <2>4, <3>2, MayAdvance DEF NoticeNext, NoticeOK, Usable
      <4>2. Element(it) \in Sessions /\ Advance(it) \in Iterators /\ Walks(Advance(it))
        BY <4>1, AdvanceTyped
      <4>3. /\ notice' = [at |-> notice.at, it |-> Advance(it),
                          sent |-> notice.sent \cup {Element(it)}]
            /\ notice.sent \subseteq Sessions /\ notice.at = "next"
        BY <1>1, <2>4, <3>2 DEF NoticeOK, NoticeNext
      <4> HIDE DEF it
      <4>4. QED
        BY <4>2, <4>3 DEF NoticeOK
    <3>3. QED
      BY <2>4, <3>1, <3>2 DEF NoticeNext
  <2>5. NoticeOK'
    BY <1>5, <2>3, <2>4
  <2>6. QED
    BY <2>1, <2>5 DEF TInv
<1>6. ASSUME GetLoginUsers \/ GetLoginUsersFails \/ PingUser PROVE TInv'
  <2>1. MapsOK' /\ OpenersOK' /\ ClosersOK' /\ NoticeOK'
    BY <1>1, <1>6 DEF GetLoginUsers, GetLoginUsersFails, PingUser, MapsOK, OpenersOK, ClosersOK,
                      NoticeOK
  <2>2. ASSUME GetLoginUsers \/ GetLoginUsersFails PROVE PingerOK'
    BY <1>1, <2>2 DEF GetLoginUsers, GetLoginUsersFails, PingerOK, LoggedIn
  <2>3. ASSUME PingUser PROVE PingerOK'
    <3>1. CASE \E u \in pinger.users :
                 IF byUser[u] = NoList
                 THEN pinger' = [pinger EXCEPT !.at = "dead"]
                 ELSE pinger' = [at |-> "next", it |-> Iterator(byUser[u]),
                                 users |-> pinger.users \ {u}]
      <4>1. PICK u \in pinger.users :
                 IF byUser[u] = NoList
                 THEN pinger' = [pinger EXCEPT !.at = "dead"]
                 ELSE pinger' = [at |-> "next", it |-> Iterator(byUser[u]),
                                 users |-> pinger.users \ {u}]
        BY <3>1
      <4>2. u \in Users /\ pinger.users \subseteq Users
        BY <1>1 DEF PingerOK
      <4>3. CASE byUser[u] = NoList
        BY <1>1, <4>1, <4>3 DEF PingerOK
      <4>4. CASE byUser[u] # NoList
        <5> DEFINE i == Iterator(byUser[u])
        <5>1. i \in Iterators /\ Walks(i)
          BY <1>2, <4>2, <4>4
        <5>2. pinger' = [at |-> "next", it |-> i, users |-> pinger.users \ {u}]
          BY <4>1, <4>4
        <5> HIDE DEF i
        <5>3. QED
          BY <4>2, <5>1, <5>2 DEF PingerOK
      <4>5. QED
        BY <4>3, <4>4
    <3>2. CASE pinger' = [pinger EXCEPT !.at = "sleep", !.it = NoIterator]
      BY <1>1, <1>2, <3>2 DEF PingerOK
    <3>3. QED
      BY <2>3, <3>1, <3>2 DEF PingUser
  <2>4. PingerOK'
    BY <1>1, <1>6, <2>2, <2>3
  <2>5. QED
    BY <2>1, <2>4 DEF TInv
<1>7. ASSUME PingNext PROVE TInv'
  <2> DEFINE it == pinger.it
  <2>1. OpenersOK' /\ ClosersOK' /\ NoticeOK'
    BY <1>1, <1>7 DEF PingNext, OpenersOK, ClosersOK, NoticeOK
  <2>2. CASE (\E a \in {"dead", "user"} : pinger' = [pinger EXCEPT !.at = a]) /\ UNCHANGED <<pong, timers>>
    <3>1. PingerOK'
      BY <1>1, <2>2 DEF PingerOK
    <3>2. MapsOK'
      BY <1>1, <1>7, <2>2 DEF PingNext, MapsOK
    <3>3. QED
      BY <2>1, <3>1, <3>2 DEF TInv
  <2>3. CASE /\ HasNext(it) /\ ~Changed(it) /\ pinger' = [pinger EXCEPT !.it = Advance(it)]
             /\ LET e == Element(it) IN
                IF IsOpen(e)
                THEN /\ timers' = timers \cup {e}
                     /\ pong' = [pong EXCEPT ![e] = IF @ = "new" THEN "old" ELSE @]
                ELSE UNCHANGED <<pong, timers>>
    <3>1. it \in Iterators /\ Walks(it) /\ it.cursor # Len(it.was.items)
      BY <1>1, <1>7, <2>3, MayAdvance DEF PingNext, PingerOK
    <3>2. Element(it) \in Sessions /\ Advance(it) \in Iterators /\ Walks(Advance(it))
      BY <3>1, AdvanceTyped
    <3>3. PingerOK'
      BY <1>1, <2>3, <3>2 DEF PingerOK
    <3>4. timers' \subseteq Sessions /\ pong' \in [Sessions -> {"none", "old", "new"}]
      <4> HIDE DEF it
      <4>1. QED
        BY <1>1, <2>3, <3>2 DEF MapsOK
    <3>5. MapsOK'
      BY <1>1, <1>7, <3>4 DEF PingNext, MapsOK
    <3>6. QED
      BY <2>1, <3>3, <3>5 DEF TInv
  <2>4. QED
    BY <1>7, <2>2, <2>3 DEF PingNext
<1>8. QED
  BY <1>3, <1>4, <1>5, <1>6, <1>7 DEF PingStep

(* The invariant of the types, inductive by itself. *)
LEMMA TInvariance == Spec => []TInv
<1>1. Init => TInv
  <2> SUFFICES ASSUME Init PROVE TInv
    OBVIOUS
  <2>1. MapsOK
    BY NoneTyped DEF Init, MapsOK
  <2>2. OpenersOK /\ ClosersOK
    BY NoneTyped DEF Init, OpenersOK, ClosersOK, OpenerWalks, CloserWalks
  <2>3. PingerOK /\ NoticeOK
    BY NoneTyped DEF Init, PingerOK, NoticeOK, NoNotice
  <2>4. QED
    BY <2>1, <2>2, <2>3 DEF TInv
<1>2. TInv /\ [Next]_vars => TInv'
  <2> SUFFICES ASSUME TInv, [Next]_vars PROVE TInv'
    OBVIOUS
  <2>1. CASE UNCHANGED vars
    BY <2>1 DEF vars, TInv, MapsOK, OpenersOK, ClosersOK, PingerOK, NoticeOK
  <2>2. CASE Next
    BY <2>2, OpenStepTyped, CloseStepTyped, OtherStepTyped DEF Next
  <2>3. QED
    BY <2>1, <2>2
<1>3. QED
  BY <1>1, <1>2, PTL DEF Spec

(* The variables keep their types: an iterator never yields what is not a  *)
(* session, whoever changes its list meanwhile.                            *)
THEOREM TypeCorrect == Spec => []TypeOK
  BY TInvariance, TInvIsTyped, PTL

-------------------------------------------------------------------------------
(* What the steps of onOpen and onClose change, point by point. *)
LEMMA OpenerToWent ==
    ASSUME OpenersOK, NEW s \in Sessions, NEW a \in OpenAts, OpenerTo(s, a)
    PROVE  /\ opener'[s].at = a /\ opener'[s].it = opener[s].it
           /\ \A t \in Sessions : t # s => opener'[t] = opener[t]
<1>1. opener' = [opener EXCEPT ![s] = [at |-> a, it |-> opener[s].it]]
  BY OpenerToPut
<1>2. opener'[s] = [at |-> a, it |-> opener[s].it] /\ \A t \in Sessions : t # s => opener'[t] = opener[t]
  BY <1>1 DEF OpenersOK
<1>3. QED
  BY <1>2

(* The same for onClose. *)
LEMMA CloserToWent ==
    ASSUME ClosersOK, NEW s \in Sessions, NEW a \in CloseAts, CloserTo(s, a)
    PROVE  /\ closer'[s].at = a /\ closer'[s].it = closer[s].it
           /\ \A t \in Sessions : t # s => closer'[t] = closer[t]
<1>1. closer' = [closer EXCEPT ![s] = [at |-> a, it |-> closer[s].it]]
  BY CloserToPut
<1>2. closer'[s] = [at |-> a, it |-> closer[s].it] /\ \A t \in Sessions : t # s => closer'[t] = closer[t]
  BY <1>1 DEF ClosersOK
<1>3. QED
  BY <1>2

(* A session connects: its onOpen starts. *)
LEMMA OnOpenWent ==
    ASSUME TInv, NEW s \in Sessions, OnOpen(s)
    PROVE  /\ conn[s] = "none" /\ MayStart
           /\ \/ conn'[s] = "open" /\ opener'[s].at = IF multi THEN "get" ELSE "evict"
              \/ conn'[s] = "closed" /\ opener'[s].at = "done"
           /\ \A t \in Sessions : t # s => conn'[t] = conn[t] /\ opener'[t] = opener[t]
           /\ UNCHANGED <<multi, byUser, list, index, closer, notice>>
<1>1. MapsOK /\ OpenersOK
  BY DEF TInv
<1>2. CASE conn' = [conn EXCEPT ![s] = "open"] /\ OpenerTo(s, IF multi THEN "get" ELSE "evict")
  BY <1>1, <1>2, OpenerToWent DEF OnOpen, MapsOK, OpenAts
<1>3. CASE conn' = [conn EXCEPT ![s] = "closed"] /\ OpenerTo(s, "done")
  BY <1>1, <1>3, OpenerToWent DEF OnOpen, MapsOK, OpenAts
<1>4. QED
  BY <1>2, <1>3 DEF OnOpen, OpenerTo

(* The eviction looks up the list of the user. *)
LEMMA EvictWent ==
    ASSUME TInv, NEW s \in Sessions, Evict(s)
    PROVE  /\ opener[s].at = "evict" /\ MayGoOn
           /\ byUser[UserOf[s]] = NoList => opener'[s].at = "get"
           /\ byUser[UserOf[s]] # NoList =>
                 /\ opener'[s].at = "evictNext"
                 /\ opener'[s].it.list = byUser[UserOf[s]]
                 /\ opener'[s].it.was = list[byUser[UserOf[s]]]
                 /\ opener'[s].it.cursor = 0
           /\ \A t \in Sessions : t # s => opener'[t] = opener[t]
           /\ UNCHANGED <<multi, conn, byUser, list, index, closer, notice>>
<1> DEFINE l == byUser[UserOf[s]]
<1>1. MapsOK /\ OpenersOK
  BY DEF TInv
<1>2. opener[s].at = "evict" /\ MayGoOn
      /\ UNCHANGED <<multi, conn, byUser, list, index, closer, notice>>
  BY DEF Evict, Opener
<1>3. CASE l = NoList
  <2>1. opener' = [opener EXCEPT ![s] = [Idle EXCEPT !.at = "get"]]
    BY <1>3 DEF Evict
  <2>2. opener'[s].at = "get" /\ \A t \in Sessions : t # s => opener'[t] = opener[t]
    BY <1>1, <2>1, NoneTyped DEF OpenersOK, OpenAts
  <2>3. QED
    BY <1>2, <1>3, <2>2
<1>4. CASE l # NoList
  <2>1. l \in Sessions
    BY <1>1, <1>4, Facts DEF MapsOK
  <2>2. opener' = [opener EXCEPT ![s] = [at |-> "evictNext", it |-> Iterator(l)]]
    BY <1>4 DEF Evict
  <2>3. Iterator(l).list = l /\ Iterator(l).cursor = 0 /\ Iterator(l).was = list[l]
    BY <2>1, IteratorTyped
  <2> HIDE DEF l
  <2>4. /\ opener'[s] = [at |-> "evictNext", it |-> Iterator(l)]
        /\ \A t \in Sessions : t # s => opener'[t] = opener[t]
    BY <1>1, <2>2 DEF OpenersOK
  <2>5. QED
    BY <1>2, <1>4, <2>3, <2>4 DEF l
<1>5. QED
  BY <1>3, <1>4

(* onOpen throws: onError closes the session. *)
LEMMA OpenFailsWent ==
    ASSUME TInv, NEW s \in Sessions, OpenFails(s)
    PROVE  /\ opener'[s].at = "done" /\ ~(conn'[s] \in {"open", "gone"})
           /\ \A t \in Sessions : t # s => conn'[t] = conn[t] /\ opener'[t] = opener[t]
           /\ UNCHANGED <<byUser, list, index>>
<1>1. MapsOK /\ OpenersOK
  BY DEF TInv
<1>2. QED
  BY <1>1, OpenerToWent, ClosedTyped DEF OpenFails, OpenAts, IsOpen

(* The eviction takes the next session of the list off the index. *)
LEMMA EvictNextWent ==
    ASSUME TInv, NEW s \in Sessions, EvictNext(s)
    PROVE  /\ opener[s].at = "evictNext" /\ MayGoOn
           /\ Walks(opener[s].it) /\ opener[s].it \in Iterators
           /\ \/ OpenFails(s) /\ HasNext(opener[s].it) /\ ~Usable(opener[s].it)
              \/ /\ HasNext(opener[s].it) /\ Usable(opener[s].it)
                 /\ opener[s].it.cursor # Len(opener[s].it.was.items)
                 /\ Element(opener[s].it) \in Sessions
                 /\ opener'[s].at = "evictClose" /\ opener'[s].it = opener[s].it
                 /\ \A t \in Sessions : t # s => opener'[t] = opener[t]
                 /\ index' = index \ {Element(opener[s].it)}
                 /\ UNCHANGED <<conn, byUser, list>>
              \/ /\ ~HasNext(opener[s].it)
                 /\ opener'[s].at = "evictLast" /\ opener'[s].it = opener[s].it
                 /\ \A t \in Sessions : t # s => opener'[t] = opener[t]
                 /\ UNCHANGED <<conn, byUser, list, index>>
           /\ UNCHANGED <<multi, closer, notice>>
<1> DEFINE it == opener[s].it
<1>1. MapsOK /\ OpenersOK
  BY DEF TInv
<1>2. /\ opener[s].at = "evictNext" /\ MayGoOn
      /\ UNCHANGED <<multi, closer, notice>>
  BY DEF EvictNext, Opener
<1>3. Walks(it) /\ it \in Iterators
  BY <1>1, <1>2 DEF OpenersOK, Openers, OpenerWalks
<1>4. CASE OpenFails(s) /\ HasNext(it) /\ ~Usable(it)
  BY <1>2, <1>3, <1>4
<1>5. CASE /\ HasNext(it) /\ Usable(it) /\ index' = index \ {Element(it)}
           /\ OpenerTo(s, "evictClose") /\ UNCHANGED <<conn, byUser, list>>
  <2>1. it.cursor # Len(it.was.items)
    BY <1>5, MayAdvance DEF Usable
  <2>2. Element(it) \in Sessions
    BY <1>3, <2>1, AdvanceTyped
  <2>3. QED
    BY <1>1, <1>2, <1>3, <1>5, <2>1, <2>2, OpenerToWent DEF OpenAts
<1>6. CASE /\ ~HasNext(it) /\ OpenerTo(s, "evictLast")
           /\ UNCHANGED <<conn, byUser, list, index>>
  BY <1>1, <1>2, <1>3, <1>6, OpenerToWent DEF OpenAts
<1>7. QED
  BY <1>4, <1>5, <1>6 DEF EvictNext

(* It closes that session. *)
LEMMA EvictCloseWent ==
    ASSUME TInv, NEW s \in Sessions, EvictClose(s), NEW e, e = Element(opener[s].it)
    PROVE  /\ opener[s].at = "evictClose" /\ MayGoOn
           /\ Walks(opener[s].it) /\ opener[s].it \in Iterators
           /\ opener[s].it.cursor # Len(opener[s].it.was.items)
           /\ e \in Sessions
           /\ ~(conn'[e] \in {"open", "gone"}) /\ (~IsOpen(e) => conn'[e] = conn[e])
           /\ IsOpen(e) => conn'[e] = "closed"
           /\ \A t \in Sessions : t # e => conn'[t] = conn[t]
           /\ \/ /\ opener'[s].at = "evictNext"
                 /\ opener'[s].it.list = opener[s].it.list
                 /\ opener'[s].it.was = opener[s].it.was
                 /\ opener'[s].it.cursor = opener[s].it.cursor + 1
              \/ opener'[s].at = "evictLast" /\ opener'[s].it = opener[s].it
           /\ \A t \in Sessions : t # s => opener'[t] = opener[t]
           /\ UNCHANGED <<multi, byUser, list, index, closer, notice>>
<1> DEFINE it == opener[s].it
<1>1. MapsOK /\ OpenersOK
  BY DEF TInv
<1>2. /\ opener[s].at = "evictClose" /\ MayGoOn /\ conn' = Closed(e)
      /\ UNCHANGED <<multi, byUser, list, index, closer, notice>>
  BY DEF EvictClose, Opener
<1>3. Walks(it) /\ it \in Iterators /\ it.cursor # Len(it.was.items)
  BY <1>1, <1>2 DEF OpenersOK, Openers, OpenerWalks
<1>4. /\ e \in Sessions
      /\ Advance(it).list = it.list /\ Advance(it).was = it.was
      /\ Advance(it).cursor = it.cursor + 1
  BY <1>3, AdvanceTyped
<1>5. /\ ~(conn'[e] \in {"open", "gone"}) /\ (~IsOpen(e) => conn'[e] = conn[e])
      /\ IsOpen(e) => conn'[e] = "closed"
      /\ \A t \in Sessions : t # e => conn'[t] = conn[t]
  BY <1>1, <1>2, <1>4, ClosedTyped DEF IsOpen
<1>6. CASE OpenerTo(s, "evictLast")
  BY <1>1, <1>2, <1>3, <1>4, <1>5, <1>6, OpenerToWent DEF OpenAts
<1>7. CASE opener' = [opener EXCEPT ![s] = [at |-> "evictNext", it |-> Advance(it)]]
  <2> HIDE DEF it
  <2>1. /\ opener'[s] = [at |-> "evictNext", it |-> Advance(it)]
        /\ \A t \in Sessions : t # s => opener'[t] = opener[t]
    BY <1>1, <1>7 DEF OpenersOK
  <2>2. QED
    BY <1>2, <1>3, <1>4, <1>5, <2>1 DEF it
<1>8. QED
  BY <1>6, <1>7 DEF EvictClose

(* It takes the list off the map. *)
LEMMA EvictLastWent ==
    ASSUME TInv, NEW s \in Sessions, EvictLast(s)
    PROVE  /\ opener[s].at = "evictLast" /\ MayGoOn
           /\ opener'[s].at = "get"
           /\ \A t \in Sessions : t # s => opener'[t] = opener[t]
           /\ byUser'[UserOf[s]] = NoList
           /\ \A u \in Users : u # UserOf[s] => byUser'[u] = byUser[u]
           /\ UNCHANGED <<multi, conn, list, index, closer, notice>>
<1>1. MapsOK /\ OpenersOK /\ UserOf[s] \in Users
  BY Facts DEF TInv
<1>2. opener' = [opener EXCEPT ![s] = [Idle EXCEPT !.at = "get"]]
  BY DEF EvictLast
<1>3. opener'[s].at = "get" /\ \A t \in Sessions : t # s => opener'[t] = opener[t]
  BY <1>1, <1>2, NoneTyped DEF OpenersOK, OpenAts
<1>4. QED
  BY <1>1, <1>3 DEF EvictLast, Opener, MapsOK

(* addSession looks up the list of the user. *)
LEMMA AddGetWent ==
    ASSUME TInv, NEW s \in Sessions, AddGet(s)
    PROVE  /\ opener[s].at = "get" /\ MayGoOn
           /\ opener'[s].at = IF byUser[UserOf[s]] = NoList THEN "put" ELSE "add"
           /\ \A t \in Sessions : t # s => opener'[t] = opener[t]
           /\ UNCHANGED <<multi, conn, byUser, list, index, closer, notice>>
  BY OpenerToWent DEF TInv, AddGet, Opener, OpenAts

(* addSession puts a new list on the map. *)
LEMMA AddPutWent ==
    ASSUME TInv, NEW s \in Sessions, AddPut(s)
    PROVE  /\ opener[s].at = "put" /\ MayGoOn
           /\ opener'[s].at = "add"
           /\ \A t \in Sessions : t # s => opener'[t] = opener[t]
           /\ byUser'[UserOf[s]] = s
           /\ \A u \in Users : u # UserOf[s] => byUser'[u] = byUser[u]
           /\ UNCHANGED <<multi, conn, list, index, closer, notice>>
<1>1. MapsOK /\ OpenersOK /\ UserOf[s] \in Users
  BY Facts DEF TInv
<1>2. opener'[s].at = "add" /\ \A t \in Sessions : t # s => opener'[t] = opener[t]
  BY <1>1, OpenerToWent DEF AddPut, OpenAts
<1>3. QED
  BY <1>1, <1>2 DEF AddPut, Opener, MapsOK

(* addSession adds the session to the list. *)
LEMMA AddSessionWent ==
    ASSUME TInv, NEW s \in Sessions, AddSession(s), NEW l, l = byUser[UserOf[s]]
    PROVE  /\ opener[s].at = "add" /\ MayGoOn
           /\ \/ l = NoList /\ OpenFails(s)
              \/ /\ l \in Sessions
                 /\ list'[l].items = Append(list[l].items, s)
                 /\ \A t \in Sessions : t # l => list'[t] = list[t]
                 /\ opener'[s].at = "index"
                 /\ \A t \in Sessions : t # s => opener'[t] = opener[t]
                 /\ UNCHANGED <<conn, byUser, index>>
           /\ UNCHANGED <<multi, closer, notice>>
<1>1. MapsOK /\ OpenersOK /\ UserOf[s] \in Users
  BY Facts DEF TInv
<1>2. CASE l = NoList /\ OpenFails(s)
  BY <1>2 DEF AddSession, Opener
<1>3. CASE /\ l # NoList
           /\ list' = [list EXCEPT ![l] = Added(@, s)]
           /\ OpenerTo(s, "index")
           /\ UNCHANGED <<conn, byUser, index>>
  <2>1. l \in Sessions
    BY <1>1, <1>3 DEF MapsOK
  <2>2. list'[l] = Added(list[l], s) /\ \A t \in Sessions : t # l => list'[t] = list[t]
    BY <1>1, <1>3, <2>1 DEF MapsOK
  <2>3. list'[l].items = Append(list[l].items, s)
    BY <2>2 DEF Added
  <2>4. opener'[s].at = "index" /\ \A t \in Sessions : t # s => opener'[t] = opener[t]
    BY <1>1, <1>3, OpenerToWent DEF OpenAts
  <2>5. QED
    BY <1>3, <2>1, <2>2, <2>3, <2>4 DEF AddSession, Opener
<1>4. QED
  BY <1>2, <1>3 DEF AddSession

(* addSession puts the session on the index; onOpen ends. *)
LEMMA AddIndexWent ==
    ASSUME TInv, NEW s \in Sessions, AddIndex(s)
    PROVE  /\ opener[s].at = "index" /\ MayGoOn
           /\ opener'[s].at = "done" /\ index' = index \cup {s}
           /\ \A t \in Sessions : t # s => opener'[t] = opener[t]
           /\ UNCHANGED <<multi, conn, byUser, list, closer, notice>>
  BY OpenerToWent DEF TInv, AddIndex, Opener, OpenAts

(* The onClose of a closed connection starts. *)
LEMMA OnCloseWent ==
    ASSUME TInv, NEW s \in Sessions, OnClose(s)
    PROVE  /\ AwaitsOnClose(s) /\ MayClose(s)
           /\ closer'[s].at = IF s \in index THEN "get" ELSE "done"
           /\ \A t \in Sessions : t # s => closer'[t] = closer[t]
           /\ UNCHANGED <<multi, conn, byUser, list, index, opener, notice>>
<1>1. ClosersOK /\ CloserTo(s, IF s \in index THEN "get" ELSE "done")
  BY DEF TInv, OnClose, CloserTo
<1>2. QED
  BY <1>1, CloserToWent DEF OnClose, CloseAts

(* removeSession looks up the list of the user. *)
LEMMA RemoveGetWent ==
    ASSUME TInv, NEW s \in Sessions, RemoveGet(s)
    PROVE  /\ closer[s].at = "get"
           /\ byUser[UserOf[s]] = NoList => closer'[s].at = "done"
           /\ byUser[UserOf[s]] # NoList =>
                 closer'[s].at = "remove" /\ closer'[s].it.list = byUser[UserOf[s]]
           /\ \A t \in Sessions : t # s => closer'[t] = closer[t]
           /\ UNCHANGED <<multi, conn, byUser, list, index, opener, notice>>
<1> DEFINE l == byUser[UserOf[s]]
<1>1. MapsOK /\ ClosersOK
  BY DEF TInv
<1>2. closer[s].at = "get" /\ UNCHANGED <<multi, conn, byUser, list, index, opener, notice>>
  BY DEF RemoveGet, Closer
<1>3. CASE l = NoList
  <2>1. closer' = [closer EXCEPT ![s] = [Idle EXCEPT !.at = "done"]]
    BY <1>3 DEF RemoveGet
  <2>2. closer'[s].at = "done" /\ \A t \in Sessions : t # s => closer'[t] = closer[t]
    BY <1>1, <2>1, NoneTyped DEF ClosersOK, CloseAts
  <2>3. QED
    BY <1>2, <1>3, <2>2
<1>4. CASE l # NoList
  <2>1. l \in Sessions
    BY <1>1, <1>4, Facts DEF MapsOK
  <2>2. closer' = [closer EXCEPT ![s] = [at |-> "remove", it |-> Iterator(l)]]
    BY <1>4 DEF RemoveGet
  <2>3. Iterator(l).list = l
    BY <2>1, IteratorTyped
  <2> HIDE DEF l
  <2>4. /\ closer'[s] = [at |-> "remove", it |-> Iterator(l)]
        /\ \A t \in Sessions : t # s => closer'[t] = closer[t]
    BY <1>1, <2>2 DEF ClosersOK
  <2>5. QED
    BY <1>2, <1>4, <2>3, <2>4 DEF l
<1>5. QED
  BY <1>3, <1>4

(* It removes the session from the list. *)
LEMMA RemoveSessionWent ==
    ASSUME TInv, NEW s \in Sessions, RemoveSession(s), NEW l, l = closer[s].it.list
    PROVE  /\ closer[s].at = "remove" /\ l \in Sessions
           /\ list'[l] = Removed(list[l], s)
           /\ \A t \in Sessions : t # l => list'[t] = list[t]
           /\ closer'[s].at = "ifEmpty" /\ closer'[s].it = closer[s].it
           /\ \A t \in Sessions : t # s => closer'[t] = closer[t]
           /\ UNCHANGED <<multi, conn, byUser, index, opener, notice>>
<1>1. MapsOK /\ ClosersOK
  BY DEF TInv
<1>2. closer[s].at = "remove" /\ UNCHANGED <<multi, conn, byUser, index, opener, notice>>
  BY DEF RemoveSession, Closer
<1>3. l \in Sessions
  BY <1>1, <1>2 DEF ClosersOK, CloserWalks
<1>4. list'[l] = Removed(list[l], s) /\ \A t \in Sessions : t # l => list'[t] = list[t]
  BY <1>1, <1>3 DEF RemoveSession, MapsOK
<1>5. /\ closer'[s].at = "ifEmpty" /\ closer'[s].it = closer[s].it
      /\ \A t \in Sessions : t # s => closer'[t] = closer[t]
  BY <1>1, CloserToWent DEF RemoveSession, CloseAts
<1>6. QED
  BY <1>2, <1>3, <1>4, <1>5

(* It asks whether the list is empty. *)
LEMMA RemoveIfEmptyWent ==
    ASSUME TInv, NEW s \in Sessions, RemoveIfEmpty(s)
    PROVE  /\ closer[s].at = "ifEmpty"
           /\ closer'[s].at = IF list[closer[s].it.list].items = <<>>
                              THEN "removeUser" ELSE "unindex"
           /\ \A t \in Sessions : t # s => closer'[t] = closer[t]
           /\ UNCHANGED <<multi, conn, byUser, list, index, opener, notice>>
  BY CloserToWent DEF TInv, RemoveIfEmpty, Closer, CloseAts

(* It takes an empty list off the map. *)
LEMMA RemoveUserWent ==
    ASSUME TInv, NEW s \in Sessions, RemoveUser(s)
    PROVE  /\ closer[s].at = "removeUser" /\ closer'[s].at = "unindex"
           /\ \A t \in Sessions : t # s => closer'[t] = closer[t]
           /\ byUser'[UserOf[s]] = NoList
           /\ \A u \in Users : u # UserOf[s] => byUser'[u] = byUser[u]
           /\ UNCHANGED <<multi, conn, list, index, opener, notice>>
<1>1. MapsOK /\ ClosersOK /\ UserOf[s] \in Users
  BY Facts DEF TInv
<1>2. closer'[s].at = "unindex" /\ \A t \in Sessions : t # s => closer'[t] = closer[t]
  BY <1>1, CloserToWent DEF RemoveUser, CloseAts
<1>3. QED
  BY <1>1, <1>2 DEF RemoveUser, Closer, MapsOK

(* It takes the session off the index; onClose ends. *)
LEMMA RemoveIndexWent ==
    ASSUME TInv, NEW s \in Sessions, RemoveIndex(s)
    PROVE  /\ closer[s].at = "unindex" /\ closer'[s].at = "done"
           /\ \A t \in Sessions : t # s => closer'[t] = closer[t]
           /\ index' = index \ {s}
           /\ UNCHANGED <<multi, conn, byUser, list, opener, notice>>
<1>1. closer' = [closer EXCEPT ![s] = [Idle EXCEPT !.at = "done"]]
  BY DEF RemoveIndex
<1>2. closer'[s].at = "done" /\ \A t \in Sessions : t # s => closer'[t] = closer[t]
  BY <1>1, NoneTyped DEF TInv, ClosersOK, CloseAts
<1>3. QED
  BY <1>2 DEF RemoveIndex, Closer

(* What a client and the pinger do leaves open sessions open, or closes    *)
(* one that starts no callback while one runs.                             *)
LEMMA ClientWent ==
    ASSUME TInv, NEW s \in Sessions,
           ClientCloses(s) \/ ClientVanishes(s) \/ PongMessage(s) \/ PongTimeout(s)
    PROVE  /\ \A t \in Sessions : t # s => conn'[t] = conn[t]
           /\ \/ conn'[s] = conn[s]
              \/ conn[s] = "open" /\ conn'[s] = "gone"
              \/ IsOpen(s) /\ conn'[s] = "closed" /\ MayStart
           /\ UNCHANGED <<multi, byUser, list, index, opener, closer, notice>>
<1>1. MapsOK
  BY DEF TInv
<1>2. QED
  BY <1>1, ClosedTyped
     DEF ClientCloses, ClientVanishes, PongMessage, PongTimeout, MapsOK, IsOpen

(* The pinger changes neither lists nor connections. *)
LEMMA PingerWent ==
    ASSUME GetLoginUsers \/ GetLoginUsersFails \/ PingStep
    PROVE  UNCHANGED <<multi, conn, byUser, list, index, opener, closer, notice>>
  BY DEF GetLoginUsers, GetLoginUsersFails, PingStep, PingUser, PingNext

-------------------------------------------------------------------------------
(* Callbacks may overlap. What is open is on the index, or its onOpen still *)
(* has to put it there, or somebody has just taken it off to close it: so  *)
(* an onOpen that fails must close its session, and whoever takes one off  *)
(* the index without being its onClose must close it next.                 *)
LeftAlone(s) ==
    \/ s \in index
    \/ Opening(s)
    \/ \E t \in Sessions : opener[t].at = "evictClose" /\ Element(opener[t].it) = s

OInv ==
    \A s \in Sessions :
        /\ conn[s] = "none" => opener[s].at = "none"
        /\ closer[s].at # "none" => conn[s] = "closed"
        /\ IsOpen(s) => opener[s].at # "none" /\ LeftAlone(s)

(* What moves a thread on and leaves connections and index as they are.    *)
LEMMA OpenerKeepsAlone ==
    ASSUME TInv, OInv, NEW s \in Sessions,
           \A t \in Sessions : t # s => opener'[t] = opener[t],
           opener[s].at \notin {"none", "done", "evictClose"},
           opener'[s].at \notin {"none", "done"},
           UNCHANGED <<conn, index, closer>>
    PROVE  OInv'
<1>1. ASSUME NEW t \in Sessions PROVE LeftAlone(t) => LeftAlone(t)'
  BY DEF LeftAlone, Opening
<1>2. QED
  BY <1>1 DEF OInv, IsOpen

(* What an onClose does leaves the other sessions where they are. *)
LEMMA CloserKeepsAlone ==
    ASSUME TInv, OInv, NEW s \in Sessions,
           \A t \in Sessions : t # s => closer'[t] = closer[t],
           conn[s] = "closed",
           index \ {s} \subseteq index',
           UNCHANGED <<conn, opener>>
    PROVE  OInv'
<1>1. ASSUME NEW t \in Sessions, t # s PROVE LeftAlone(t) => LeftAlone(t)'
  BY <1>1 DEF LeftAlone, Opening
<1>2. ~IsOpen(s)'
  BY DEF IsOpen
<1>3. QED
  BY <1>1, <1>2 DEF OInv, IsOpen

(* An onOpen that fails closes its session. *)
LEMMA FailureKeepsAlone ==
    ASSUME TInv, OInv, NEW s \in Sessions, OpenFails(s), UNCHANGED closer,
           opener[s].at \notin {"none", "done", "evictClose"}
    PROVE  OInv'
<1>1. /\ opener'[s].at = "done" /\ conn'[s] = "closed"
      /\ \A t \in Sessions : t # s => conn'[t] = conn[t] /\ opener'[t] = opener[t]
      /\ index' = index
  <2>1. conn[s] \in {"open", "gone", "closed"}
    BY DEF OInv, TInv, MapsOK
  <2>2. conn'[s] = "closed"
    BY <2>1 DEF OpenFails, Closed, TInv, MapsOK, IsOpen
  <2>3. QED
    BY <2>2, OpenFailsWent
<1>2. ASSUME NEW t \in Sessions, t # s PROVE LeftAlone(t) => LeftAlone(t)'
  BY <1>1, <1>2 DEF LeftAlone, Opening
<1>3. QED
  BY <1>1, <1>2 DEF OInv, IsOpen

(* Each step keeps OInv. *)
LEMMA OStep ==
    ASSUME TInv, OInv, [Next]_vars
    PROVE  OInv'
<1>1. ASSUME NEW s \in Sessions, OnOpen(s) PROVE OInv'
  <2>1. /\ conn[s] = "none"
        /\ \/ conn'[s] = "open" /\ opener'[s].at \in {"get", "evict"}
           \/ conn'[s] = "closed" /\ opener'[s].at = "done"
        /\ \A t \in Sessions : t # s => conn'[t] = conn[t] /\ opener'[t] = opener[t]
        /\ UNCHANGED <<index, closer>>
    BY <1>1, OnOpenWent
  <2>2. ASSUME NEW t \in Sessions, t # s PROVE LeftAlone(t) => LeftAlone(t)'
    <3>1. opener[s].at = "none"
      BY <2>1 DEF OInv
    <3>2. QED
      BY <2>1, <2>2, <3>1 DEF LeftAlone, Opening
  <2>3. IsOpen(s)' => LeftAlone(s)'
    BY <2>1 DEF LeftAlone, Opening, IsOpen
  <2>4. ~IsOpen(s) /\ closer[s].at = "none"
    BY <2>1 DEF OInv, IsOpen
  <2>5. QED
    BY <2>1, <2>2, <2>3, <2>4 DEF OInv, IsOpen
<1>2. ASSUME NEW s \in Sessions, OpenStep(s) PROVE OInv'
  <2>1. CASE Evict(s)
    <3>1. opener'[s].at \in {"get", "evictNext"} /\ opener[s].at = "evict"
          /\ (\A t \in Sessions : t # s => opener'[t] = opener[t])
          /\ UNCHANGED <<conn, index, closer>>
      BY <2>1, EvictWent
    <3>2. QED
      BY <3>1, OpenerKeepsAlone
  <2>2. CASE EvictNext(s)
    <3> DEFINE it == opener[s].it
    <3>1. opener[s].at = "evictNext" /\ UNCHANGED closer
      BY <2>2, EvictNextWent
    <3>2. CASE OpenFails(s)
      BY <3>1, <3>2, FailureKeepsAlone
    <3>3. CASE /\ opener'[s].at = "evictLast"
               /\ \A t \in Sessions : t # s => opener'[t] = opener[t]
               /\ UNCHANGED <<conn, index>>
      BY <3>1, <3>3, OpenerKeepsAlone
    <3>4. CASE /\ opener'[s].at = "evictClose" /\ opener'[s].it = it
               /\ \A t \in Sessions : t # s => opener'[t] = opener[t]
               /\ index' = index \ {Element(it)} /\ UNCHANGED conn
      <4>1. opener'[s].at = "evictClose" /\ Element(opener'[s].it) = Element(it)
        BY <3>4
      <4>2. ASSUME NEW t \in Sessions PROVE LeftAlone(t) => LeftAlone(t)'
        BY <3>1, <3>4, <4>1 DEF LeftAlone, Opening
      <4>3. QED
        BY <3>1, <3>4, <4>2 DEF OInv, IsOpen
    <3>5. QED
      BY <2>2, <3>2, <3>3, <3>4, EvictNextWent
  <2>3. CASE EvictClose(s)
    <3> DEFINE e == Element(opener[s].it)
    <3>1. /\ opener[s].at = "evictClose" /\ e \in Sessions
          /\ IsOpen(e) => conn'[e] = "closed"
          /\ ~(conn'[e] \in {"open", "gone"}) /\ (~IsOpen(e) => conn'[e] = conn[e])
          /\ \A t \in Sessions : t # e => conn'[t] = conn[t]
          /\ opener'[s].at \in {"evictNext", "evictLast"}
          /\ \A t \in Sessions : t # s => opener'[t] = opener[t]
          /\ UNCHANGED <<index, closer>>
      BY <2>3, EvictCloseWent
    <3>2. \A t \in Sessions \ {s} : Element(opener'[t].it) = Element(opener[t].it)
      BY <3>1
    <3>3. Element(opener[s].it) = e
      OBVIOUS
    <3> HIDE DEF e
    <3>4. ASSUME NEW t \in Sessions, t # e PROVE LeftAlone(t) => LeftAlone(t)'
      BY <3>1, <3>2, <3>3, <3>4 DEF LeftAlone, Opening
    <3>5. \A t \in Sessions : /\ conn'[t] = "none" => conn[t] = "none"
                              /\ conn[t] = "closed" => conn'[t] = "closed"
                              /\ IsOpen(t)' => t # e /\ IsOpen(t)
      BY <3>1 DEF IsOpen
    <3>6. \A t \in Sessions : /\ opener[t].at = "none" => opener'[t].at = "none"
                              /\ opener[t].at # "none" => opener'[t].at # "none"
      BY <3>1
    <3>7. closer' = closer
      BY <3>1
    <3>8. QED
      BY <3>4, <3>5, <3>6, <3>7 DEF OInv
  <2>4. CASE EvictLast(s) \/ AddGet(s) \/ AddPut(s)
    <3>1. opener[s].at \in {"evictLast", "get", "put"} /\ opener'[s].at \in {"get", "put", "add"}
          /\ (\A t \in Sessions : t # s => opener'[t] = opener[t])
          /\ UNCHANGED <<conn, index, closer>>
      BY <2>4, EvictLastWent, AddGetWent, AddPutWent
    <3>2. QED
      BY <3>1, OpenerKeepsAlone
  <2>5. CASE AddSession(s)
    <3>1. opener[s].at = "add" /\ UNCHANGED closer
      BY <2>5, AddSessionWent
    <3>2. CASE OpenFails(s)
      BY <3>1, <3>2, FailureKeepsAlone
    <3>3. CASE /\ opener'[s].at = "index"
               /\ \A t \in Sessions : t # s => opener'[t] = opener[t]
               /\ UNCHANGED <<conn, index>>
      BY <3>1, <3>3, OpenerKeepsAlone
    <3>4. QED
      BY <2>5, <3>2, <3>3, AddSessionWent
  <2>6. CASE AddIndex(s)
    <3>1. opener[s].at = "index" /\ opener'[s].at = "done" /\ index' = index \cup {s}
          /\ (\A t \in Sessions : t # s => opener'[t] = opener[t])
          /\ UNCHANGED <<conn, closer>>
      BY <2>6, AddIndexWent
    <3>2. ASSUME NEW t \in Sessions PROVE LeftAlone(t) => LeftAlone(t)'
      BY <3>1 DEF LeftAlone, Opening
    <3>3. QED
      BY <3>1, <3>2 DEF OInv, IsOpen
  <2>7. QED
    BY <1>2, <2>1, <2>2, <2>3, <2>4, <2>5, <2>6 DEF OpenStep
<1>3. ASSUME NEW s \in Sessions, CloseStep(s) PROVE OInv'
  <2>1. conn[s] = "closed"
    BY <1>3 DEF CloseStep, OnClose, AwaitsOnClose, RemoveGet, RemoveSession, RemoveIfEmpty,
                RemoveUser, RemoveIndex, Closer, OInv
  <2>2. /\ \A t \in Sessions : t # s => closer'[t] = closer[t]
        /\ index \ {s} \subseteq index'
        /\ UNCHANGED <<conn, opener>>
    BY <1>3, OnCloseWent, RemoveGetWent, RemoveSessionWent, RemoveIfEmptyWent, RemoveUserWent,
       RemoveIndexWent DEF CloseStep
  <2>3. QED
    BY <2>1, <2>2, CloserKeepsAlone
<1>4. ASSUME NEW s \in Sessions,
             ClientCloses(s) \/ ClientVanishes(s) \/ PongMessage(s) \/ PongTimeout(s)
      PROVE  OInv'
  <2>1. /\ \A t \in Sessions : t # s => conn'[t] = conn[t]
        /\ \/ conn'[s] = conn[s]
           \/ IsOpen(s) /\ conn'[s] \in {"gone", "closed"}
        /\ UNCHANGED <<index, opener, closer>>
    BY <1>4, ClientWent DEF IsOpen
  <2>2. ASSUME NEW t \in Sessions PROVE LeftAlone(t) <=> LeftAlone(t)'
    BY <2>1 DEF LeftAlone, Opening
  <2>3. QED
    BY <2>1, <2>2 DEF OInv, IsOpen
<1>5. ASSUME UNCHANGED <<conn, index, opener, closer>> PROVE OInv'
  BY <1>5 DEF OInv, LeftAlone, Opening, IsOpen
<1>6. ASSUME Notice \/ NoticeNext \/ UNCHANGED vars PROVE UNCHANGED <<conn, index, opener, closer>>
  BY <1>6 DEF Notice, NoticeNext, vars
<1>7. QED
  BY <1>1, <1>2, <1>3, <1>4, <1>5, <1>6, PingerWent DEF Next

(* So OInv holds whatever overlaps. *)
LEMMA OInvariance == Spec => []OInv
<1>1. Init => OInv
  BY DEF Init, Idle, OInv, IsOpen
<1>2. QED
  BY <1>1, TInvariance, OStep, PTL DEF Spec

(* Also where callbacks overlap and fail half-way, a session that stays    *)
(* open is on the index: its onClose will find its user.                   *)
THEOREM OpenSessionsAreIndexed == Spec => []OpenIsIndexed
<1>1. OInv => OpenIsIndexed
  <2> SUFFICES ASSUME OInv, Quiet, NEW s \in Sessions, IsOpen(s) PROVE s \in index
    BY DEF OpenIsIndexed
  <2>1. \A t \in Sessions : ~Opening(t)
    BY DEF Quiet
  <2>2. \A t \in Sessions : opener[t].at # "evictClose"
    BY <2>1 DEF Opening
  <2>3. QED
    BY <2>1, <2>2 DEF OInv, LeftAlone
<1>2. QED
  BY <1>1, OInvariance, PTL

-------------------------------------------------------------------------------
(* Callbacks do not overlap. Then one onOpen or one onClose runs, but for  *)
(* the onClose of a session that an onOpen has evicted; and what the maps  *)
(* say of a user is true of the sessions, up to what the one that runs has *)
(* still to do.                                                            *)
Ending(c) == Closing(c) \/ AwaitsOnClose(c)
EvictedAll(s) ==
    \/ opener[s].at = "evictLast"
    \/ opener[s].at = "evictNext" /\ opener[s].it.cursor # 0
Present(c) ==
    /\ opener[c].at \in {"index", "done"}
    /\ IsOpen(c) \/ (c \in index /\ closer[c].at \in {"none", "get", "remove"})
members == [u \in Users |-> SessionsOf(u)]

Mutex ==
    /\ \A s, t \in Sessions : Opening(s) /\ Opening(t) => s = t
    /\ \A c, d \in Sessions : Ending(c) /\ Ending(d) => c = d
    /\ \A s, c \in Sessions : Opening(s) /\ Ending(c) => EvictedAll(s) /\ c \notin index /\ ~Closing(c)
    /\ notice.at = "next" => \A s \in Sessions : ~Opening(s) /\ ~Ending(s)

(* A user's list is that user's, without repetitions; it is empty only     *)
(* while the first session is added or the last one is removed.            *)
ListsInv ==
    \A u \in Users : byUser[u] # NoList =>
        /\ UserOf[byUser[u]] = u
        /\ opener[byUser[u]].at \in {"add", "index", "done"}
        /\ IsInjective(list[byUser[u]].items)
        /\ \/ members[u] # {}
           \/ \E c \in Sessions : UserOf[c] = u /\ closer[c].at \in {"ifEmpty", "removeUser"}
           \/ \E s \in Sessions : UserOf[s] = u /\ opener[s].at = "add"

(* A session is in the list of its user exactly from its add to its remove *)
(* (or until all are evicted).                                             *)
MembersInv ==
    /\ \A u \in Users : \A c \in members[u] : UserOf[c] = u /\ opener[c].at \in {"index", "done"}
    /\ \A c \in Sessions :
          \/ \E s \in Sessions : UserOf[s] = UserOf[c] /\ EvictedAll(s)
          \/ c \in members[UserOf[c]] <=> Present(c)

OpenerInv ==
    \A s \in Sessions :
        /\ Opening(s) => IsOpen(s) /\ s \notin index
        /\ opener[s].at = "none" => conn[s] = "none"
        /\ opener[s].at \notin {"add", "index", "done"} => list[s].items = <<>>
        /\ opener[s].at \in {"evict", "evictNext", "evictClose", "evictLast"} => ~multi
        /\ opener[s].at = "put" => byUser[UserOf[s]] = NoList
        /\ opener[s].at = "add" => byUser[UserOf[s]] # NoList
        /\ opener[s].at \in {"evictNext", "evictClose"} =>
              /\ opener[s].it.list = byUser[UserOf[s]]
              /\ opener[s].it.was = list[byUser[UserOf[s]]]
              /\ Len(opener[s].it.was.items) <= 1
        /\ opener[s].at = "evictClose" => opener[s].it.cursor = 0

(* Without MULTI_SESSION, what the eviction has dealt with is gone. *)
AloneInv ==
    ~multi => \A s, c \in Sessions : s # c /\ UserOf[s] = UserOf[c] =>
        /\ opener[s].at \in {"evictClose", "get", "put", "add", "index"} \/ EvictedAll(s)
              => c \notin index
        /\ opener[s].at \in {"get", "put", "add", "index"} \/ EvictedAll(s) => ~IsOpen(c)

IndexInv == \A c \in index : opener[c].at = "done" /\ (IsOpen(c) \/ closer[c].at # "done")

CloserInv ==
    \A c \in Sessions :
        /\ Closing(c) => c \in index
        /\ closer[c].at \in {"remove", "ifEmpty"} =>
              byUser[UserOf[c]] = closer[c].it.list /\ byUser[UserOf[c]] # NoList
        /\ closer[c].at = "removeUser" => members[UserOf[c]] = {}

OneInv ==
    ~multi => \A c, d \in Sessions :
        c # d /\ UserOf[c] = UserOf[d] /\ IsOpen(c) /\ IsOpen(d) =>
            \E s \in {c, d} : opener[s].at \in {"evict", "evictNext", "evictClose"}

NoticeInv ==
    notice.at = "next" =>
        /\ byUser[UserOf[notice.it.list]] = notice.it.list
        /\ notice.it.was = list[notice.it.list]
        /\ notice.sent = {notice.it.was.items[i] : i \in 1..notice.it.cursor}

SInv ==
    /\ Mutex
    /\ ListsInv
    /\ MembersInv
    /\ OpenerInv
    /\ AloneInv
    /\ IndexInv
    /\ CloserInv
    /\ OneInv
    /\ NoticeInv

(* Who is in a user's list. *)
LEMMA MembersAre ==
    ASSUME TInv, NEW u \in Users
    PROVE  /\ members[u] \subseteq Sessions
           /\ byUser[u] = NoList => members[u] = {}
           /\ byUser[u] # NoList => /\ byUser[u] \in Sessions
                                    /\ list[byUser[u]].items \in Seq(Sessions)
                                    /\ members[u] = ToSet(list[byUser[u]].items)
<1>1. byUser[u] # NoList => byUser[u] \in Sessions /\ list[byUser[u]].items \in Seq(Sessions)
  BY DEF TInv, MapsOK, Items
<1>2. ASSUME NEW q \in Seq(Sessions) PROVE ToSet(q) \subseteq Sessions
  BY DEF ToSet
<1>3. members[u] = SessionsOf(u)
  BY DEF members
<1>4. QED
  BY <1>1, <1>2, <1>3 DEF SessionsOf

(* Lists that are left alone have the same members. *)
LEMMA MembersSame == UNCHANGED <<byUser, list>> => members' = members
  BY DEF members, SessionsOf

(* A list is empty if nobody is in it. *)
LEMMA Empty ==
    ASSUME NEW S, NEW q \in Seq(S)
    PROVE  /\ q = <<>> <=> ToSet(q) = {}
           /\ Len(q) = 0 <=> ToSet(q) = {}
<1>1. Len(q) \in Nat /\ DOMAIN q = 1..Len(q)
  OBVIOUS
<1>2. Len(q) = 0 <=> ToSet(q) = {}
  <2>1. Len(q) = 0 => ToSet(q) = {}
    BY <1>1 DEF ToSet
  <2>2. Len(q) # 0 => 1 \in DOMAIN q
    BY <1>1
  <2>3. Len(q) # 0 => ToSet(q) # {}
    BY <2>2 DEF ToSet
  <2>4. QED
    BY <2>1, <2>3
<1>3. q = <<>> <=> Len(q) = 0
  BY EmptySeq
<1>4. QED
  BY <1>2, <1>3

(* What has no two elements is short. *)
LEMMA Short ==
    ASSUME NEW S, NEW q \in Seq(S), IsInjective(q), \A x, y \in ToSet(q) : x = y
    PROVE  Len(q) <= 1
<1>1. Len(q) \in Nat /\ DOMAIN q = 1..Len(q)
  OBVIOUS
<1>2. SUFFICES ASSUME ~(Len(q) <= 1) PROVE FALSE
  OBVIOUS
<1>3. 1 \in DOMAIN q /\ 2 \in DOMAIN q
  BY <1>1, <1>2
<1>4. q[1] = q[2]
  BY <1>3 DEF ToSet
<1>5. QED
  BY <1>3, <1>4 DEF IsInjective

(* What holds of all sessions together. *)
LEMMA Together ==
    ASSUME TInv, OInv, SInv, NEW c \in Sessions
    PROVE  /\ conn[c] = "none" <=> opener[c].at = "none"
           /\ conn[c] = "closed" => opener[c].at = "done"
           /\ closer[c].at # "none" => conn[c] = "closed" /\ opener[c].at = "done"
           /\ c \in index /\ ~Ending(c) => IsOpen(c) /\ opener[c].at = "done"
           /\ IsOpen(c) /\ ~Opening(c) => opener[c].at = "done"
           /\ conn[c] \in {"none", "open", "gone", "closed"}
           /\ IsOpen(c) => closer[c].at = "none"
<1>1. conn[c] \in {"none", "open", "gone", "closed"}
  BY DEF TInv, MapsOK
<1>2. conn[c] = "none" <=> opener[c].at = "none"
  BY DEF OInv, SInv, OpenerInv
<1>3. conn[c] = "closed" => opener[c].at = "done"
  BY <1>2 DEF SInv, OpenerInv, Opening, IsOpen
<1>4. closer[c].at # "none" => conn[c] = "closed" /\ opener[c].at = "done"
  BY <1>3 DEF OInv
<1>5. c \in index /\ ~Ending(c) => IsOpen(c) /\ opener[c].at = "done"
  BY <1>1, <1>2, <1>4 DEF SInv, IndexInv, Ending, Closing, AwaitsOnClose, IsOpen
<1>6. IsOpen(c) /\ ~Opening(c) => opener[c].at = "done"
  BY <1>2 DEF Opening, IsOpen
<1>7. IsOpen(c) => closer[c].at = "none"
  BY <1>4 DEF IsOpen
<1>8. QED
  BY <1>1, <1>2, <1>3, <1>4, <1>5, <1>6, <1>7

(* An onOpen that goes on is the only callback that runs. *)
LEMMA OnlyOpener ==
    ASSUME TInv, OInv, SInv, Serialized, NEW s \in Sessions, Opening(s), MayGoOn
    PROVE  /\ IsOpen(s) /\ s \notin index
           /\ notice.at # "next"
           /\ \A c \in Sessions :
                 /\ ~Ending(c) /\ closer[c].at \in {"none", "done"}
                 /\ conn[c] = "closed" => closer[c].at = "done"
                 /\ c \in index => IsOpen(c) /\ opener[c].at = "done"
                 /\ Present(c) <=> opener[c].at \in {"index", "done"} /\ IsOpen(c)
                 /\ c # s => opener[c].at \in {"none", "done"}
                 /\ c # s /\ IsOpen(c) => opener[c].at = "done"
<1>1. \A c \in Sessions : ~Ending(c)
  BY DEF MayGoOn, Ending
<1>2. \A c \in Sessions : c # s => ~Opening(c)
  BY DEF SInv, Mutex
<1>3. IsOpen(s) /\ s \notin index /\ notice.at # "next"
  BY DEF SInv, OpenerInv, Mutex
<1>4. ASSUME NEW c \in Sessions
      PROVE  /\ closer[c].at \in {"none", "done"}
             /\ conn[c] = "closed" => closer[c].at = "done"
  BY <1>1 DEF Ending, Closing, AwaitsOnClose
<1>5. ASSUME NEW c \in Sessions
      PROVE  /\ c \in index => IsOpen(c) /\ opener[c].at = "done"
             /\ c # s => opener[c].at \in {"none", "done"}
             /\ c # s /\ IsOpen(c) => opener[c].at = "done"
  BY <1>1, <1>2, Together DEF Opening
<1>6. ASSUME NEW c \in Sessions
      PROVE  Present(c) <=> opener[c].at \in {"index", "done"} /\ IsOpen(c)
  BY <1>5 DEF Present
<1>7. QED
  BY <1>1, <1>3, <1>4, <1>5, <1>6

(* It keeps what is said of other callbacks, as long as it closes nothing. *)
LEMMA OpenerKeeps ==
    ASSUME TInv, OInv, SInv, Serialized, NEW s \in Sessions, Opening(s), MayGoOn,
           \A t \in Sessions : t # s => opener'[t] = opener[t],
           UNCHANGED <<conn, closer, notice>>
    PROVE  Mutex' /\ CloserInv' /\ NoticeInv'
<1>1. /\ notice.at # "next"
      /\ \A c \in Sessions : /\ ~Ending(c) /\ closer[c].at \in {"none", "done"}
                             /\ c # s => opener[c].at \in {"none", "done"}
  BY OnlyOpener
<1>2. \A c \in Sessions : ~Ending(c)'
  BY <1>1 DEF Ending, Closing, AwaitsOnClose
<1>3. \A c \in Sessions : c # s => ~Opening(c)'
  BY <1>1 DEF Opening
<1>4. Mutex'
  BY <1>1, <1>2, <1>3 DEF Mutex
<1>5. CloserInv' /\ NoticeInv'
  BY <1>1 DEF CloserInv, NoticeInv, Closing
<1>6. QED
  BY <1>4, <1>5

(* Without MULTI_SESSION, no other session of the user is open unless it   *)
(* is one that the eviction is about to close.                             *)
LEMMA OthersOfUser ==
    ASSUME TInv, OInv, SInv, Serialized, NEW s \in Sessions, Opening(s), MayGoOn,
           ~EvictedAll(s)
    PROVE  /\ \A c \in Sessions : UserOf[c] = UserOf[s] =>
                 (c \in members[UserOf[s]] <=> opener[c].at \in {"index", "done"} /\ IsOpen(c))
           /\ ~multi /\ opener[s].at # "index" => \A c, d \in members[UserOf[s]] : c = d
<1>1. \A c \in Sessions : /\ Present(c) <=> opener[c].at \in {"index", "done"} /\ IsOpen(c)
                          /\ c # s => opener[c].at \in {"none", "done"}
  BY OnlyOpener
<1>2. \A t \in Sessions : ~EvictedAll(t)
  BY <1>1 DEF EvictedAll
<1>3. \A c \in Sessions : c \in members[UserOf[c]] <=> Present(c)
  BY <1>2 DEF SInv, MembersInv
<1>4. ASSUME ~multi, opener[s].at # "index", NEW c \in members[UserOf[s]], NEW d \in members[UserOf[s]]
      PROVE  c = d
  <2>1. UserOf[s] \in Users /\ c \in Sessions /\ d \in Sessions
    BY Facts, MembersAre
  <2>2. UserOf[c] = UserOf[s] /\ UserOf[d] = UserOf[s]
        /\ opener[c].at \in {"index", "done"} /\ opener[d].at \in {"index", "done"}
    BY <2>1 DEF SInv, MembersInv
  <2>3. IsOpen(c) /\ IsOpen(d)
    BY <1>1, <1>3, <2>1, <2>2
  <2>4. QED
    BY <1>4, <2>1, <2>2, <2>3 DEF SInv, OneInv
<1>5. QED
  BY <1>1, <1>3, <1>4

(* The lists are about sessions that are not being opened. *)
LEMMA OpenerKeepsLists ==
    ASSUME TInv, OInv, SInv, Serialized, NEW s \in Sessions, Opening(s), MayGoOn,
           \A t \in Sessions : t # s => opener'[t] = opener[t],
           opener[s].at \notin {"add", "index"},
           opener'[s].at \notin {"none", "index", "done"},
           EvictedAll(s) => EvictedAll(s)',
           index' \subseteq index,
           UNCHANGED <<conn, byUser, list, closer>>
    PROVE  ListsInv' /\ MembersInv' /\ IndexInv'
<1>1. /\ s \notin index /\ opener[s].at \notin {"add", "index", "done", "none"}
      /\ \A c \in Sessions :
            /\ closer[c].at \in {"none", "done"}
            /\ c \in index => IsOpen(c)
            /\ Present(c) <=> opener[c].at \in {"index", "done"} /\ IsOpen(c)
            /\ c # s => opener[c].at \in {"none", "done"}
  BY OnlyOpener DEF Opening
<1>2. members' = members
  BY MembersSame
<1>3. \A u \in Users : members[u] \subseteq Sessions /\ byUser[u] \in Sessions \cup {NoList}
  BY MembersAre DEF TInv, MapsOK
<1>4. IndexInv'
  <2>1. \A c \in index' : c \in Sessions /\ c # s /\ c \in index
    BY <1>1 DEF TInv, MapsOK
  <2>2. QED
    BY <2>1 DEF SInv, IndexInv, IsOpen
<1>5. ListsInv'
  <2> SUFFICES ASSUME NEW u \in Users, byUser[u] # NoList
               PROVE  /\ UserOf[byUser[u]] = u
                      /\ opener'[byUser[u]].at \in {"add", "index", "done"}
                      /\ IsInjective(list[byUser[u]].items)
                      /\ \/ members[u] # {}
                         \/ \E c \in Sessions : UserOf[c] = u /\ closer[c].at \in {"ifEmpty", "removeUser"}
                         \/ \E t \in Sessions : UserOf[t] = u /\ opener'[t].at = "add"
    BY <1>2 DEF ListsInv
  <2>1. /\ UserOf[byUser[u]] = u
        /\ opener[byUser[u]].at \in {"add", "index", "done"}
        /\ IsInjective(list[byUser[u]].items)
        /\ \/ members[u] # {}
           \/ \E c \in Sessions : UserOf[c] = u /\ closer[c].at \in {"ifEmpty", "removeUser"}
           \/ \E t \in Sessions : UserOf[t] = u /\ opener[t].at = "add"
    BY DEF SInv, ListsInv
  <2>2. byUser[u] \in Sessions /\ byUser[u] # s
    BY <1>1, <1>3, <2>1
  <2>3. QED
    BY <1>1, <2>1, <2>2
<1>6. MembersInv'
  <2>1. ASSUME NEW u \in Users, NEW c \in members[u]
        PROVE  UserOf[c] = u /\ opener'[c].at \in {"index", "done"}
    <3>1. UserOf[c] = u /\ opener[c].at \in {"index", "done"} /\ c \in Sessions
      BY <1>3 DEF SInv, MembersInv
    <3>2. QED
      BY <1>1, <3>1
  <2>2. ASSUME NEW c \in Sessions
        PROVE  \/ \E t \in Sessions : UserOf[t] = UserOf[c] /\ EvictedAll(t)'
               \/ c \in members[UserOf[c]] <=> Present(c)'
    <3>1. CASE \E t \in Sessions : UserOf[t] = UserOf[c] /\ EvictedAll(t)
      <4>1. PICK t \in Sessions : UserOf[t] = UserOf[c] /\ EvictedAll(t)
        BY <3>1
      <4>2. EvictedAll(t)'
        BY <4>1 DEF EvictedAll
      <4>3. QED
        BY <4>1, <4>2
    <3>2. CASE ~\E t \in Sessions : UserOf[t] = UserOf[c] /\ EvictedAll(t)
      <4>1. c \in members[UserOf[c]] <=> Present(c)
        BY <3>2 DEF SInv, MembersInv
      <4>2. Present(c) <=> Present(c)'
        BY <1>1 DEF Present, IsOpen
      <4>3. QED
        BY <4>1, <4>2
    <3>3. QED
      BY <3>1, <3>2
  <2>3. QED
    BY <1>2, <2>1, <2>2 DEF MembersInv
<1>7. QED
  BY <1>4, <1>5, <1>6

(* Without a list there is nobody to evict. *)
LEMMA EvictKeeps ==
    ASSUME TInv, OInv, SInv, Serialized, NEW s \in Sessions, Evict(s)
    PROVE  SInv'
<1> DEFINE u == UserOf[s]
<1>1. /\ opener[s].at = "evict" /\ MayGoOn
      /\ byUser[u] = NoList => opener'[s].at = "get"
      /\ byUser[u] # NoList =>
            /\ opener'[s].at = "evictNext"
            /\ opener'[s].it.list = byUser[u]
            /\ opener'[s].it.was = list[byUser[u]]
            /\ opener'[s].it.cursor = 0
      /\ \A t \in Sessions : t # s => opener'[t] = opener[t]
      /\ UNCHANGED <<multi, conn, byUser, list, index, closer, notice>>
  BY EvictWent
<1>2. Opening(s) /\ ~EvictedAll(s) /\ u \in Users /\ ~multi
  BY <1>1, Facts DEF Opening, EvictedAll, SInv, OpenerInv
<1>3. Mutex' /\ CloserInv' /\ NoticeInv'
  BY <1>1, <1>2, OpenerKeeps
<1>4. ListsInv' /\ MembersInv' /\ IndexInv'
  <2>1. opener'[s].at \notin {"none", "index", "done"}
    BY <1>1
  <2>2. QED
    BY <1>1, <1>2, <2>1, OpenerKeepsLists
<1>5. /\ \A c \in Sessions : UserOf[c] = u =>
            (c \in members[u] <=> opener[c].at \in {"index", "done"} /\ IsOpen(c))
      /\ \A c, d \in members[u] : c = d
  BY <1>1, <1>2, OthersOfUser
<1>6. \A c \in Sessions : /\ c \in index => IsOpen(c)
                          /\ c # s => opener[c].at \in {"none", "done"}
                          /\ c # s /\ IsOpen(c) => opener[c].at = "done"
  BY <1>1, <1>2, OnlyOpener
<1>7. byUser[u] = NoList => \A c \in Sessions : c # s /\ UserOf[c] = u => ~IsOpen(c) /\ c \notin index
  BY <1>2, <1>5, <1>6, MembersAre
<1>8. OpenerInv'
  <2>1. byUser[u] # NoList => Len(list[byUser[u]].items) <= 1
    <3> SUFFICES ASSUME byUser[u] # NoList PROVE Len(list[byUser[u]].items) <= 1
      OBVIOUS
    <3>1. /\ list[byUser[u]].items \in Seq(Sessions)
          /\ members[u] = ToSet(list[byUser[u]].items)
      BY <1>2, MembersAre
    <3>2. IsInjective(list[byUser[u]].items)
      BY <1>2 DEF SInv, ListsInv
    <3>3. QED
      BY <1>5, <3>1, <3>2, Short
  <2>2. QED
    BY <1>1, <1>2, <2>1 DEF SInv, OpenerInv, Opening, IsOpen
<1>9. AloneInv'
  BY <1>1, <1>6, <1>7 DEF AloneInv, EvictedAll, IsOpen
<1>10. OneInv'
  <2>1. ASSUME NEW c \in Sessions, NEW d \in Sessions,
               c # d, UserOf[c] = UserOf[d], IsOpen(c), IsOpen(d)
        PROVE  \E t \in {c, d} : opener'[t].at \in {"evict", "evictNext", "evictClose"}
    <3>1. PICK t \in {c, d} : opener[t].at \in {"evict", "evictNext", "evictClose"}
      BY <1>2, <2>1 DEF SInv, OneInv
    <3>2. t = s
      BY <1>6, <3>1
    <3>3. byUser[u] # NoList
      BY <1>7, <2>1, <3>2
    <3>4. QED
      BY <1>1, <3>2, <3>3
  <2>2. QED
    BY <1>1, <2>1 DEF OneInv, IsOpen
<1>11. QED
  BY <1>3, <1>4, <1>8, <1>9, <1>10 DEF SInv

(* While the iterator of an eviction is there, what it yields is another   *)
(* session of the user, or there is none any more.                         *)
LEMMA Evictee ==
    ASSUME TInv, OInv, SInv, Serialized, NEW s \in Sessions, MayGoOn,
           opener[s].at \in {"evictNext", "evictClose"}
    PROVE  /\ opener[s].it.list = byUser[UserOf[s]] /\ byUser[UserOf[s]] # NoList
           /\ ~Changed(opener[s].it)
           /\ HasNext(opener[s].it) =>
                 /\ opener[s].it.cursor = 0
                 /\ Element(opener[s].it) # s /\ Element(opener[s].it) \in Sessions
                 /\ UserOf[Element(opener[s].it)] = UserOf[s]
                 /\ members[UserOf[s]] = {Element(opener[s].it)}
                 /\ opener[Element(opener[s].it)].at = "done"
                 /\ IsOpen(Element(opener[s].it))
                 /\ \A c \in Sessions : c # s /\ UserOf[c] = UserOf[s] /\ c # Element(opener[s].it)
                        => ~IsOpen(c) /\ c \notin index
           /\ ~HasNext(opener[s].it) =>
                 \A c \in Sessions : c # s /\ UserOf[c] = UserOf[s] => ~IsOpen(c) /\ c \notin index
<1> DEFINE it == opener[s].it
           u == UserOf[s]
           q == list[byUser[u]].items
<1>1. /\ it \in Iterators /\ Walks(it) /\ u \in Users
      /\ it.list = byUser[u] /\ it.was = list[byUser[u]] /\ Len(q) <= 1
      /\ Opening(s) /\ ~multi
      /\ opener[s].at = "evictClose" => it.cursor = 0
  BY Facts DEF TInv, OpenersOK, Openers, OpenerWalks, SInv, OpenerInv, Opening
<1>2. byUser[u] \in Sessions /\ byUser[u] # NoList
  BY <1>1, Facts DEF Walks
<1>3. q \in Seq(Sessions) /\ members[u] = ToSet(q) /\ members[u] \subseteq Sessions
  BY <1>1, <1>2, MembersAre
<1>4. ~Changed(it) /\ (HasNext(it) <=> it.cursor # Len(q))
  BY <1>1 DEF Changed, HasNext
<1>5. it.cursor \in Nat /\ it.cursor <= Len(q) /\ Len(q) \in Nat
  BY <1>1, <1>3 DEF Walks, Iterators
<1>6. \A c \in Sessions : /\ c \in index => IsOpen(c)
                          /\ c # s => opener[c].at \in {"none", "done"}
                          /\ c # s /\ IsOpen(c) => opener[c].at = "done"
  BY <1>1, OnlyOpener
<1>7. CASE EvictedAll(s)
  <2>1. it.cursor # 0 /\ opener[s].at = "evictNext"
    BY <1>7 DEF EvictedAll
  <2>2. ~HasNext(it)
    BY <1>1, <1>4, <1>5, <2>1
  <2>3. \A c \in Sessions : c # s /\ UserOf[c] = u => ~IsOpen(c) /\ c \notin index
    BY <1>1, <1>7 DEF SInv, AloneInv
  <2>4. QED
    BY <1>1, <1>2, <1>4, <2>2, <2>3
<1>8. CASE ~EvictedAll(s)
  <2>1. it.cursor = 0
    BY <1>1, <1>8 DEF EvictedAll
  <2>2. \A c \in Sessions : UserOf[c] = u =>
            (c \in members[u] <=> opener[c].at \in {"index", "done"} /\ IsOpen(c))
    BY <1>1, <1>8, OthersOfUser
  <2>3. CASE HasNext(it)
    <3>1. Len(q) = 1
      <4>1. Len(q) # 0 /\ Len(q) \in Nat /\ Len(q) <= 1
        BY <1>1, <1>4, <1>5, <2>1, <2>3
      <4>2. \A n \in Nat : n # 0 /\ n <= 1 => n = 1
        OBVIOUS
      <4> HIDE DEF q
      <4>3. QED
        BY <4>1, <4>2, Zenon
    <3>2. Element(it) = q[1]
      BY <1>1, <2>1 DEF Element
    <3>3. ToSet(q) = {q[1]}
      BY <1>3, <3>1 DEF ToSet
    <3>4. q[1] \in Sessions /\ UserOf[q[1]] = u /\ opener[q[1]].at \in {"index", "done"}
      BY <1>1, <1>3, <3>3 DEF SInv, MembersInv
    <3>5. q[1] # s
      BY <3>4
    <3>6. IsOpen(q[1]) /\ opener[q[1]].at = "done"
      BY <1>3, <1>6, <2>2, <3>3, <3>4, <3>5
    <3>7. \A c \in Sessions : c # s /\ UserOf[c] = u /\ c # q[1] => ~IsOpen(c) /\ c \notin index
      BY <1>3, <1>6, <2>2, <3>3
    <3> HIDE DEF q
    <3>8. QED
      BY <1>1, <1>2, <1>3, <1>4, <2>1, <2>3, <3>2, <3>3, <3>4, <3>5, <3>6, <3>7
  <2>4. CASE ~HasNext(it)
    <3>1. Len(q) = 0
      BY <1>4, <2>1, <2>4
    <3>2. members[u] = {}
      BY <1>3, <3>1, Empty
    <3>3. \A c \in Sessions : c # s /\ UserOf[c] = u => ~IsOpen(c) /\ c \notin index
      BY <1>6, <2>2, <3>2
    <3>4. QED
      BY <1>1, <1>2, <1>4, <2>4, <3>3
  <2>5. QED
    BY <2>3, <2>4
<1>9. QED
  BY <1>7, <1>8

(* The eviction goes to the next session: there is at most one. *)
LEMMA EvictNextKeeps ==
    ASSUME TInv, OInv, SInv, Serialized, NEW s \in Sessions, EvictNext(s)
    PROVE  SInv'
<1> DEFINE u == UserOf[s]
           it == opener[s].it
           e == Element(it)
<1>1. /\ opener[s].at = "evictNext" /\ MayGoOn
      /\ UNCHANGED <<multi, closer, notice>>
  BY EvictNextWent
<1>2. Opening(s) /\ ~multi
  BY <1>1 DEF Opening, SInv, OpenerInv
<1>3. /\ ~Changed(it)
      /\ HasNext(it) => /\ it.cursor = 0 /\ e # s /\ e \in Sessions /\ IsOpen(e)
                        /\ \A c \in Sessions : c # s /\ UserOf[c] = u /\ c # e
                               => ~IsOpen(c) /\ c \notin index
      /\ ~HasNext(it) =>
            \A c \in Sessions : c # s /\ UserOf[c] = u => ~IsOpen(c) /\ c \notin index
  BY <1>1, Evictee
<1>4. HasNext(it) => Usable(it)
  BY <1>3 DEF Usable
<1>5. \A c \in Sessions : c # s => opener[c].at \in {"none", "done"}
  BY <1>1, <1>2, OnlyOpener
<1>6. ASSUME NEW c \in Sessions, NEW d \in Sessions,
             c # d, UserOf[c] = UserOf[d], IsOpen(c), IsOpen(d)
      PROVE  c = s \/ d = s
  <2>1. PICK t \in {c, d} : opener[t].at \in {"evict", "evictNext", "evictClose"}
    BY <1>2, <1>6 DEF SInv, OneInv
  <2>2. QED
    BY <1>5, <2>1
<1> HIDE DEF e
<1>7. CASE /\ HasNext(it)
           /\ opener'[s].at = "evictClose" /\ opener'[s].it = opener[s].it
           /\ \A t \in Sessions : t # s => opener'[t] = opener[t]
           /\ index' = index \ {e}
           /\ UNCHANGED <<conn, byUser, list>>
  <2>1. Mutex' /\ CloserInv' /\ NoticeInv'
    BY <1>1, <1>2, <1>7, OpenerKeeps
  <2>2. ListsInv' /\ MembersInv' /\ IndexInv'
    <3>1. ~EvictedAll(s)
      BY <1>1, <1>3, <1>7 DEF EvictedAll
    <3>2. opener[s].at \notin {"add", "index"} /\ opener'[s].at \notin {"none", "index", "done"}
      BY <1>1, <1>7
    <3>3. QED
      BY <1>1, <1>2, <1>7, <3>1, <3>2, OpenerKeepsLists
  <2>3. OpenerInv'
    BY <1>1, <1>3, <1>7 DEF SInv, OpenerInv, Opening, IsOpen
  <2>4. AloneInv'
    BY <1>3, <1>5, <1>7 DEF AloneInv, EvictedAll, IsOpen
  <2>5. OneInv'
    BY <1>6, <1>7 DEF OneInv, IsOpen
  <2>6. QED
    BY <2>1, <2>2, <2>3, <2>4, <2>5 DEF SInv
<1>8. CASE /\ ~HasNext(it)
           /\ opener'[s].at = "evictLast" /\ opener'[s].it = opener[s].it
           /\ \A t \in Sessions : t # s => opener'[t] = opener[t]
           /\ UNCHANGED <<conn, byUser, list, index>>
  <2>1. Mutex' /\ CloserInv' /\ NoticeInv'
    BY <1>1, <1>2, <1>8, OpenerKeeps
  <2>2. ListsInv' /\ MembersInv' /\ IndexInv'
    <3>1. EvictedAll(s)'
      BY <1>8 DEF EvictedAll
    <3>2. opener[s].at \notin {"add", "index"} /\ opener'[s].at \notin {"none", "index", "done"}
      BY <1>1, <1>8
    <3>3. QED
      BY <1>1, <1>2, <1>8, <3>1, <3>2, OpenerKeepsLists
  <2>3. OpenerInv'
    BY <1>1, <1>8 DEF SInv, OpenerInv, Opening, IsOpen
  <2>4. AloneInv'
    BY <1>3, <1>5, <1>8 DEF AloneInv, EvictedAll, IsOpen
  <2>5. OneInv'
    BY <1>3, <1>6, <1>8 DEF OneInv, IsOpen
  <2>6. QED
    BY <2>1, <2>2, <2>3, <2>4, <2>5 DEF SInv
<1>9. QED
  BY <1>4, <1>7, <1>8, EvictNextWent DEF e

(* The evicted session is closed, and its onClose will find nothing to do. *)
LEMMA EvictCloseKeeps ==
    ASSUME TInv, OInv, SInv, Serialized, NEW s \in Sessions, EvictClose(s)
    PROVE  SInv'
<1> DEFINE u == UserOf[s]
           it == opener[s].it
<1>1. PICK e : e = Element(it)
  OBVIOUS
<1>2. /\ opener[s].at = "evictClose" /\ MayGoOn /\ it.cursor # Len(it.was.items)
      /\ e \in Sessions
      /\ IsOpen(e) => conn'[e] = "closed"
      /\ \A t \in Sessions : t # e => conn'[t] = conn[t]
      /\ \/ /\ opener'[s].at = "evictNext"
            /\ opener'[s].it.list = it.list
            /\ opener'[s].it.was = it.was
            /\ opener'[s].it.cursor = it.cursor + 1
         \/ opener'[s].at = "evictLast" /\ opener'[s].it = it
      /\ \A t \in Sessions : t # s => opener'[t] = opener[t]
      /\ UNCHANGED <<multi, byUser, list, index, closer, notice>>
  BY <1>1, EvictCloseWent
<1>3. Opening(s) /\ ~multi /\ it.cursor = 0 /\ u \in Users
  BY <1>2, Facts DEF Opening, SInv, OpenerInv
<1>4. /\ ~Changed(it)
      /\ HasNext(it) => /\ e # s /\ UserOf[e] = u /\ opener[e].at = "done" /\ IsOpen(e)
                        /\ \A c \in Sessions : c # s /\ UserOf[c] = u /\ c # e
                               => ~IsOpen(c) /\ c \notin index
  BY <1>1, <1>2, Evictee
<1>5. HasNext(it)
  BY <1>2, <1>4 DEF Changed, HasNext
<1>6. EvictedAll(s)'
  BY <1>2, <1>3 DEF EvictedAll
<1>7. e \notin index
  BY <1>2, <1>3, <1>4, <1>5 DEF SInv, AloneInv
<1>8. /\ IsOpen(s) /\ s \notin index /\ notice.at # "next"
      /\ \A c \in Sessions :
            /\ ~Ending(c) /\ closer[c].at \in {"none", "done"}
            /\ conn[c] = "closed" => closer[c].at = "done"
            /\ c # s => opener[c].at \in {"none", "done"}
  BY <1>2, <1>3, OnlyOpener
<1>9. closer[e].at = "none" /\ conn'[e] = "closed" /\ ~IsOpen(e)' /\ conn'[s] = conn[s]
  BY <1>2, <1>4, <1>5, Together DEF IsOpen
<1> HIDE DEF it, u
<1>10. Mutex'
  <2>1. \A c \in Sessions : Ending(c)' => c = e
    BY <1>2, <1>8 DEF Ending, Closing, AwaitsOnClose
  <2>2. \A c \in Sessions : Opening(c)' => c = s
    BY <1>2, <1>8 DEF Opening
  <2>3. ~Closing(e)'
    BY <1>2, <1>9 DEF Closing
  <2>4. QED
    BY <1>2, <1>6, <1>7, <1>8, <2>1, <2>2, <2>3 DEF Mutex
<1>11. CloserInv' /\ NoticeInv'
  BY <1>2, <1>8 DEF CloserInv, NoticeInv, Closing
<1>12. members' = members /\ \A v \in Users : members[v] \subseteq Sessions
  BY <1>2, MembersSame, MembersAre
<1>13. ListsInv'
  <2> SUFFICES ASSUME NEW v \in Users, byUser[v] # NoList
               PROVE  /\ UserOf[byUser[v]] = v
                      /\ opener'[byUser[v]].at \in {"add", "index", "done"}
                      /\ IsInjective(list[byUser[v]].items)
                      /\ \/ members[v] # {}
                         \/ \E c \in Sessions : UserOf[c] = v /\ closer[c].at \in {"ifEmpty", "removeUser"}
                         \/ \E t \in Sessions : UserOf[t] = v /\ opener'[t].at = "add"
    BY <1>2, <1>12 DEF ListsInv
  <2>1. /\ UserOf[byUser[v]] = v /\ byUser[v] \in Sessions
        /\ opener[byUser[v]].at \in {"add", "index", "done"}
        /\ IsInjective(list[byUser[v]].items)
        /\ \/ members[v] # {}
           \/ \E c \in Sessions : UserOf[c] = v /\ closer[c].at \in {"ifEmpty", "removeUser"}
           \/ \E t \in Sessions : UserOf[t] = v /\ opener[t].at = "add"
    BY DEF SInv, ListsInv, TInv, MapsOK
  <2>2. \A t \in Sessions : opener[t].at # "add"
    BY <1>2, <1>8
  <2>3. QED
    BY <1>2, <2>1, <2>2
<1>14. MembersInv'
  <2>1. ASSUME NEW v \in Users, NEW c \in members[v]
        PROVE  UserOf[c] = v /\ opener'[c].at \in {"index", "done"}
    <3>1. UserOf[c] = v /\ opener[c].at \in {"index", "done"} /\ c \in Sessions
      BY <1>12 DEF SInv, MembersInv
    <3>2. QED
      BY <1>2, <3>1
  <2>2. ASSUME NEW c \in Sessions, UserOf[c] # u
        PROVE  c \in members[UserOf[c]] <=> Present(c)'
    <3>1. \A t \in Sessions : EvictedAll(t) => t = s
      BY <1>8 DEF EvictedAll
    <3>2. c \in members[UserOf[c]] <=> Present(c)
      BY <2>2, <3>1 DEF SInv, MembersInv, u
    <3>3. c # e /\ c # s
      BY <1>4, <1>5, <2>2 DEF u
    <3>4. Present(c) <=> Present(c)'
      BY <1>2, <3>3 DEF Present, IsOpen
    <3>5. QED
      BY <3>2, <3>4
  <2>3. QED
    BY <1>6, <1>12, <2>1, <2>2 DEF MembersInv, u
<1>15. IndexInv'
  <2>1. \A c \in index : c \in Sessions /\ c # e /\ c # s
    BY <1>7, <1>8 DEF TInv, MapsOK
  <2>2. QED
    BY <1>2, <2>1 DEF SInv, IndexInv, IsOpen
<1>16. OpenerInv'
  <2>1. IsOpen(s)' /\ opener'[e] = opener[e] /\ opener[e].at = "done"
    BY <1>2, <1>4, <1>5, <1>8, <1>9 DEF IsOpen
  <2>2. \A t \in Sessions : t # s /\ t # e => (IsOpen(t)' <=> IsOpen(t)) /\ opener'[t] = opener[t]
                                            /\ conn'[t] = conn[t]
    BY <1>2 DEF IsOpen
  <2>3. \A t \in Sessions : t # s => opener'[t].at \in {"none", "done"}
    BY <1>2, <1>8
  <2>4. /\ it.list = byUser[u] /\ it.was = list[byUser[u]] /\ Len(it.was.items) <= 1
        /\ list[s].items = <<>>
    BY <1>2 DEF SInv, OpenerInv, it, u
  <2>5. ASSUME NEW t \in Sessions, t # s
        PROVE  /\ ~Opening(t)'
               /\ opener'[t].at = "none" => conn'[t] = "none"
               /\ opener'[t].at \notin {"add", "index", "done"} => list[t].items = <<>>
    BY <2>1, <2>2, <2>3, <2>5 DEF Opening, SInv, OpenerInv
  <2>6. ASSUME NEW t \in Sessions
        PROVE  /\ Opening(t)' => IsOpen(t)' /\ t \notin index
               /\ opener'[t].at = "none" => conn'[t] = "none"
               /\ opener'[t].at \notin {"add", "index", "done"} => list[t].items = <<>>
               /\ opener'[t].at \in {"evict", "evictNext", "evictClose", "evictLast"} => ~multi
               /\ opener'[t].at \notin {"put", "add", "evictClose"}
               /\ opener'[t].at = "evictNext" =>
                     /\ opener'[t].it.list = byUser[UserOf[t]]
                     /\ opener'[t].it.was = list[byUser[UserOf[t]]]
                     /\ Len(opener'[t].it.was.items) <= 1
    <3>1. CASE t = s
      BY <1>2, <1>3, <1>8, <2>1, <2>4, <3>1 DEF u
    <3>2. CASE t # s
      BY <2>3, <2>5, <3>2
    <3>3. QED
      BY <3>1, <3>2
  <2>7. QED
    BY <1>2, <2>6 DEF OpenerInv
<1>17. AloneInv'
  <2>1. ASSUME NEW t \in Sessions, NEW c \in Sessions, t # c, UserOf[t] = UserOf[c], t = s
        PROVE  c \notin index /\ ~IsOpen(c)'
    <3>1. CASE c = e
      BY <1>7, <1>9, <3>1
    <3>2. CASE c # e
      BY <1>2, <1>4, <1>5, <2>1, <3>2 DEF IsOpen, u
    <3>3. QED
      BY <3>1, <3>2
  <2>2. \A t \in Sessions : t # s => opener'[t].at \in {"none", "done"}
    BY <1>2, <1>8
  <2>3. QED
    BY <1>2, <2>1, <2>2 DEF AloneInv, EvictedAll
<1>18. OneInv'
  <2>1. ASSUME NEW c \in Sessions, NEW d \in Sessions,
               c # d, UserOf[c] = UserOf[d], IsOpen(c)', IsOpen(d)'
        PROVE  FALSE
    <3>1. c # e /\ d # e
      BY <1>9, <2>1
    <3>2. IsOpen(c) /\ IsOpen(d)
      BY <1>2, <2>1, <3>1 DEF IsOpen
    <3>3. PICK t \in {c, d} : opener[t].at \in {"evict", "evictNext", "evictClose"}
      BY <1>3, <2>1, <3>2 DEF SInv, OneInv
    <3>4. t = s
      BY <1>8, <3>3
    <3>5. QED
      BY <1>4, <1>5, <2>1, <3>1, <3>2, <3>4 DEF u
  <2>2. QED
    BY <2>1 DEF OneInv
<1>19. QED
  BY <1>10, <1>11, <1>13, <1>14, <1>15, <1>16, <1>17, <1>18 DEF SInv

(* After the eviction: no other session of the user is left. *)
LEMMA NobodyElse ==
    ASSUME TInv, OInv, SInv, Serialized, NEW s \in Sessions, MayGoOn, Opening(s),
           opener[s].at \notin {"evict", "evictNext", "evictClose"}
    PROVE  /\ \A c \in Sessions : c # s => opener[c].at \in {"none", "done"}
           /\ ~multi => \A c, d \in Sessions :
                 c # d /\ UserOf[c] = UserOf[d] => ~IsOpen(c) \/ ~IsOpen(d)
           /\ ~multi => \A c \in Sessions :
                 c # s /\ UserOf[c] = UserOf[s] => ~IsOpen(c) /\ c \notin index
<1>1. \A c \in Sessions : /\ c # s => opener[c].at \in {"none", "done"}
                          /\ c \in index => IsOpen(c)
  BY OnlyOpener
<1>2. opener[s].at \in {"get", "put", "add", "index"} \/ EvictedAll(s)
  BY DEF Opening, EvictedAll, TInv, OpenersOK, Openers, OpenAts
<1>3. ASSUME ~multi, NEW c \in Sessions, NEW d \in Sessions, c # d, UserOf[c] = UserOf[d],
             IsOpen(c), IsOpen(d)
      PROVE  FALSE
  <2>1. PICK t \in {c, d} : opener[t].at \in {"evict", "evictNext", "evictClose"}
    BY <1>3 DEF SInv, OneInv
  <2>2. QED
    BY <1>1, <2>1
<1>4. ~multi => \A c \in Sessions :
          c # s /\ UserOf[c] = UserOf[s] => ~IsOpen(c) /\ c \notin index
  BY <1>1, <1>2 DEF SInv, AloneInv
<1>5. QED
  BY <1>1, <1>3, <1>4

(* Once the eviction is over, what is said of a user's only session goes   *)
(* on to hold.                                                             *)
LEMMA StaysAlone ==
    ASSUME TInv, OInv, SInv, Serialized, NEW s \in Sessions, MayGoOn, Opening(s),
           opener[s].at \notin {"evict", "evictNext", "evictClose"},
           \A t \in Sessions : t # s => opener'[t] = opener[t],
           \A c \in index' : c = s \/ c \in index,
           UNCHANGED <<multi, conn>>
    PROVE  AloneInv' /\ OneInv'
<1>1. /\ \A c \in Sessions : c # s => opener[c].at \in {"none", "done"}
      /\ ~multi => \A c, d \in Sessions :
            c # d /\ UserOf[c] = UserOf[d] => ~IsOpen(c) \/ ~IsOpen(d)
      /\ ~multi => \A c \in Sessions :
            c # s /\ UserOf[c] = UserOf[s] => ~IsOpen(c) /\ c \notin index
  BY NobodyElse
<1>2. \A t \in Sessions : t # s => opener'[t].at \in {"none", "done"}
  BY <1>1
<1>3. AloneInv'
  BY <1>1, <1>2 DEF AloneInv, EvictedAll, IsOpen
<1>4. OneInv'
  BY <1>1 DEF OneInv, IsOpen
<1>5. QED
  BY <1>3, <1>4

(* What a list says of its user stays true if it is left alone. *)
LEMMA ListStays ==
    ASSUME TInv, OInv, SInv, Serialized, NEW s \in Sessions, MayGoOn, Opening(s),
           \A t \in Sessions : t # s => opener'[t] = opener[t],
           opener[s].at = "index" => opener'[s].at = "done",
           NEW v \in Users, byUser[v] # NoList, members[v] # {} \/ UserOf[s] # v
    PROVE  /\ UserOf[byUser[v]] = v /\ byUser[v] \in Sessions
           /\ opener[s].at # "add" => opener'[byUser[v]].at \in {"add", "index", "done"}
           /\ byUser[v] # s => opener'[byUser[v]].at \in {"add", "index", "done"}
           /\ IsInjective(list[byUser[v]].items)
           /\ members[v] # {}
<1>1. /\ UserOf[byUser[v]] = v /\ byUser[v] \in Sessions
      /\ opener[byUser[v]].at \in {"add", "index", "done"}
      /\ IsInjective(list[byUser[v]].items)
      /\ \/ members[v] # {}
         \/ \E c \in Sessions : UserOf[c] = v /\ closer[c].at \in {"ifEmpty", "removeUser"}
         \/ \E t \in Sessions : UserOf[t] = v /\ opener[t].at = "add"
  BY DEF SInv, ListsInv, TInv, MapsOK
<1>2. \A c \in Sessions : /\ closer[c].at \in {"none", "done"}
                          /\ c # s => opener[c].at \in {"none", "done"}
  BY OnlyOpener
<1>3. members[v] # {}
  BY <1>1, <1>2
<1>4. opener[s].at # "done"
  BY DEF Opening
<1>5. QED
  BY <1>1, <1>3, <1>4

(* The list goes once its sessions have been closed. *)
LEMMA EvictLastKeeps ==
    ASSUME TInv, OInv, SInv, Serialized, NEW s \in Sessions, EvictLast(s)
    PROVE  SInv'
<1> DEFINE u == UserOf[s]
<1>1. /\ opener[s].at = "evictLast" /\ MayGoOn
      /\ opener'[s].at = "get"
      /\ \A t \in Sessions : t # s => opener'[t] = opener[t]
      /\ byUser'[u] = NoList
      /\ \A v \in Users : v # u => byUser'[v] = byUser[v]
      /\ UNCHANGED <<multi, conn, list, index, closer, notice>>
  BY EvictLastWent
<1>2. Opening(s) /\ EvictedAll(s) /\ u \in Users /\ ~multi
  BY <1>1, Facts DEF Opening, EvictedAll, SInv, OpenerInv
<1>3. Mutex' /\ CloserInv' /\ NoticeInv'
  BY <1>1, <1>2, OpenerKeeps
<1>4. AloneInv' /\ OneInv'
  BY <1>1, <1>2, StaysAlone
<1>5. /\ \A c \in Sessions : c # s => opener[c].at \in {"none", "done"}
      /\ \A c \in Sessions : c # s /\ UserOf[c] = u => ~IsOpen(c) /\ c \notin index
  BY <1>1, <1>2, NobodyElse
<1>6. /\ members'[u] = {}
      /\ \A v \in Users : v # u => members'[v] = members[v]
      /\ \A v \in Users : members[v] \subseteq Sessions
  BY <1>1, <1>2, MembersAre DEF members, SessionsOf
<1>7. \A c \in index : c \in Sessions /\ c # s
  BY <1>1, <1>2, OnlyOpener DEF TInv, MapsOK
<1> HIDE DEF u
<1>8. ListsInv'
  <2> SUFFICES ASSUME NEW v \in Users, v # u, byUser[v] # NoList
               PROVE  /\ UserOf[byUser[v]] = v
                      /\ opener'[byUser[v]].at \in {"add", "index", "done"}
                      /\ IsInjective(list[byUser[v]].items)
                      /\ members[v] # {}
    BY <1>1, <1>6 DEF ListsInv
  <2>1. QED
    BY <1>1, <1>2, ListStays DEF u
<1>9. MembersInv'
  <2>1. ASSUME NEW v \in Users, NEW c \in members'[v]
        PROVE  UserOf[c] = v /\ opener'[c].at \in {"index", "done"}
    <3>1. c \in members[v] /\ c \in Sessions
      BY <1>6
    <3>2. UserOf[c] = v /\ opener[c].at \in {"index", "done"}
      BY <3>1 DEF SInv, MembersInv
    <3>3. QED
      BY <1>1, <3>1, <3>2
  <2>2. ASSUME NEW c \in Sessions PROVE c \in members'[UserOf[c]] <=> Present(c)'
    <3>1. CASE UserOf[c] = u
      <4>1. ~Present(c)'
        BY <1>1, <1>5, <3>1 DEF Present, IsOpen
      <4>2. QED
        BY <1>6, <3>1, <4>1
    <3>2. CASE UserOf[c] # u
      <4>1. \A t \in Sessions : EvictedAll(t) => t = s
        BY <1>5 DEF EvictedAll
      <4>2. c \in members[UserOf[c]] <=> Present(c)
        BY <3>2, <4>1 DEF SInv, MembersInv, u
      <4>3. c # s
        BY <3>2 DEF u
      <4>4. Present(c) <=> Present(c)'
        BY <1>1, <4>3 DEF Present, IsOpen
      <4>5. QED
        BY <1>6, <3>2, <4>2, <4>4, Facts
    <3>3. QED
      BY <3>1, <3>2
  <2>3. QED
    BY <2>1, <2>2 DEF MembersInv
<1>10. IndexInv'
  BY <1>1, <1>7 DEF SInv, IndexInv, IsOpen
<1>11. OpenerInv'
  <2>1. \A t \in Sessions : t # s => opener'[t].at \in {"none", "done"}
    BY <1>1, <1>5
  <2>2. ASSUME NEW t \in Sessions
        PROVE  /\ Opening(t)' => IsOpen(t)' /\ t \notin index
               /\ opener'[t].at = "none" => conn'[t] = "none"
               /\ opener'[t].at \notin {"add", "index", "done"} => list[t].items = <<>>
    BY <1>1, <2>1 DEF SInv, OpenerInv, Opening, IsOpen
  <2>3. QED
    BY <1>1, <2>1, <2>2 DEF OpenerInv
<1>12. QED
  BY <1>3, <1>4, <1>8, <1>9, <1>10, <1>11 DEF SInv

(* addSession knows whether the user has a list. *)
LEMMA AddGetKeeps ==
    ASSUME TInv, OInv, SInv, Serialized, NEW s \in Sessions, AddGet(s)
    PROVE  SInv'
<1>1. /\ opener[s].at = "get" /\ MayGoOn
      /\ opener'[s].at = IF byUser[UserOf[s]] = NoList THEN "put" ELSE "add"
      /\ \A t \in Sessions : t # s => opener'[t] = opener[t]
      /\ UNCHANGED <<multi, conn, byUser, list, index, closer, notice>>
  BY AddGetWent
<1>2. Opening(s) /\ ~EvictedAll(s)
  BY <1>1 DEF Opening, EvictedAll
<1>3. Mutex' /\ CloserInv' /\ NoticeInv'
  BY <1>1, <1>2, OpenerKeeps
<1>4. AloneInv' /\ OneInv'
  BY <1>1, <1>2, StaysAlone
<1>5. ListsInv' /\ MembersInv' /\ IndexInv'
  <2>1. opener'[s].at \notin {"none", "index", "done"} /\ opener[s].at \notin {"add", "index"}
    BY <1>1
  <2>2. QED
    BY <1>1, <1>2, <2>1, OpenerKeepsLists
<1>6. OpenerInv'
  BY <1>1 DEF SInv, OpenerInv, Opening, IsOpen
<1>7. QED
  BY <1>3, <1>4, <1>5, <1>6 DEF SInv

(* A new list is for nobody else. *)
LEMMA AddPutKeeps ==
    ASSUME TInv, OInv, SInv, Serialized, NEW s \in Sessions, AddPut(s)
    PROVE  SInv'
<1> DEFINE u == UserOf[s]
<1>1. /\ opener[s].at = "put" /\ MayGoOn
      /\ opener'[s].at = "add"
      /\ \A t \in Sessions : t # s => opener'[t] = opener[t]
      /\ byUser'[u] = s
      /\ \A v \in Users : v # u => byUser'[v] = byUser[v]
      /\ UNCHANGED <<multi, conn, list, index, closer, notice>>
  BY AddPutWent
<1>2. Opening(s) /\ ~EvictedAll(s) /\ u \in Users /\ s # NoList
  BY <1>1, Facts DEF Opening, EvictedAll
<1>3. byUser[u] = NoList /\ list[s].items = <<>>
  BY <1>1 DEF SInv, OpenerInv
<1>4. Mutex' /\ CloserInv' /\ NoticeInv'
  BY <1>1, <1>2, OpenerKeeps
<1>5. AloneInv' /\ OneInv'
  BY <1>1, <1>2, StaysAlone
<1>6. \A c \in Sessions : c # s => opener[c].at \in {"none", "done"}
  BY <1>1, <1>2, OnlyOpener
<1>7. members' = members /\ \A v \in Users : members[v] \subseteq Sessions
  <2>1. ToSet(<<>>) = {}
    BY DEF ToSet
  <2>2. \A v \in Users : SessionsOf(v)' = SessionsOf(v)
    BY <1>1, <1>2, <1>3, <2>1 DEF SessionsOf
  <2>3. QED
    BY <2>2, MembersAre DEF members
<1>8. \A c \in index : c \in Sessions /\ c # s
  BY <1>1, <1>2, OnlyOpener DEF TInv, MapsOK
<1> HIDE DEF u
<1>9. ListsInv'
  <2>1. /\ UserOf[s] = u /\ opener'[s].at \in {"add", "index", "done"}
        /\ IsInjective(list[s].items)
        /\ \E t \in Sessions : UserOf[t] = u /\ opener'[t].at = "add"
    BY <1>1, <1>3 DEF IsInjective, u
  <2>2. ASSUME NEW v \in Users, v # u, byUser[v] # NoList
        PROVE  /\ UserOf[byUser[v]] = v
               /\ opener'[byUser[v]].at \in {"add", "index", "done"}
               /\ IsInjective(list[byUser[v]].items)
               /\ members[v] # {}
    BY <1>1, <1>2, <2>2, ListStays DEF u
  <2>3. QED
    BY <1>1, <1>7, <2>1, <2>2 DEF ListsInv
<1>10. MembersInv'
  <2>1. ASSUME NEW v \in Users, NEW c \in members[v]
        PROVE  UserOf[c] = v /\ opener'[c].at \in {"index", "done"}
    <3>1. UserOf[c] = v /\ opener[c].at \in {"index", "done"} /\ c \in Sessions
      BY <1>7 DEF SInv, MembersInv
    <3>2. QED
      BY <1>1, <3>1
  <2>2. ASSUME NEW c \in Sessions PROVE c \in members[UserOf[c]] <=> Present(c)'
    <3>1. \A t \in Sessions : ~EvictedAll(t)
      BY <1>2, <1>6 DEF EvictedAll
    <3>2. c \in members[UserOf[c]] <=> Present(c)
      BY <3>1 DEF SInv, MembersInv
    <3>3. Present(c) <=> Present(c)'
      BY <1>1 DEF Present, IsOpen
    <3>4. QED
      BY <3>2, <3>3
  <2>3. QED
    BY <1>7, <2>1, <2>2 DEF MembersInv
<1>11. IndexInv'
  BY <1>1, <1>8 DEF SInv, IndexInv, IsOpen
<1>12. OpenerInv'
  <2>1. \A t \in Sessions : t # s => opener'[t].at \in {"none", "done"}
    BY <1>1, <1>6
  <2>2. ASSUME NEW t \in Sessions
        PROVE  /\ Opening(t)' => IsOpen(t)' /\ t \notin index
               /\ opener'[t].at = "none" => conn'[t] = "none"
               /\ opener'[t].at \notin {"add", "index", "done"} => list[t].items = <<>>
    BY <1>1, <2>1 DEF SInv, OpenerInv, Opening, IsOpen
  <2>3. QED
    BY <1>1, <1>2, <2>1, <2>2 DEF OpenerInv, u
<1>13. QED
  BY <1>4, <1>5, <1>9, <1>10, <1>11, <1>12 DEF SInv

(* The session becomes the only new member of the list. *)
LEMMA AddSessionKeeps ==
    ASSUME TInv, OInv, SInv, Serialized, NEW s \in Sessions, AddSession(s)
    PROVE  SInv'
<1> DEFINE u == UserOf[s]
<1>1. PICK l : l = byUser[u]
  OBVIOUS
<1>2. /\ opener[s].at = "add" /\ MayGoOn /\ l # NoList
      /\ l \in Sessions
      /\ list'[l].items = Append(list[l].items, s)
      /\ \A t \in Sessions : t # l => list'[t] = list[t]
      /\ opener'[s].at = "index"
      /\ \A t \in Sessions : t # s => opener'[t] = opener[t]
      /\ UNCHANGED <<multi, conn, byUser, index, closer, notice>>
  <2>1. opener[s].at = "add"
    BY <1>1, AddSessionWent
  <2>2. l # NoList
    BY <1>1, <2>1 DEF SInv, OpenerInv
  <2>3. /\ MayGoOn /\ UNCHANGED <<multi, closer, notice>>
        /\ \/ l = NoList /\ OpenFails(s)
           \/ /\ l \in Sessions
              /\ list'[l].items = Append(list[l].items, s)
              /\ \A t \in Sessions : t # l => list'[t] = list[t]
              /\ opener'[s].at = "index"
              /\ \A t \in Sessions : t # s => opener'[t] = opener[t]
              /\ UNCHANGED <<conn, byUser, index>>
    BY <1>1, AddSessionWent
  <2>4. QED
    BY <2>1, <2>2, <2>3
<1>3. Opening(s) /\ ~EvictedAll(s) /\ u \in Users
  BY <1>2, Facts DEF Opening, EvictedAll
<1>4. Mutex' /\ CloserInv' /\ NoticeInv'
  BY <1>2, <1>3, OpenerKeeps
<1>5. AloneInv' /\ OneInv'
  BY <1>2, <1>3, StaysAlone
<1>6. /\ IsOpen(s)
      /\ \A c \in Sessions : c # s => opener[c].at \in {"none", "done"}
  BY <1>2, <1>3, OnlyOpener
<1>7. /\ list[l].items \in Seq(Sessions) /\ members[u] = ToSet(list[l].items)
      /\ members[u] \subseteq Sessions
      /\ UserOf[l] = u /\ opener[l].at \in {"add", "index", "done"}
      /\ IsInjective(list[l].items)
  BY <1>1, <1>2, <1>3, MembersAre DEF SInv, ListsInv
<1>8. s \notin members[u]
  BY <1>2, <1>3 DEF SInv, MembersInv
<1>9. ToSet(list'[l].items) = members[u] \cup {s} /\ IsInjective(list'[l].items)
  BY <1>2, <1>7, <1>8, Appended
<1>10. \A v \in Users : v # u /\ byUser[v] # NoList => byUser[v] # l /\ byUser[v] \in Sessions
  BY <1>7 DEF SInv, ListsInv, TInv, MapsOK
<1>11. /\ members'[u] = members[u] \cup {s}
       /\ \A v \in Users : v # u => members'[v] = members[v]
       /\ \A v \in Users : members[v] \subseteq Sessions
  <2>1. SessionsOf(u)' = members[u] \cup {s}
    BY <1>1, <1>2, <1>9 DEF SessionsOf
  <2>2. \A v \in Users : v # u => SessionsOf(v)' = SessionsOf(v)
    BY <1>2, <1>10 DEF SessionsOf
  <2>3. QED
    BY <1>3, <2>1, <2>2, MembersAre DEF members
<1>12. \A c \in index : c \in Sessions /\ c # s
  BY <1>2, <1>3, OnlyOpener DEF TInv, MapsOK
<1> HIDE DEF u
<1>13. ListsInv'
  <2>1. /\ UserOf[l] = u /\ opener'[l].at \in {"add", "index", "done"}
        /\ IsInjective(list'[l].items) /\ members'[u] # {}
    BY <1>2, <1>7, <1>9, <1>11
  <2>2. ASSUME NEW v \in Users, v # u, byUser[v] # NoList
        PROVE  /\ UserOf[byUser[v]] = v
               /\ opener'[byUser[v]].at \in {"add", "index", "done"}
               /\ IsInjective(list'[byUser[v]].items)
               /\ members'[v] # {}
    <3>1. byUser[v] # l /\ byUser[v] \in Sessions
      BY <1>10, <2>2
    <3>2. /\ UserOf[byUser[v]] = v /\ IsInjective(list[byUser[v]].items) /\ members[v] # {}
          /\ byUser[v] # s => opener'[byUser[v]].at \in {"add", "index", "done"}
      BY <1>2, <1>3, <2>2, ListStays DEF u
    <3>3. byUser[v] # s
      BY <2>2, <3>2 DEF u
    <3>4. QED
      BY <1>2, <1>11, <2>2, <3>1, <3>2, <3>3
  <2>3. QED
    BY <1>1, <1>2, <2>1, <2>2 DEF ListsInv, u
<1>14. MembersInv'
  <2>1. ASSUME NEW v \in Users, NEW c \in members'[v]
        PROVE  UserOf[c] = v /\ opener'[c].at \in {"index", "done"}
    <3>1. CASE c = s /\ v = u
      BY <1>2, <3>1 DEF u
    <3>2. CASE c \in members[v]
      <4>1. UserOf[c] = v /\ opener[c].at \in {"index", "done"} /\ c \in Sessions
        BY <1>11, <3>2 DEF SInv, MembersInv
      <4>2. QED
        BY <1>2, <4>1
    <3>3. QED
      BY <1>11, <2>1, <3>1, <3>2
  <2>2. ASSUME NEW c \in Sessions PROVE c \in members'[UserOf[c]] <=> Present(c)'
    <3>1. \A t \in Sessions : ~EvictedAll(t)
      BY <1>3, <1>6 DEF EvictedAll
    <3>2. c \in members[UserOf[c]] <=> Present(c)
      BY <3>1 DEF SInv, MembersInv
    <3>3. CASE c = s
      BY <1>2, <1>6, <1>11, <3>3 DEF Present, IsOpen, u
    <3>4. CASE c # s
      <4>1. Present(c) <=> Present(c)'
        BY <1>2, <3>4 DEF Present, IsOpen
      <4>2. c \in members'[UserOf[c]] <=> c \in members[UserOf[c]]
        BY <1>11, <3>4, Facts
      <4>3. QED
        BY <3>2, <4>1, <4>2
    <3>5. QED
      BY <3>3, <3>4
  <2>3. QED
    BY <2>1, <2>2 DEF MembersInv
<1>15. IndexInv'
  BY <1>2, <1>12 DEF SInv, IndexInv, IsOpen
<1>16. OpenerInv'
  <2>1. \A t \in Sessions : t # s => opener'[t].at \in {"none", "done"}
    BY <1>2, <1>6
  <2>2. ASSUME NEW t \in Sessions
        PROVE  /\ Opening(t)' => IsOpen(t)' /\ t \notin index
               /\ opener'[t].at = "none" => conn'[t] = "none"
    BY <1>2, <2>1 DEF SInv, OpenerInv, Opening, IsOpen
  <2>3. ASSUME NEW t \in Sessions, opener'[t].at \notin {"add", "index", "done"}
        PROVE  list'[t].items = <<>>
    <3>1. t # s
      BY <1>2, <2>3
    <3>2. opener[t].at \notin {"add", "index", "done"}
      BY <1>2, <2>3, <3>1
    <3>3. t # l
      BY <1>7, <3>2
    <3>4. list[t].items = <<>>
      BY <3>2 DEF SInv, OpenerInv
    <3>5. QED
      BY <1>2, <3>3, <3>4
  <2>4. QED
    BY <1>2, <2>1, <2>2, <2>3 DEF OpenerInv
<1>17. QED
  BY <1>4, <1>5, <1>13, <1>14, <1>15, <1>16 DEF SInv

(* List and index agree again. *)
LEMMA AddIndexKeeps ==
    ASSUME TInv, OInv, SInv, Serialized, NEW s \in Sessions, AddIndex(s)
    PROVE  SInv'
<1>1. /\ opener[s].at = "index" /\ MayGoOn
      /\ opener'[s].at = "done" /\ index' = index \cup {s}
      /\ \A t \in Sessions : t # s => opener'[t] = opener[t]
      /\ UNCHANGED <<multi, conn, byUser, list, closer, notice>>
  BY AddIndexWent
<1>2. Opening(s) /\ ~EvictedAll(s) /\ UserOf[s] \in Users
  BY <1>1, Facts DEF Opening, EvictedAll
<1>3. Mutex' /\ CloserInv' /\ NoticeInv'
  BY <1>1, <1>2, OpenerKeeps
<1>4. AloneInv' /\ OneInv'
  BY <1>1, <1>2, StaysAlone
<1>5. /\ IsOpen(s) /\ s \notin index
      /\ \A c \in Sessions : /\ c # s => opener[c].at \in {"none", "done"}
                             /\ c \in index => IsOpen(c) /\ opener[c].at = "done"
                             /\ closer[c].at \in {"none", "done"}
  BY <1>1, <1>2, OnlyOpener
<1>6. members' = members /\ \A v \in Users : members[v] \subseteq Sessions
  BY <1>1, MembersSame, MembersAre
<1>7. \A t \in Sessions : ~EvictedAll(t)
  BY <1>2, <1>5 DEF EvictedAll
<1>8. s \in members[UserOf[s]]
  BY <1>1, <1>5, <1>7 DEF SInv, MembersInv, Present
<1>9. ListsInv'
  <2> SUFFICES ASSUME NEW v \in Users, byUser[v] # NoList
               PROVE  /\ UserOf[byUser[v]] = v
                      /\ opener'[byUser[v]].at \in {"add", "index", "done"}
                      /\ IsInjective(list[byUser[v]].items)
                      /\ members[v] # {}
    BY <1>1, <1>6 DEF ListsInv
  <2>1. members[v] # {} \/ UserOf[s] # v
    BY <1>8
  <2>2. QED
    BY <1>1, <1>2, <2>1, ListStays
<1>10. MembersInv'
  <2>1. ASSUME NEW v \in Users, NEW c \in members[v]
        PROVE  UserOf[c] = v /\ opener'[c].at \in {"index", "done"}
    <3>1. UserOf[c] = v /\ opener[c].at \in {"index", "done"} /\ c \in Sessions
      BY <1>6 DEF SInv, MembersInv
    <3>2. QED
      BY <1>1, <3>1
  <2>2. ASSUME NEW c \in Sessions PROVE c \in members[UserOf[c]] <=> Present(c)'
    <3>1. c \in members[UserOf[c]] <=> Present(c)
      BY <1>7 DEF SInv, MembersInv
    <3>2. Present(c) <=> Present(c)'
      BY <1>1, <1>5 DEF Present, IsOpen
    <3>3. QED
      BY <3>1, <3>2
  <2>3. QED
    BY <1>6, <2>1, <2>2 DEF MembersInv
<1>11. IndexInv'
  <2>1. \A c \in index : c \in Sessions
    BY DEF TInv, MapsOK
  <2>2. QED
    BY <1>1, <1>5, <2>1 DEF IndexInv, IsOpen
<1>12. OpenerInv'
  <2>1. \A t \in Sessions : opener'[t].at \in {"none", "done"}
    BY <1>1, <1>5
  <2>2. \A t \in Sessions :
          /\ opener'[t].at = "none" => conn'[t] = "none"
          /\ opener'[t].at \notin {"add", "index", "done"} => list[t].items = <<>>
    BY <1>1 DEF SInv, OpenerInv
  <2>3. QED
    BY <1>1, <2>1, <2>2 DEF OpenerInv, Opening
<1>13. QED
  BY <1>3, <1>4, <1>9, <1>10, <1>11, <1>12 DEF SInv

(* An onClose that removes a session is the only callback that runs. *)
LEMMA OnlyCloser ==
    ASSUME TInv, OInv, SInv, Serialized, NEW s \in Sessions, Closing(s)
    PROVE  /\ notice.at # "next" /\ s \in index /\ conn[s] = "closed" /\ opener[s].at = "done"
           /\ \A c \in Sessions :
                 /\ opener[c].at \in {"none", "done"}
                 /\ c # s => ~Ending(c) /\ closer[c].at \in {"none", "done"}
                 /\ c \in members[UserOf[c]] <=> Present(c)
<1>1. Ending(s) /\ s \in index /\ conn[s] = "closed" /\ opener[s].at = "done"
  BY Together DEF Ending, Closing, SInv, CloserInv
<1>2. \A c \in Sessions : opener[c].at \in {"none", "done"}
  BY <1>1 DEF SInv, Mutex, Opening
<1>3. \A c \in Sessions : ~EvictedAll(c)
  BY <1>2 DEF EvictedAll
<1>4. \A c \in Sessions : c # s => ~Ending(c)
  BY <1>1 DEF SInv, Mutex
<1>5. \A c \in Sessions : c # s => closer[c].at \in {"none", "done"}
  BY <1>4 DEF Ending, Closing
<1>6. \A c \in Sessions : c \in members[UserOf[c]] <=> Present(c)
  BY <1>3 DEF SInv, MembersInv
<1>7. notice.at # "next"
  BY <1>1 DEF SInv, Mutex
<1>8. QED
  BY <1>1, <1>2, <1>4, <1>5, <1>6, <1>7

(* It keeps what is said of onOpen. *)
LEMMA CloserKeeps ==
    ASSUME TInv, OInv, SInv, Serialized, NEW s \in Sessions, Closing(s),
           \A t \in Sessions : t # s => closer'[t] = closer[t],
           closer'[s].at # "none",
           \A t \in Sessions : opener[t].at = "none" => list'[t] = list[t],
           UNCHANGED <<multi, conn, opener, notice>>
    PROVE  Mutex' /\ OpenerInv' /\ AloneInv' /\ OneInv' /\ NoticeInv'
<1>1. /\ notice.at # "next" /\ conn[s] = "closed"
      /\ \A c \in Sessions : /\ opener[c].at \in {"none", "done"}
                             /\ c # s => ~Ending(c)
  BY OnlyCloser
<1>2. \A c \in Sessions : c # s => ~Ending(c)'
  BY <1>1 DEF Ending, Closing, AwaitsOnClose
<1>3. \A c \in Sessions : ~Opening(c)'
  BY <1>1 DEF Opening
<1>4. Mutex' /\ NoticeInv'
  BY <1>1, <1>2, <1>3 DEF Mutex, NoticeInv
<1>5. AloneInv'
  BY <1>1 DEF AloneInv, EvictedAll
<1>6. OneInv'
  BY DEF SInv, OneInv, IsOpen
<1>7. OpenerInv'
  <2>1. \A t \in Sessions :
          /\ opener[t].at = "none" => conn[t] = "none"
          /\ opener[t].at \notin {"add", "index", "done"} => list[t].items = <<>>
    BY DEF SInv, OpenerInv
  <2>2. ASSUME NEW t \in Sessions, opener[t].at \notin {"add", "index", "done"}
        PROVE  list'[t].items = <<>>
    BY <1>1, <2>1, <2>2
  <2>3. QED
    BY <1>1, <1>3, <2>1, <2>2 DEF OpenerInv
<1>8. QED
  BY <1>4, <1>5, <1>6, <1>7

(* onClose finds the list its session is in. *)
LEMMA RemoveGetKeeps ==
    ASSUME TInv, OInv, SInv, Serialized, NEW s \in Sessions, RemoveGet(s)
    PROVE  SInv'
<1> DEFINE u == UserOf[s]
<1>1. /\ closer[s].at = "get"
      /\ byUser[u] # NoList => closer'[s].at = "remove" /\ closer'[s].it.list = byUser[u]
      /\ \A t \in Sessions : t # s => closer'[t] = closer[t]
      /\ UNCHANGED <<multi, conn, byUser, list, index, opener, notice>>
  BY RemoveGetWent
<1>2. Closing(s) /\ u \in Users
  BY <1>1, Facts DEF Closing
<1>3. /\ s \in index /\ conn[s] = "closed" /\ opener[s].at = "done"
      /\ \A c \in Sessions :
            /\ opener[c].at \in {"none", "done"}
            /\ c # s => closer[c].at \in {"none", "done"}
            /\ c \in members[UserOf[c]] <=> Present(c)
  BY <1>2, OnlyCloser
<1>4. s \in members[u]
  BY <1>1, <1>3 DEF Present
<1>5. byUser[u] # NoList /\ closer'[s].at = "remove" /\ closer'[s].it.list = byUser[u]
  BY <1>1, <1>2, <1>4, MembersAre
<1>6. Mutex' /\ OpenerInv' /\ AloneInv' /\ OneInv' /\ NoticeInv'
  BY <1>1, <1>2, <1>5, CloserKeeps
<1>7. members' = members
  BY <1>1, MembersSame
<1> HIDE DEF u
<1>8. ListsInv'
  <2>1. ASSUME NEW v \in Users, byUser[v] # NoList
        PROVE  /\ UserOf[byUser[v]] = v
               /\ opener[byUser[v]].at \in {"add", "index", "done"}
               /\ IsInjective(list[byUser[v]].items)
               /\ members[v] # {}
    BY <1>1, <1>3, <2>1 DEF SInv, ListsInv
  <2>2. QED
    BY <1>1, <1>7, <2>1 DEF ListsInv
<1>9. MembersInv'
  <2>1. \A c \in Sessions : Present(c) <=> Present(c)'
    BY <1>1, <1>5 DEF Present, IsOpen
  <2>2. QED
    BY <1>1, <1>3, <1>7, <2>1 DEF SInv, MembersInv
<1>10. IndexInv'
  <2>1. \A c \in index : c \in Sessions
    BY DEF TInv, MapsOK
  <2>2. QED
    BY <1>1, <1>5, <2>1 DEF SInv, IndexInv, IsOpen
<1>11. CloserInv'
  BY <1>1, <1>3, <1>5 DEF CloserInv, Closing, u
<1>12. QED
  BY <1>6, <1>8, <1>9, <1>10, <1>11 DEF SInv

(* The session leaves the list, and nobody else does. *)
LEMMA RemoveSessionKeeps ==
    ASSUME TInv, OInv, SInv, Serialized, NEW s \in Sessions, RemoveSession(s)
    PROVE  SInv'
<1> DEFINE u == UserOf[s]
<1>1. PICK l : l = closer[s].it.list
  OBVIOUS
<1>2. /\ closer[s].at = "remove" /\ l \in Sessions
      /\ list'[l] = Removed(list[l], s)
      /\ \A t \in Sessions : t # l => list'[t] = list[t]
      /\ closer'[s].at = "ifEmpty" /\ closer'[s].it.list = l
      /\ \A t \in Sessions : t # s => closer'[t] = closer[t]
      /\ UNCHANGED <<multi, conn, byUser, index, opener, notice>>
  BY <1>1, RemoveSessionWent
<1>3. Closing(s) /\ u \in Users /\ byUser[u] = l /\ l # NoList
  BY <1>1, <1>2, Facts DEF Closing, SInv, CloserInv
<1>4. /\ s \in index /\ conn[s] = "closed" /\ opener[s].at = "done"
      /\ \A c \in Sessions :
            /\ opener[c].at \in {"none", "done"}
            /\ c # s => closer[c].at \in {"none", "done"}
            /\ c \in members[UserOf[c]] <=> Present(c)
  BY <1>3, OnlyCloser
<1>5. s \in members[u]
  BY <1>2, <1>4 DEF Present
<1>6. /\ list[l].items \in Seq(Sessions) /\ members[u] = ToSet(list[l].items)
      /\ UserOf[l] = u /\ opener[l].at \in {"add", "index", "done"}
      /\ IsInjective(list[l].items)
  BY <1>3, MembersAre DEF SInv, ListsInv
<1>7. list'[l].items = RemoveFirst(list[l].items, s)
  BY <1>2, <1>5, <1>6 DEF Removed
<1>8. ToSet(list'[l].items) = members[u] \ {s} /\ IsInjective(list'[l].items)
  BY <1>5, <1>6, <1>7, Without
<1>9. \A v \in Users : v # u /\ byUser[v] # NoList => byUser[v] # l /\ byUser[v] \in Sessions
  BY <1>6 DEF SInv, ListsInv, TInv, MapsOK
<1>10. /\ members'[u] = members[u] \ {s}
       /\ \A v \in Users : v # u => members'[v] = members[v]
  <2>1. SessionsOf(u)' = members[u] \ {s}
    BY <1>2, <1>3, <1>8 DEF SessionsOf
  <2>2. \A v \in Users : v # u => SessionsOf(v)' = SessionsOf(v)
    BY <1>2, <1>9 DEF SessionsOf
  <2>3. QED
    BY <1>3, <2>1, <2>2 DEF members
<1>11. Mutex' /\ OpenerInv' /\ AloneInv' /\ OneInv' /\ NoticeInv'
  <2>1. \A t \in Sessions : opener[t].at = "none" => list'[t] = list[t]
    BY <1>2, <1>6
  <2>2. QED
    BY <1>2, <1>3, <2>1, CloserKeeps
<1> HIDE DEF u
<1>12. ListsInv'
  <2>1. ASSUME NEW v \in Users, v # u, byUser[v] # NoList
        PROVE  /\ UserOf[byUser[v]] = v
               /\ opener[byUser[v]].at \in {"add", "index", "done"}
               /\ IsInjective(list'[byUser[v]].items)
               /\ members'[v] # {}
    <3>1. list'[byUser[v]] = list[byUser[v]]
      BY <1>2, <1>9, <2>1
    <3>2. QED
      BY <1>2, <1>4, <1>10, <2>1, <3>1 DEF SInv, ListsInv
  <2>2. /\ UserOf[l] = u /\ opener[l].at \in {"add", "index", "done"}
        /\ IsInjective(list'[l].items)
        /\ \E c \in Sessions : UserOf[c] = u /\ closer'[c].at \in {"ifEmpty", "removeUser"}
    BY <1>2, <1>6, <1>8 DEF u
  <2>3. QED
    BY <1>2, <1>3, <2>1, <2>2 DEF ListsInv
<1>13. MembersInv'
  <2>1. \A v \in Users : members'[v] \subseteq members[v]
    BY <1>10
  <2>2. ASSUME NEW c \in Sessions PROVE c \in members'[UserOf[c]] <=> Present(c)'
    <3>1. CASE c = s
      <4>1. ~Present(s)'
        BY <1>2, <1>4 DEF Present, IsOpen
      <4>2. QED
        BY <1>10, <3>1, <4>1 DEF u
    <3>2. CASE c # s
      <4>1. Present(c) <=> Present(c)'
        BY <1>2, <3>2 DEF Present, IsOpen
      <4>2. c \in members'[UserOf[c]] <=> c \in members[UserOf[c]]
        BY <1>10, <3>2, Facts
      <4>3. QED
        BY <1>4, <4>1, <4>2
    <3>3. QED
      BY <3>1, <3>2
  <2>3. QED
    BY <1>2, <2>1, <2>2 DEF SInv, MembersInv
<1>14. IndexInv'
  <2>1. \A c \in index : c \in Sessions
    BY DEF TInv, MapsOK
  <2>2. QED
    BY <1>2, <2>1 DEF SInv, IndexInv, IsOpen
<1>15. CloserInv'
  BY <1>2, <1>3, <1>4 DEF CloserInv, Closing, u
<1>16. QED
  BY <1>11, <1>12, <1>13, <1>14, <1>15 DEF SInv

(* A list that is empty has no member left. *)
LEMMA RemoveIfEmptyKeeps ==
    ASSUME TInv, OInv, SInv, Serialized, NEW s \in Sessions, RemoveIfEmpty(s)
    PROVE  SInv'
<1> DEFINE u == UserOf[s]
<1>1. /\ closer[s].at = "ifEmpty"
      /\ closer'[s].at = IF list[closer[s].it.list].items = <<>> THEN "removeUser" ELSE "unindex"
      /\ \A t \in Sessions : t # s => closer'[t] = closer[t]
      /\ UNCHANGED <<multi, conn, byUser, list, index, opener, notice>>
  BY RemoveIfEmptyWent
<1>2. Closing(s) /\ u \in Users /\ byUser[u] = closer[s].it.list /\ byUser[u] # NoList
  BY <1>1, Facts DEF Closing, SInv, CloserInv
<1>3. /\ s \in index
      /\ \A c \in Sessions :
            /\ opener[c].at \in {"none", "done"}
            /\ c # s => closer[c].at \in {"none", "done"}
            /\ c \in members[UserOf[c]] <=> Present(c)
  BY <1>2, OnlyCloser
<1>4. list[byUser[u]].items = <<>> <=> members[u] = {}
  BY <1>2, MembersAre, Empty
<1>5. /\ closer'[s].at = IF members[u] = {} THEN "removeUser" ELSE "unindex"
      /\ closer'[s].at \in {"removeUser", "unindex"}
  BY <1>1, <1>2, <1>4
<1>6. Mutex' /\ OpenerInv' /\ AloneInv' /\ OneInv' /\ NoticeInv'
  <2>1. closer'[s].at # "none"
    BY <1>5
  <2>2. QED
    BY <1>1, <1>2, <2>1, CloserKeeps
<1>7. members' = members
  BY <1>1, MembersSame
<1> HIDE DEF u
<1>8. ListsInv'
  <2>1. ASSUME NEW v \in Users, byUser[v] # NoList
        PROVE  /\ UserOf[byUser[v]] = v
               /\ opener[byUser[v]].at \in {"add", "index", "done"}
               /\ IsInjective(list[byUser[v]].items)
               /\ \/ members[v] # {}
                  \/ \E c \in Sessions : UserOf[c] = v /\ closer'[c].at \in {"ifEmpty", "removeUser"}
    <3>1. CASE v = u
      <4>1. members[v] = {} => UserOf[s] = v /\ closer'[s].at = "removeUser"
        BY <1>5, <3>1 DEF u
      <4>2. QED
        BY <2>1, <4>1 DEF SInv, ListsInv
    <3>2. CASE v # u
      BY <1>3, <2>1, <3>2 DEF SInv, ListsInv, u
    <3>3. QED
      BY <3>1, <3>2
  <2>2. QED
    BY <1>1, <1>7, <2>1 DEF ListsInv
<1>9. MembersInv'
  <2>1. \A c \in Sessions : Present(c) <=> Present(c)'
    BY <1>1, <1>5 DEF Present, IsOpen
  <2>2. QED
    BY <1>1, <1>3, <1>7, <2>1 DEF SInv, MembersInv
<1>10. IndexInv'
  <2>1. \A c \in index : c \in Sessions
    BY DEF TInv, MapsOK
  <2>2. QED
    BY <1>1, <1>5, <2>1 DEF SInv, IndexInv, IsOpen
<1>11. CloserInv'
  BY <1>1, <1>3, <1>5, <1>7 DEF CloserInv, Closing, u
<1>12. QED
  BY <1>6, <1>8, <1>9, <1>10, <1>11 DEF SInv

(* Taking an empty list off the map loses no member. *)
LEMMA RemoveUserKeeps ==
    ASSUME TInv, OInv, SInv, Serialized, NEW s \in Sessions, RemoveUser(s)
    PROVE  SInv'
<1> DEFINE u == UserOf[s]
<1>1. /\ closer[s].at = "removeUser" /\ closer'[s].at = "unindex"
      /\ \A t \in Sessions : t # s => closer'[t] = closer[t]
      /\ byUser'[u] = NoList
      /\ \A v \in Users : v # u => byUser'[v] = byUser[v]
      /\ UNCHANGED <<multi, conn, list, index, opener, notice>>
  BY RemoveUserWent
<1>2. Closing(s) /\ u \in Users /\ members[u] = {}
  BY <1>1, Facts DEF Closing, SInv, CloserInv
<1>3. /\ s \in index
      /\ \A c \in Sessions :
            /\ opener[c].at \in {"none", "done"}
            /\ c # s => closer[c].at \in {"none", "done"}
            /\ c \in members[UserOf[c]] <=> Present(c)
  BY <1>2, OnlyCloser
<1>4. Mutex' /\ OpenerInv' /\ AloneInv' /\ OneInv' /\ NoticeInv'
  BY <1>1, <1>2, CloserKeeps
<1>5. members' = members
  <2>1. SessionsOf(u) = {}
    BY <1>2 DEF members
  <2>2. \A v \in Users : SessionsOf(v)' = SessionsOf(v)
    BY <1>1, <2>1 DEF SessionsOf
  <2>3. QED
    BY <2>2 DEF members
<1> HIDE DEF u
<1>6. ListsInv'
  <2>1. ASSUME NEW v \in Users, v # u, byUser[v] # NoList
        PROVE  /\ UserOf[byUser[v]] = v
               /\ opener[byUser[v]].at \in {"add", "index", "done"}
               /\ IsInjective(list[byUser[v]].items)
               /\ members[v] # {}
    BY <1>3, <2>1 DEF SInv, ListsInv, u
  <2>2. QED
    BY <1>1, <1>5, <2>1 DEF ListsInv
<1>7. MembersInv'
  <2>1. \A c \in Sessions : Present(c) <=> Present(c)'
    BY <1>1 DEF Present, IsOpen
  <2>2. QED
    BY <1>1, <1>3, <1>5, <2>1 DEF SInv, MembersInv
<1>8. IndexInv'
  <2>1. \A c \in index : c \in Sessions
    BY DEF TInv, MapsOK
  <2>2. QED
    BY <1>1, <2>1 DEF SInv, IndexInv, IsOpen
<1>9. CloserInv'
  BY <1>1, <1>3 DEF CloserInv, Closing
<1>10. QED
  BY <1>4, <1>6, <1>7, <1>8, <1>9 DEF SInv

(* List and index agree again. *)
LEMMA RemoveIndexKeeps ==
    ASSUME TInv, OInv, SInv, Serialized, NEW s \in Sessions, RemoveIndex(s)
    PROVE  SInv'
<1>1. /\ closer[s].at = "unindex" /\ closer'[s].at = "done"
      /\ \A t \in Sessions : t # s => closer'[t] = closer[t]
      /\ index' = index \ {s}
      /\ UNCHANGED <<multi, conn, byUser, list, opener, notice>>
  BY RemoveIndexWent
<1>2. Closing(s)
  BY <1>1 DEF Closing
<1>3. \A c \in Sessions :
        /\ opener[c].at \in {"none", "done"}
        /\ c # s => closer[c].at \in {"none", "done"}
        /\ c \in members[UserOf[c]] <=> Present(c)
  BY <1>2, OnlyCloser
<1>4. Mutex' /\ OpenerInv' /\ AloneInv' /\ OneInv' /\ NoticeInv'
  BY <1>1, <1>2, CloserKeeps
<1>5. members' = members
  BY <1>1, MembersSame
<1>6. ListsInv'
  <2>1. ASSUME NEW v \in Users, byUser[v] # NoList
        PROVE  /\ UserOf[byUser[v]] = v
               /\ opener[byUser[v]].at \in {"add", "index", "done"}
               /\ IsInjective(list[byUser[v]].items)
               /\ members[v] # {}
    BY <1>1, <1>3, <2>1 DEF SInv, ListsInv
  <2>2. QED
    BY <1>1, <1>5, <2>1 DEF ListsInv
<1>7. MembersInv'
  <2>1. \A c \in Sessions : Present(c) <=> Present(c)'
    BY <1>1 DEF Present, IsOpen
  <2>2. QED
    BY <1>1, <1>3, <1>5, <2>1 DEF SInv, MembersInv
<1>8. IndexInv'
  <2>1. \A c \in index : c \in Sessions
    BY DEF TInv, MapsOK
  <2>2. QED
    BY <1>1, <2>1 DEF SInv, IndexInv, IsOpen
<1>9. CloserInv'
  BY <1>1, <1>3 DEF CloserInv, Closing
<1>10. QED
  BY <1>4, <1>6, <1>7, <1>8, <1>9 DEF SInv

(* onClose begins: it has something to remove, or is done at once. *)
LEMMA OnCloseKeeps ==
    ASSUME TInv, OInv, SInv, Serialized, NEW s \in Sessions, OnClose(s)
    PROVE  SInv'
<1>1. /\ AwaitsOnClose(s)
      /\ closer'[s].at = IF s \in index THEN "get" ELSE "done"
      /\ \A t \in Sessions : t # s => closer'[t] = closer[t]
      /\ UNCHANGED <<multi, conn, byUser, list, index, opener, notice>>
  BY OnCloseWent
<1>2. Ending(s) /\ conn[s] = "closed" /\ closer[s].at = "none"
  BY <1>1 DEF Ending, AwaitsOnClose
<1>3. \A c \in Sessions : c # s => ~Ending(c) /\ closer[c].at \in {"none", "done"}
  BY <1>2 DEF SInv, Mutex, Ending, Closing
<1>4. s \in index => \A t \in Sessions : ~Opening(t)
  BY <1>2 DEF SInv, Mutex
<1>5. \A c \in Sessions : Ending(c)' => c = s /\ s \in index
  BY <1>1, <1>3 DEF Ending, Closing, AwaitsOnClose
<1>6. \A t \in Sessions : Opening(t)' <=> Opening(t)
  BY <1>1 DEF Opening
<1>7. notice.at # "next"
  BY <1>2 DEF SInv, Mutex
<1>8. Mutex'
  BY <1>1, <1>4, <1>5, <1>6, <1>7 DEF SInv, Mutex
<1>9. NoticeInv'
  BY <1>1, <1>7 DEF NoticeInv
<1>10. OpenerInv' /\ AloneInv' /\ OneInv'
  BY <1>1 DEF SInv, OpenerInv, AloneInv, OneInv, Opening, EvictedAll, IsOpen
<1>11. members' = members
  BY <1>1, MembersSame
<1>12. ListsInv'
  <2>1. \A c \in Sessions : closer[c].at \notin {"ifEmpty", "removeUser"}
    BY <1>2, <1>3
  <2>2. ASSUME NEW v \in Users, byUser[v] # NoList
        PROVE  /\ UserOf[byUser[v]] = v
               /\ opener[byUser[v]].at \in {"add", "index", "done"}
               /\ IsInjective(list[byUser[v]].items)
               /\ \/ members[v] # {}
                  \/ \E t \in Sessions : UserOf[t] = v /\ opener[t].at = "add"
    BY <2>1, <2>2 DEF SInv, ListsInv
  <2>3. QED
    BY <1>1, <1>11, <2>2 DEF ListsInv
<1>13. MembersInv'
  <2>1. \A c \in Sessions : Present(c) <=> Present(c)'
    BY <1>1, <1>2 DEF Present, IsOpen
  <2>2. \A t \in Sessions : EvictedAll(t) <=> EvictedAll(t)'
    BY <1>1 DEF EvictedAll
  <2>3. QED
    BY <1>1, <1>11, <2>1, <2>2 DEF SInv, MembersInv
<1>14. IndexInv'
  <2>1. \A c \in index : c \in Sessions
    BY DEF TInv, MapsOK
  <2>2. QED
    BY <1>1, <2>1 DEF SInv, IndexInv, IsOpen
<1>15. CloserInv'
  BY <1>1, <1>3 DEF CloserInv, Closing
<1>16. QED
  BY <1>8, <1>9, <1>10, <1>12, <1>13, <1>14, <1>15 DEF SInv

(* Between callbacks. *)
LEMMA AtRest ==
    ASSUME TInv, OInv, SInv, Quiet
    PROVE  /\ notice.at # "next"
           /\ \A c \in Sessions :
                 /\ ~Opening(c) /\ ~Ending(c) /\ ~EvictedAll(c)
                 /\ opener[c].at \in {"none", "done"}
                 /\ closer[c].at \in {"none", "done"}
                 /\ IsOpen(c) => c \in index /\ opener[c].at = "done" /\ closer[c].at = "none"
                 /\ c \in index => IsOpen(c)
                 /\ c \in members[UserOf[c]] <=> IsOpen(c)
<1>1. /\ notice.at # "next"
      /\ \A c \in Sessions : ~Opening(c) /\ ~Ending(c)
  BY DEF Quiet, Ending
<1>2. \A c \in Sessions : /\ opener[c].at \in {"none", "done"} /\ ~EvictedAll(c)
                          /\ closer[c].at \in {"none", "done"}
  BY <1>1 DEF Opening, Ending, Closing, EvictedAll
<1>3. ASSUME NEW c \in Sessions
      PROVE  /\ IsOpen(c) => c \in index /\ opener[c].at = "done" /\ closer[c].at = "none"
             /\ c \in index => IsOpen(c)
  <2>1. IsOpen(c) => c \in index
    BY <1>1, <1>2 DEF OInv, LeftAlone
  <2>2. QED
    BY <1>1, <2>1, Together
<1>4. \A c \in Sessions : c \in members[UserOf[c]] <=> Present(c)
  BY <1>2 DEF SInv, MembersInv
<1>5. \A c \in Sessions : Present(c) <=> IsOpen(c)
  BY <1>2, <1>3 DEF Present
<1>6. QED
  BY <1>1, <1>2, <1>3, <1>4, <1>5

(* A session connects while no other callback runs. *)
LEMMA OnOpenKeeps ==
    ASSUME TInv, OInv, SInv, Serialized, NEW s \in Sessions, OnOpen(s)
    PROVE  SInv'
<1>1. /\ conn[s] = "none" /\ Quiet
      /\ \/ conn'[s] = "open" /\ opener'[s].at = IF multi THEN "get" ELSE "evict"
         \/ conn'[s] = "closed" /\ opener'[s].at = "done"
      /\ \A t \in Sessions : t # s => conn'[t] = conn[t] /\ opener'[t] = opener[t]
      /\ UNCHANGED <<multi, byUser, list, index, closer, notice>>
  BY OnOpenWent DEF MayStart
<1>2. opener[s].at = "none" /\ closer[s].at = "none" /\ ~IsOpen(s) /\ s \notin index
      /\ list[s].items = <<>>
  <2>1. opener[s].at = "none" /\ closer[s].at = "none"
    BY <1>1, Together
  <2>2. s \notin index
    BY <2>1 DEF SInv, IndexInv
  <2>3. QED
    BY <1>1, <2>1, <2>2 DEF IsOpen, SInv, OpenerInv
<1>3. /\ notice.at # "next"
      /\ \A c \in Sessions :
            /\ ~Opening(c) /\ ~Ending(c)
            /\ opener[c].at \in {"none", "done"}
            /\ closer[c].at \in {"none", "done"}
            /\ c \in members[UserOf[c]] <=> IsOpen(c)
            /\ IsOpen(c) => opener[c].at = "done"
            /\ c \in index => IsOpen(c)
  BY <1>1, AtRest
<1>4. members' = members /\ \A v \in Users : members[v] \subseteq Sessions
  BY <1>1, MembersSame, MembersAre
<1>5. \A c \in Sessions : c # s => (IsOpen(c)' <=> IsOpen(c)) /\ ~Opening(c)' /\ ~Ending(c)'
                                   /\ opener'[c].at \in {"none", "done"}
  BY <1>1, <1>3 DEF IsOpen, Opening, Ending, Closing, AwaitsOnClose
<1>6. Opening(s)' => IsOpen(s)' /\ ~Ending(s)'
  BY <1>1, <1>2 DEF IsOpen, Opening, Ending, Closing, AwaitsOnClose
<1>7. Mutex' /\ NoticeInv'
  BY <1>1, <1>3, <1>5, <1>6 DEF Mutex, NoticeInv
<1>8. ListsInv'
  <2>1. ASSUME NEW v \in Users, byUser[v] # NoList
        PROVE  /\ UserOf[byUser[v]] = v
               /\ opener'[byUser[v]].at \in {"add", "index", "done"}
               /\ IsInjective(list[byUser[v]].items)
               /\ members[v] # {}
    <3>1. byUser[v] \in Sessions
      BY <2>1 DEF TInv, MapsOK
    <3>2. /\ UserOf[byUser[v]] = v
          /\ opener[byUser[v]].at \in {"add", "index", "done"}
          /\ IsInjective(list[byUser[v]].items)
          /\ members[v] # {}
      BY <1>3, <2>1 DEF SInv, ListsInv
    <3>3. byUser[v] # s
      BY <1>2, <3>2
    <3>4. QED
      BY <1>1, <3>1, <3>2, <3>3
  <2>2. QED
    BY <1>1, <1>4, <2>1 DEF ListsInv
<1>9. MembersInv'
  <2>1. ASSUME NEW v \in Users, NEW c \in members[v]
        PROVE  UserOf[c] = v /\ opener'[c].at \in {"index", "done"}
    <3>1. UserOf[c] = v /\ opener[c].at \in {"index", "done"} /\ c \in Sessions
      BY <1>4 DEF SInv, MembersInv
    <3>2. QED
      BY <1>1, <1>2, <3>1
  <2>2. ASSUME NEW c \in Sessions PROVE c \in members[UserOf[c]] <=> Present(c)'
    <3>1. CASE c = s
      <4>1. ~Present(s)'
        BY <1>1, <1>2 DEF Present, IsOpen
      <4>2. QED
        BY <1>2, <1>3, <3>1, <4>1
    <3>2. CASE c # s
      <4>1. Present(c)' <=> IsOpen(c)
        BY <1>1, <1>3, <3>2 DEF Present, IsOpen
      <4>2. QED
        BY <1>3, <4>1
    <3>3. QED
      BY <3>1, <3>2
  <2>3. QED
    BY <1>4, <2>1, <2>2 DEF MembersInv
<1>10. IndexInv'
  <2>1. \A c \in index : c \in Sessions /\ c # s
    BY <1>2 DEF TInv, MapsOK
  <2>2. QED
    BY <1>1, <2>1 DEF SInv, IndexInv, IsOpen
<1>11. CloserInv'
  BY <1>1, <1>3 DEF CloserInv, Closing
<1>12. OpenerInv'
  <2>1. ASSUME NEW t \in Sessions
        PROVE  /\ Opening(t)' => IsOpen(t)' /\ t \notin index
               /\ opener'[t].at = "none" => conn'[t] = "none"
               /\ opener'[t].at \notin {"add", "index", "done"} => list[t].items = <<>>
    BY <1>1, <1>2, <1>5, <1>6 DEF SInv, OpenerInv
  <2>2. ASSUME NEW t \in Sessions
        PROVE  /\ opener'[t].at \notin {"put", "add", "evictNext", "evictClose", "evictLast"}
               /\ opener'[t].at = "evict" => ~multi
    BY <1>1, <1>5
  <2>3. QED
    BY <1>1, <2>1, <2>2 DEF OpenerInv
<1>13. AloneInv'
  BY <1>1, <1>5 DEF AloneInv, EvictedAll
<1>14. OneInv'
  <2>1. ASSUME NEW c \in Sessions, NEW d \in Sessions, ~multi,
               c # d, UserOf[c] = UserOf[d], IsOpen(c)', IsOpen(d)'
        PROVE  \E t \in {c, d} : opener'[t].at \in {"evict", "evictNext", "evictClose"}
    <3>1. CASE c = s \/ d = s
      BY <1>1, <2>1, <3>1 DEF IsOpen
    <3>2. CASE c # s /\ d # s
      <4>1. IsOpen(c) /\ IsOpen(d)
        BY <1>5, <2>1, <3>2
      <4>2. QED
        BY <1>3, <2>1, <4>1 DEF SInv, OneInv
    <3>3. QED
      BY <3>1, <3>2
  <2>2. QED
    BY <1>1, <2>1 DEF OneInv
<1>15. QED
  BY <1>7, <1>8, <1>9, <1>10, <1>11, <1>12, <1>13, <1>14 DEF SInv

(* Clients close and vanish. *)
LEMMA ClientKeeps ==
    ASSUME TInv, OInv, SInv, Serialized, NEW s \in Sessions,
           ClientCloses(s) \/ ClientVanishes(s) \/ PongMessage(s) \/ PongTimeout(s)
    PROVE  SInv'
<1>1. /\ \A t \in Sessions : t # s => conn'[t] = conn[t]
      /\ \/ conn'[s] = conn[s]
         \/ conn[s] = "open" /\ conn'[s] = "gone"
         \/ IsOpen(s) /\ conn'[s] = "closed" /\ Quiet
      /\ UNCHANGED <<multi, byUser, list, index, opener, closer, notice>>
  BY ClientWent DEF MayStart
<1>2. members' = members
  BY <1>1, MembersSame
<1>3. \A t \in Sessions : /\ Opening(t)' <=> Opening(t)
                          /\ Closing(t)' <=> Closing(t)
                          /\ EvictedAll(t)' <=> EvictedAll(t)
  BY <1>1 DEF Opening, Closing, EvictedAll
<1>4. \A t \in Sessions : opener[t].at = "none" => conn'[t] = "none"
  BY <1>1 DEF SInv, OpenerInv, IsOpen
<1>5. ListsInv' /\ CloserInv' /\ NoticeInv'
  BY <1>1, <1>2, <1>3 DEF SInv, ListsInv, CloserInv, NoticeInv
<1>6. \A t \in Sessions : IsOpen(t)' => IsOpen(t)
  BY <1>1 DEF IsOpen
<1>7. AloneInv' /\ OneInv'
  <2>1. AloneInv'
    BY <1>1, <1>3, <1>6 DEF SInv, AloneInv
  <2>2. OneInv'
    BY <1>1, <1>6 DEF SInv, OneInv
  <2>3. QED
    BY <2>1, <2>2
<1>8. CASE conn'[s] = conn[s] \/ (conn[s] = "open" /\ conn'[s] = "gone")
  <2>1. \A t \in Sessions : /\ IsOpen(t)' <=> IsOpen(t)
                            /\ Ending(t)' <=> Ending(t)
                            /\ Present(t)' <=> Present(t)
    BY <1>1, <1>8 DEF IsOpen, Ending, Closing, AwaitsOnClose, Present
  <2>2. Mutex'
    BY <1>1, <1>3, <2>1 DEF SInv, Mutex
  <2>3. MembersInv'
    BY <1>1, <1>2, <1>3, <2>1 DEF SInv, MembersInv
  <2>4. IndexInv'
    BY <1>1, <2>1 DEF SInv, IndexInv, TInv, MapsOK
  <2>5. OpenerInv'
    BY <1>1, <1>3, <1>4, <2>1 DEF SInv, OpenerInv
  <2>6. QED
    BY <1>5, <1>7, <2>2, <2>3, <2>4, <2>5 DEF SInv
<1>9. CASE IsOpen(s) /\ conn'[s] = "closed" /\ Quiet
  <2>1. /\ notice.at # "next" /\ s \in index /\ opener[s].at = "done" /\ closer[s].at = "none"
        /\ \A c \in Sessions : ~Opening(c) /\ ~Ending(c) /\ ~EvictedAll(c)
    BY <1>9, AtRest
  <2>2. \A c \in Sessions : c # s => ~Ending(c)'
    BY <1>1, <2>1 DEF Ending, Closing, AwaitsOnClose
  <2>3. Mutex'
    BY <1>1, <1>3, <2>1, <2>2 DEF Mutex
  <2>4. MembersInv'
    <3>1. \A c \in Sessions : Present(c)' <=> Present(c)
      BY <1>1, <1>9, <2>1 DEF Present, IsOpen
    <3>2. QED
      BY <1>1, <1>2, <1>3, <3>1 DEF SInv, MembersInv
  <2>5. IndexInv'
    <3>1. \A c \in index : c \in Sessions
      BY DEF TInv, MapsOK
    <3>2. QED
      BY <1>1, <2>1, <3>1 DEF SInv, IndexInv, IsOpen
  <2>6. OpenerInv'
    <3>1. \A t \in Sessions : opener[t].at \in {"none", "done"}
      BY <2>1 DEF Opening
    <3>2. QED
      BY <1>1, <1>3, <1>4, <2>1, <3>1 DEF SInv, OpenerInv
  <2>7. QED
    BY <1>5, <1>7, <2>3, <2>4, <2>5, <2>6 DEF SInv
<1>10. QED
  BY <1>1, <1>8, <1>9

(* What only a notice does. *)
LEMMA NoticeStepKeeps ==
    ASSUME TInv, OInv, SInv, NoticeInv',
           notice'.at = "next" => \A t \in Sessions : ~Opening(t) /\ ~Ending(t),
           UNCHANGED <<multi, conn, byUser, list, index, opener, closer>>
    PROVE  SInv'
<1>1. members' = members
  BY MembersSame
<1>2. Mutex'
  BY DEF SInv, Mutex, Opening, Ending, Closing, AwaitsOnClose, EvictedAll
<1>3. ListsInv' /\ MembersInv'
  BY <1>1 DEF SInv, ListsInv, MembersInv, EvictedAll, Present, IsOpen
<1>4. OpenerInv' /\ AloneInv' /\ IndexInv' /\ OneInv'
  BY DEF SInv, OpenerInv, AloneInv, IndexInv, OneInv, Opening, EvictedAll, IsOpen
<1>5. CloserInv'
  BY <1>1 DEF SInv, CloserInv, Closing
<1>6. QED
  BY <1>2, <1>3, <1>4, <1>5 DEF SInv

(* A notice starts: it finds the list of its user. *)
LEMMA NoticeKeeps ==
    ASSUME TInv, OInv, SInv, Serialized, Notice
    PROVE  SInv'
<1>1. /\ Quiet
      /\ UNCHANGED <<multi, conn, byUser, list, index, opener, closer>>
  BY DEF Notice, MayStart
<1>2. PICK u \in Users : notice' = IF byUser[u] = NoList
                                  THEN NoNotice("error")
                                  ELSE [NoNotice("next") EXCEPT !.it = Iterator(byUser[u])]
  BY DEF Notice
<1>3. NoticeInv'
  <2>1. CASE byUser[u] = NoList
    <3>1. notice'.at = "error"
      BY <1>2, <2>1 DEF NoNotice
    <3>2. QED
      BY <3>1 DEF NoticeInv
  <2>2. CASE byUser[u] # NoList
    <3>1. PICK l \in Sessions : l = byUser[u]
      BY <2>2 DEF TInv, MapsOK
    <3>2. notice'.it = Iterator(l) /\ notice'.sent = {}
      BY <1>2, <2>2, <3>1 DEF NoNotice
    <3>3. notice'.it.list = l /\ notice'.it.was = list[l] /\ notice'.it.cursor = 0
      BY <3>1, <3>2, IteratorTyped
    <3>4. UserOf[l] = u
      BY <2>2, <3>1 DEF SInv, ListsInv
    <3>5. 1..0 = {}
      OBVIOUS
    <3>6. notice'.sent = {notice'.it.was.items[i] : i \in 1..notice'.it.cursor}
      BY <3>2, <3>3, <3>5
    <3>7. QED
      BY <1>1, <3>1, <3>3, <3>4, <3>6 DEF NoticeInv
  <2>3. QED
    BY <2>1, <2>2
<1>4. \A t \in Sessions : ~Opening(t) /\ ~Ending(t)
  BY <1>1, AtRest
<1>5. QED
  BY <1>1, <1>3, <1>4, NoticeStepKeeps

(* It goes to the next session of a list that nobody changes. *)
LEMMA NoticeNextKeeps ==
    ASSUME TInv, OInv, SInv, NoticeNext
    PROVE  SInv'
<1> DEFINE it == notice.it
<1>1. /\ notice.at = "next"
      /\ UNCHANGED <<multi, conn, byUser, list, index, opener, closer>>
  BY DEF NoticeNext
<1>2. \A t \in Sessions : ~Opening(t) /\ ~Ending(t)
  BY <1>1 DEF SInv, Mutex
<1>3. NoticeInv'
  <2>1. CASE \E a \in {"error", "ok"} : notice' = NoNotice(a)
    BY <2>1 DEF NoNotice, NoticeInv
  <2>2. CASE /\ HasNext(it) /\ Usable(it)
             /\ notice' = [notice EXCEPT !.it = Advance(it), !.sent = @ \cup {Element(it)}]
    <3>1. it \in Iterators /\ Walks(it) /\ it.cursor # Len(it.was.items)
      BY <1>1, <2>2, MayAdvance DEF TInv, NoticeOK, Usable
    <3>2. /\ Advance(it).list = it.list /\ Advance(it).was = it.was
          /\ Advance(it).cursor = it.cursor + 1
      BY <3>1, AdvanceTyped
    <3>3. it.cursor \in Nat
      BY <3>1 DEF Iterators
    <3>4. /\ byUser[UserOf[it.list]] = it.list /\ it.was = list[it.list]
          /\ notice.sent = {it.was.items[i] : i \in 1..it.cursor}
      BY <1>1 DEF SInv, NoticeInv
    <3>5. notice'.it = Advance(it) /\ notice'.sent = notice.sent \cup {it.was.items[it.cursor + 1]}
      BY <2>2 DEF Element, TInv, NoticeOK
    <3> HIDE DEF it
    <3>6. 1..(it.cursor + 1) = 1..it.cursor \cup {it.cursor + 1}
      BY <3>3
    <3>7. notice'.sent = {it.was.items[i] : i \in 1..(it.cursor + 1)}
      BY <3>4, <3>5, <3>6
    <3>8. QED
      BY <1>1, <3>2, <3>4, <3>5, <3>7 DEF NoticeInv
  <2>3. QED
    BY <2>1, <2>2 DEF NoticeNext
<1>4. QED
  BY <1>1, <1>2, <1>3, NoticeStepKeeps

(* Where callbacks do not overlap each step keeps SInv. *)
LEMMA SStep ==
    ASSUME TInv, OInv, SInv, Serialized, [Next]_vars
    PROVE  SInv'
<1>1. ASSUME NEW s \in Sessions, OpenStep(s) PROVE SInv'
  BY <1>1, EvictKeeps, EvictNextKeeps, EvictCloseKeeps, EvictLastKeeps, AddGetKeeps, AddPutKeeps,
     AddSessionKeeps, AddIndexKeeps DEF OpenStep
<1>2. ASSUME NEW s \in Sessions, CloseStep(s) PROVE SInv'
  BY <1>2, OnCloseKeeps, RemoveGetKeeps, RemoveSessionKeeps, RemoveIfEmptyKeeps, RemoveUserKeeps,
     RemoveIndexKeeps DEF CloseStep
<1>3. ASSUME NEW s \in Sessions,
             \/ OnOpen(s) \/ ClientCloses(s) \/ ClientVanishes(s)
             \/ PongMessage(s) \/ PongTimeout(s)
      PROVE  SInv'
  BY <1>3, OnOpenKeeps, ClientKeeps
<1>4. ASSUME UNCHANGED <<multi, conn, byUser, list, index, opener, closer, notice>> PROVE SInv'
  <2>1. NoticeInv'
    BY <1>4 DEF SInv, NoticeInv
  <2>2. notice'.at = "next" => \A t \in Sessions : ~Opening(t) /\ ~Ending(t)
    BY <1>4 DEF SInv, Mutex
  <2>3. QED
    BY <1>4, <2>1, <2>2, NoticeStepKeeps
<1>5. ASSUME UNCHANGED vars PROVE UNCHANGED <<multi, conn, byUser, list, index, opener, closer, notice>>
  BY <1>5 DEF vars
<1>6. QED
  BY <1>1, <1>2, <1>3, <1>4, <1>5, PingerWent, NoticeKeeps, NoticeNextKeeps DEF Next

(* So SInv holds. *)
LEMMA SInvariance == Serialized => (Spec => []SInv)
<1> SUFFICES ASSUME Serialized PROVE Spec => []SInv
  OBVIOUS
<1>1. Init => SInv
  <2> SUFFICES ASSUME Init PROVE SInv
    OBVIOUS
  <2>1. /\ \A s \in Sessions : /\ opener[s].at = "none" /\ closer[s].at = "none"
                               /\ conn[s] = "none" /\ list[s].items = <<>>
        /\ \A u \in Users : byUser[u] = NoList
        /\ index = {} /\ notice.at = "none"
    BY DEF Init, Idle, NewList, NoNotice
  <2>2. \A u \in Users : members[u] = {}
    BY <2>1 DEF members, SessionsOf
  <2>3. \A s \in Sessions : ~Opening(s) /\ ~Ending(s) /\ ~IsOpen(s) /\ ~EvictedAll(s) /\ ~Present(s)
                            /\ ~Closing(s)
    BY <2>1 DEF Opening, Ending, Closing, AwaitsOnClose, IsOpen, EvictedAll, Present
  <2>4. Mutex /\ ListsInv /\ IndexInv /\ NoticeInv
    BY <2>1, <2>3 DEF Mutex, ListsInv, IndexInv, NoticeInv
  <2>5. MembersInv
    BY <2>2, <2>3, Facts DEF MembersInv
  <2>6. OpenerInv /\ AloneInv /\ OneInv /\ CloserInv
    BY <2>1, <2>3 DEF OpenerInv, AloneInv, OneInv, CloserInv
  <2>7. QED
    BY <2>4, <2>5, <2>6 DEF SInv
<1>2. TInv /\ OInv /\ SInv /\ [Next]_vars => SInv'
  BY SStep
<1>3. QED
  BY <1>1, <1>2, TInvariance, OInvariance, PTL DEF Spec

(* Between callbacks that do not overlap the maps agree with each other    *)
(* and with the connections, and nobody has more sessions than             *)
(* MULTI_SESSION allows.                                                   *)
THEOREM MapsAgree == Serialized => (Spec => []Registered)
<1> SUFFICES ASSUME Serialized PROVE Spec => []Registered
  OBVIOUS
<1>1. TInv /\ OInv /\ SInv => Registered
  <2> SUFFICES ASSUME TInv, OInv, SInv, Quiet
               PROVE  /\ \A u \in Users : SessionsOf(u) = Connected(u)
                      /\ \A u \in LoggedIn : SessionsOf(u) # {}
                      /\ index = UNION {Connected(u) : u \in Users}
                      /\ OneSession
    BY DEF Registered
  <2>1. \A c \in Sessions :
          /\ opener[c].at \in {"none", "done"} /\ closer[c].at \in {"none", "done"}
          /\ c \in index <=> IsOpen(c)
          /\ c \in members[UserOf[c]] <=> IsOpen(c)
    BY AtRest
  <2>2. \A u \in Users : SessionsOf(u) = members[u] /\ members[u] \subseteq Sessions
    BY MembersAre DEF members
  <2>3. ASSUME NEW u \in Users PROVE SessionsOf(u) = Connected(u)
    <3>1. ASSUME NEW c \in Sessions PROVE c \in members[u] <=> UserOf[c] = u /\ IsOpen(c)
      BY <2>1 DEF SInv, MembersInv
    <3>2. QED
      BY <2>2, <3>1 DEF Connected
  <2>4. \A u \in LoggedIn : SessionsOf(u) # {}
    BY <2>1, <2>2 DEF LoggedIn, SInv, ListsInv
  <2>5. index = UNION {Connected(u) : u \in Users}
    <3>1. \A c \in index : c \in Sessions /\ UserOf[c] \in Users
      BY Facts DEF TInv, MapsOK
    <3>2. QED
      BY <2>1, <3>1 DEF Connected
  <2>6. OneSession
    <3>1. ASSUME ~multi, NEW u \in Users, NEW c \in Connected(u), NEW d \in Connected(u), c # d
          PROVE  FALSE
      <4>1. /\ c \in Sessions /\ d \in Sessions /\ UserOf[c] = UserOf[d]
            /\ IsOpen(c) /\ IsOpen(d)
        BY DEF Connected
      <4>2. QED
        BY <2>1, <3>1, <4>1 DEF SInv, OneInv
    <3>2. QED
      BY <3>1 DEF OneSession
  <2>7. QED
    BY <2>3, <2>4, <2>5, <2>6
<1>2. QED
  BY <1>1, TInvariance, OInvariance, SInvariance, PTL

(* A notice that is not refused has been sent to each session the user     *)
(* has.                                                                    *)
THEOREM NoticesReach == Serialized => (Spec => NoticeReaches)
<1> SUFFICES ASSUME Serialized PROVE Spec => NoticeReaches
  OBVIOUS
<1> DEFINE Sent == notice.at = "next" /\ notice'.at = "ok"
                   => Connected(UserOf[notice.it.list]) \subseteq notice.sent
<1>1. TInv /\ OInv /\ SInv /\ [Next]_vars => [Sent]_vars
  <2> SUFFICES ASSUME TInv, OInv, SInv, [Next]_vars, notice.at = "next", notice'.at = "ok"
               PROVE  Connected(UserOf[notice.it.list]) \subseteq notice.sent
    OBVIOUS
  <2> DEFINE it == notice.it
             u == UserOf[it.list]
  <2>1. /\ Walks(it) /\ it \in Iterators /\ it.list \in Sessions /\ u \in Users
    BY Facts DEF TInv, NoticeOK, Walks
  <2>2. /\ byUser[u] = it.list /\ it.was = list[it.list]
        /\ notice.sent = {it.was.items[i] : i \in 1..it.cursor}
    BY DEF SInv, NoticeInv
  <2>3. \A t \in Sessions : ~Opening(t) /\ ~Ending(t)
    BY DEF SInv, Mutex
  <2>4. NoticeNext
    <3>1. UNCHANGED vars => notice' = notice
      BY DEF vars
    <3>2. ASSUME NEW s \in Sessions, OpenStep(s) PROVE notice' = notice
      BY <3>2 DEF OpenStep, Evict, EvictNext, EvictClose, EvictLast, AddGet, AddPut, AddSession,
                  AddIndex
    <3>3. ASSUME NEW s \in Sessions, CloseStep(s) PROVE notice' = notice
      BY <3>3 DEF CloseStep, OnClose, RemoveGet, RemoveSession, RemoveIfEmpty, RemoveUser,
                  RemoveIndex
    <3>4. ASSUME NEW s \in Sessions,
                 \/ OnOpen(s) \/ ClientCloses(s) \/ ClientVanishes(s)
                 \/ PongMessage(s) \/ PongTimeout(s)
          PROVE  notice' = notice
      BY <3>4 DEF OnOpen, ClientCloses, ClientVanishes, PongMessage, PongTimeout
    <3>5. ~Notice
      BY DEF Notice
    <3>6. notice' # notice
      OBVIOUS
    <3>7. QED
      BY <3>1, <3>2, <3>3, <3>4, <3>5, <3>6, PingerWent DEF Next
  <2>5. ~HasNext(it)
    <3>1. HasNext(it) /\ ~Usable(it) => notice' # NoNotice("error")
      BY DEF NoNotice
    <3>2. HasNext(it) /\ Usable(it)
            => notice' # [notice EXCEPT !.it = Advance(it), !.sent = @ \cup {Element(it)}]
      BY DEF TInv, NoticeOK
    <3>3. QED
      BY <2>4, <3>1, <3>2 DEF NoticeNext
  <2>6. it.cursor = Len(it.was.items)
    BY <2>2, <2>5 DEF HasNext
  <2>7. byUser[u] # NoList
    BY <2>1, <2>2, Facts
  <2>8. /\ it.was.items \in Seq(Sessions)
        /\ members[u] = ToSet(it.was.items)
    BY <2>1, <2>2, <2>7, MembersAre
  <2>9. members[u] = notice.sent
    BY <2>2, <2>6, <2>8 DEF ToSet
  <2>10. \A c \in Sessions : UserOf[c] = u /\ IsOpen(c) => c \in members[u]
    <3>1. \A c \in Sessions : ~EvictedAll(c)
      BY <2>3 DEF EvictedAll, Opening
    <3>2. \A c \in Sessions : IsOpen(c) => Present(c)
      BY <2>3, Together DEF Present
    <3>3. QED
      BY <3>1, <3>2 DEF SInv, MembersInv
  <2>11. QED
    BY <2>9, <2>10 DEF Connected
<1>2. NoticeReaches <=> [][Sent]_vars
  BY DEF NoticeReaches
<1> HIDE DEF Sent
<1>3. QED
  BY <1>1, <1>2, TInvariance, OInvariance, SInvariance, PTL DEF Spec

===============================================================================
