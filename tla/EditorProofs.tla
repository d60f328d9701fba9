------------------------------ MODULE EditorProofs ------------------------------
(***************************************************************************)
(* What TLAPS proves about Editor, for any number of tabs, statuses, links *)
(* and names, and any bounds of codes and cells.                           *)
(***************************************************************************)
EXTENDS Editor, FiniteSetTheorems, SequenceTheorems, WellFoundedInduction, TLAPS

-------------------------------------------------------------------------------
(* The inductive invariant. The types; cells are on tabs that there are;   *)
(* the ends of a link are statuses of its tab; and a link that is embedded *)
(* in a status leads nowhere yet, unless it came out of a file.            *)
Shown == {tabs[i] : i \in DOMAIN tabs}

TabsOK ==
    /\ tabs \in Seq(Tabs)
    /\ \A i, j \in DOMAIN tabs : tabs[i] = tabs[j] => i = j
    /\ name \in [Tabs -> Names]
    /\ currenttab \in 0..Len(tabs)
    /\ \A t \in Tabs \ Shown : name[t] = NoName

StatusesOK ==
    /\ status \in [StatusIds -> Status \cup {NoStatus}]
    /\ \A s \in Drawn : status[s].on \in Shown

Attached(r) ==
    \A e \in {rote[r].source, rote[r].target} \cap StatusIds : status[e].on = rote[r].on

Embedded(r) == rote[r].parent # None => rote[r].opener = None \/ rote[r].target = Point

LinksOK ==
    /\ rote \in [LinkIds -> Rote \cup {NoRote}]
    /\ \A r \in Linked : rote[r].on \in Shown /\ Attached(r) /\ Embedded(r)

EInv == TabsOK /\ StatusesOK /\ LinksOK

-------------------------------------------------------------------------------
(* Numbers. *)

(* A set of numbers has a least element.                                   *)
LEMMA Least ==
    ASSUME NEW T, T \subseteq Nat, T # {}
    PROVE  \E m \in T : \A n \in T : m <= n
<1> DEFINE R == {p \in Nat \X Nat : p[1] < p[2]}
<1>1. IsWellFoundedOn(R, Nat)
  BY NatLessThanWellFounded DEF OpToRel
<1> HIDE DEF R
<1>2. PICK m \in T : \A n \in T : ~(<<n, m>> \in R)
  BY <1>1, WFMin
<1>3. ASSUME NEW n \in T PROVE m <= n
  <2>1. n \in Nat /\ m \in Nat
    OBVIOUS
  <2>2. ~(n < m)
    BY <1>2, <2>1 DEF R
  <2>3. QED
    BY <2>1, <2>2
<1>4. QED
  BY <1>3

(* As long as not every code is used, there is a first free one (initcode, *)
(* initstatus).                                                            *)
LEMMA FirstFreeProp ==
    ASSUME NEW used, IsFiniteSet(used), Cardinality(used) < MaxCode
    PROVE  FirstFree(used) \in 1..MaxCode /\ FirstFree(used) \notin used
<1> DEFINE T == (1..MaxCode) \ used
<1>1. MaxCode \in Nat /\ Cardinality(used) \in Nat
  BY EditorAssumption, FS_CardinalityType
<1>2. T # {}
  <2>1. SUFFICES ASSUME T = {} PROVE FALSE
    OBVIOUS
  <2>2. 1..MaxCode \in SUBSET used
    BY <2>1
  <2>3. Cardinality(1..MaxCode) <= Cardinality(used)
    BY <2>2, FS_Subset
  <2>4. Cardinality(1..MaxCode) = MaxCode
    BY <1>1, FS_Interval
  <2>5. QED
    BY <1>1, <2>3, <2>4
<1>3. PICK m \in T : \A n \in T : m <= n
  <2>1. T \subseteq Nat
    BY <1>1
  <2>2. QED
    BY <1>2, <2>1, Least
<1>4. m \in 1..MaxCode /\ m \notin used /\ 1..(m - 1) \subseteq used
  BY <1>1, <1>3
<1>5. QED
  BY <1>4 DEF FirstFree

(* The codes of all statuses but one leave one free.                       *)
LEMMA StatusCodesFree ==
    ASSUME NEW s \in StatusIds, NEW S \in SUBSET (StatusIds \ {s})
    PROVE  /\ FirstFree(StatusCodes(S)) \in 1..MaxCode
           /\ FirstFree(StatusCodes(S)) \notin StatusCodes(S)
<1> DEFINE f == [z \in S |-> status[z].code]
<1>1. /\ IsFiniteSet(StatusIds) /\ MaxCode \in Nat
      /\ Cardinality(StatusIds) \in Nat /\ Cardinality(StatusIds) <= MaxCode
  BY EditorAssumption, FS_CardinalityType
<1>2. /\ IsFiniteSet(StatusIds \ {s})
      /\ Cardinality(StatusIds \ {s}) = Cardinality(StatusIds) - 1
  BY <1>1, FS_RemoveElement
<1>3. IsFiniteSet(S) /\ Cardinality(S) <= Cardinality(StatusIds) - 1 /\ Cardinality(S) \in Nat
  BY <1>2, FS_Subset, FS_CardinalityType
<1>4. f \in Surjection(S, StatusCodes(S))
  BY DEF Surjection, StatusCodes
<1>5. /\ IsFiniteSet(StatusCodes(S)) /\ Cardinality(StatusCodes(S)) <= Cardinality(S)
      /\ Cardinality(StatusCodes(S)) \in Nat
  BY <1>3, <1>4, FS_Surjection, FS_CardinalityType
<1>6. Cardinality(StatusCodes(S)) < MaxCode
  BY <1>1, <1>3, <1>5
<1>7. QED
  BY <1>5, <1>6, FirstFreeProp

(* So do the codes of all links but one.                                   *)
LEMMA LinkCodesFree ==
    ASSUME NEW r \in LinkIds, NEW R \in SUBSET (LinkIds \ {r})
    PROVE  /\ FirstFree(LinkCodes(R)) \in 1..MaxCode
           /\ FirstFree(LinkCodes(R)) \notin LinkCodes(R)
<1> DEFINE f == [q \in R |-> rote[q].code]
<1>1. /\ IsFiniteSet(LinkIds) /\ MaxCode \in Nat
      /\ Cardinality(LinkIds) \in Nat /\ Cardinality(LinkIds) <= MaxCode
  BY EditorAssumption, FS_CardinalityType
<1>2. /\ IsFiniteSet(LinkIds \ {r})
      /\ Cardinality(LinkIds \ {r}) = Cardinality(LinkIds) - 1
  BY <1>1, FS_RemoveElement
<1>3. IsFiniteSet(R) /\ Cardinality(R) <= Cardinality(LinkIds) - 1 /\ Cardinality(R) \in Nat
  BY <1>2, FS_Subset, FS_CardinalityType
<1>4. f \in Surjection(R, LinkCodes(R))
  BY DEF Surjection, LinkCodes
<1>5. /\ IsFiniteSet(LinkCodes(R)) /\ Cardinality(LinkCodes(R)) <= Cardinality(R)
      /\ Cardinality(LinkCodes(R)) \in Nat
  BY <1>3, <1>4, FS_Surjection, FS_CardinalityType
<1>6. Cardinality(LinkCodes(R)) < MaxCode
  BY <1>1, <1>3, <1>5
<1>7. QED
  BY <1>5, <1>6, FirstFreeProp

(* The numbers up to n and their number. *)
LEMMA UpTo ==
    ASSUME NEW n \in Nat
    PROVE  IsFiniteSet(1..n) /\ Cardinality(1..n) = n
  BY FS_Interval

-------------------------------------------------------------------------------
(* What the constants are told apart by.                                   *)
LEMMA Ids ==
    /\ None \notin Tabs /\ None \notin StatusIds
    /\ Point \notin StatusIds /\ Toolbox \notin StatusIds /\ Point # Toolbox
    /\ NoName \in Names /\ MaxCode \in Nat
    /\ 0 \in Codes
  BY EditorAssumption DEF Codes

(* The invariant includes the types.                                       *)
LEMMA EInvIsTyped == EInv => TypeOK
  BY DEF EInv, TabsOK, StatusesOK, LinksOK, TypeOK

(* The tab that is shown is one of the tabs.                               *)
LEMMA CurrentIsShown ==
    ASSUME TabsOK, Current # None
    PROVE  Current \in Shown /\ Current \in Tabs
<1>1. currenttab \in 1..Len(tabs) /\ Current = tabs[currenttab]
  BY DEF TabsOK, Current
<1>2. DOMAIN tabs = 1..Len(tabs)
  BY DEF TabsOK
<1>3. QED
  BY <1>1, <1>2 DEF Shown, TabsOK

(* Most handlers leave the tabs alone.                                     *)
LEMMA TabsStay ==
    ASSUME TabsOK, UNCHANGED <<tabs, name, currenttab>>
    PROVE  TabsOK' /\ Shown' = Shown
  BY DEF TabsOK, Shown

(* What a status is that is drawn.                                         *)
LEMMA DrawnIsStatus ==
    ASSUME StatusesOK, NEW s \in StatusIds
    PROVE  /\ s \in Drawn <=> status[s] \in Status
           /\ s \notin Drawn <=> status[s] = NoStatus
           /\ status[s].code \in Codes
  BY Ids DEF StatusesOK, Drawn, Status, NoStatus

(* The same of a link.                                                     *)
LEMMA LinkedIsRote ==
    ASSUME LinksOK, NEW r \in LinkIds
    PROVE  /\ r \in Linked <=> rote[r] \in Rote
           /\ r \notin Linked <=> rote[r] = NoRote
           /\ rote[r].code \in Codes
  BY Ids DEF LinksOK, Linked, Rote, NoRote

(* Where the tabs stay: links keep their ends, but for those that vanish   *)
(* or are connected to cells of their tab, and a status that goes takes    *)
(* its links with it.                                                      *)
LEMMA CellsStep ==
    ASSUME EInv, UNCHANGED <<tabs, name, currenttab>>,
           status' \in [StatusIds -> Status \cup {NoStatus}],
           rote' \in [LinkIds -> Rote \cup {NoRote}],
           \A s \in Drawn' : status'[s].on \in Shown,
           \A s \in Drawn : \/ status'[s].on = status[s].on
                            \/ \A r \in Linked' : s \notin {rote'[r].source, rote'[r].target},
           \A r \in Linked' :
              \/ /\ r \in Linked /\ rote'[r].on = rote[r].on
                 /\ rote'[r].source = rote[r].source /\ rote'[r].target = rote[r].target
                 /\ rote'[r].parent = rote[r].parent
                 /\ rote'[r].opener \in {rote[r].opener, None}
              \/ rote'[r].on \in Shown /\ Attached(r)' /\ Embedded(r)'
    PROVE  EInv'
<1>1. TabsOK' /\ Shown' = Shown
  BY TabsStay DEF EInv
<1>2. StatusesOK'
  BY <1>1 DEF StatusesOK, Drawn
<1>3. ASSUME NEW r \in Linked' PROVE rote'[r].on \in Shown' /\ Attached(r)' /\ Embedded(r)'
  <2>1. CASE /\ r \in Linked /\ rote'[r].on = rote[r].on
             /\ rote'[r].source = rote[r].source /\ rote'[r].target = rote[r].target
             /\ rote'[r].parent = rote[r].parent
             /\ rote'[r].opener \in {rote[r].opener, None}
    <3>1. rote[r].on \in Shown /\ Attached(r) /\ Embedded(r) /\ rote[r].on # None
      BY <2>1 DEF EInv, LinksOK, Linked
    <3>2. ASSUME NEW e \in {rote'[r].source, rote'[r].target} \cap StatusIds
          PROVE  status'[e].on = rote'[r].on
      <4>1. status[e].on = rote[r].on
        BY <2>1, <3>1 DEF Attached
      <4>2. e \in Drawn
        BY <3>1, <4>1 DEF Drawn
      <4>3. QED
        BY <2>1, <4>1, <4>2
    <3>3. QED
      BY <1>1, <2>1, <3>1, <3>2 DEF Attached, Embedded
  <2>2. CASE rote'[r].on \in Shown /\ Attached(r)' /\ Embedded(r)'
    BY <1>1, <2>2
  <2>3. QED
    BY <2>1, <2>2
<1>4. QED
  BY <1>1, <1>2, <1>3 DEF EInv, LinksOK

-------------------------------------------------------------------------------
(* What the handlers change, cell by cell. *)

(* A new status gets a code that no other has.                             *)
LEMMA AddToWent ==
    ASSUME StatusesOK, NEW s \in StatusIds, NEW t \in Tabs, AddTo(s, t)
    PROVE  /\ status' \in [StatusIds -> Status \cup {NoStatus}]
           /\ s \notin Drawn /\ Drawn' = Drawn \cup {s} /\ status'[s].on = t
           /\ status'[s].code \notin StatusCodes(Drawn)
           /\ \A z \in StatusIds : z # s => status'[z] = status[z]
<1> DEFINE n == FirstFree(StatusCodes(Drawn))
           new == [on |-> t, code |-> n, box |-> "none"]
<1>1. s \notin Drawn /\ Drawn \in SUBSET (StatusIds \ {s}) /\ status' = [status EXCEPT ![s] = new]
  BY DEF AddTo, Drawn
<1>2. n \in 1..MaxCode /\ n \notin StatusCodes(Drawn)
  BY <1>1, StatusCodesFree
<1>3. new \in Status /\ new.on = t /\ new.code = n
  BY <1>2, Ids DEF Status, Codes
<1> HIDE DEF n, new
<1>4. /\ status'[s] = new /\ \A z \in StatusIds : z # s => status'[z] = status[z]
      /\ status' \in [StatusIds -> Status \cup {NoStatus}]
  BY <1>1, <1>3 DEF StatusesOK
<1>5. Drawn' = Drawn \cup {s}
  BY <1>3, <1>4, Ids DEF Drawn
<1>6. QED
  BY <1>1, <1>2, <1>3, <1>4, <1>5

(* A link that is embedded may vanish; all others stay as they are.        *)
Left(r) == rote'[r] = rote[r] \/ (rote[r].parent # None /\ rote'[r] = NoRote)

(* A status stays where it is, with its code.                              *)
Stays(s) == status'[s].on = status[s].on /\ status'[s].code = status[s].code

(* A status that leaves edit mode only loses its box.                      *)
LEMMA ShutWent ==
    ASSUME StatusesOK, NEW S, status' = Shut(status, S)
    PROVE  /\ status' \in [StatusIds -> Status \cup {NoStatus}]
           /\ \A s \in StatusIds : Stays(s)
<1>1. \A s \in StatusIds : status'[s] = IF s \in S THEN [status[s] EXCEPT !.box = "none"] ELSE status[s]
  BY DEF Shut
<1>2. \A s \in StatusIds : status[s] \in Status \cup {NoStatus}
  BY DEF StatusesOK
<1>3. ASSUME NEW s \in StatusIds
      PROVE  LET x == [status[s] EXCEPT !.box = "none"]
             IN  x \in Status \cup {NoStatus} /\ x.on = status[s].on /\ x.code = status[s].code
  BY <1>2 DEF Status, NoStatus
<1>4. \A s \in StatusIds : status'[s] \in Status \cup {NoStatus}
  BY <1>1, <1>2, <1>3
<1>5. status' \in [StatusIds -> Status \cup {NoStatus}]
  BY <1>4 DEF Shut
<1>6. QED
  BY <1>1, <1>3, <1>5 DEF Stays

(* A link that is left out was embedded.                                   *)
LEMMA WithoutWent ==
    ASSUME LinksOK, NEW S \in SUBSET StatusIds, rote' = WithoutEmbedded(rote, S)
    PROVE  /\ rote' \in [LinkIds -> Rote \cup {NoRote}]
           /\ \A r \in LinkIds : Left(r)
<1>1. \A r \in LinkIds : rote'[r] = IF rote[r].parent \in S THEN NoRote ELSE rote[r]
  BY DEF WithoutEmbedded
<1>2. \A r \in LinkIds : rote[r].parent \in S => rote[r].parent # None
  BY Ids
<1>3. rote' \in [LinkIds -> Rote \cup {NoRote}]
  BY DEF WithoutEmbedded, LinksOK
<1>4. QED
  BY <1>1, <1>2, <1>3 DEF Left

(* A link changes to l, whatever becomes of the status that listens to it: *)
(* its ends and its code are those of l, and others only vanish if they    *)
(* are embedded.                                                           *)
LEMMA ChangeWent ==
    ASSUME EInv, NEW r \in Linked, NEW l \in Rote, Change(r, l)
    PROVE  /\ status' \in [StatusIds -> Status \cup {NoStatus}]
           /\ \A s \in StatusIds : Stays(s)
           /\ rote' \in [LinkIds -> Rote \cup {NoRote}]
           /\ rote'[r].on = l.on /\ rote'[r].code = l.code
           /\ rote'[r].source = l.source /\ rote'[r].target = l.target
           /\ rote'[r].opener = l.opener
           /\ \/ rote'[r].parent = None
              \/ rote'[r].parent = l.parent /\ (l.target = Point \/ l.opener = None)
           /\ \A q \in LinkIds \ {r} : Left(q)
<1>1. StatusesOK /\ LinksOK /\ r \in LinkIds
  BY DEF EInv, Linked
<1>2. CASE l.target # Point /\ l.opener # None
  <2> DEFINE k == [l EXCEPT !.parent = None]
             rt == [rote EXCEPT ![r] = k]
  <2>1. status' = Shut(status, {l.opener}) /\ rote' = WithoutEmbedded(rt, {l.opener})
    BY <1>2 DEF Change
  <2>2. /\ k \in Rote /\ k.parent = None
        /\ k.on = l.on /\ k.code = l.code /\ k.source = l.source /\ k.target = l.target
        /\ k.opener = l.opener
    BY DEF Rote
  <2> HIDE DEF k
  <2>3. /\ rt[r] = k /\ \A q \in LinkIds \ {r} : rt[q] = rote[q]
        /\ \A q \in LinkIds : rt[q] \in Rote \cup {NoRote}
    BY <1>1, <2>2 DEF LinksOK
  <2> HIDE DEF rt
  <2>4. \A q \in LinkIds : rote'[q] = IF rt[q].parent \in {l.opener} THEN NoRote ELSE rt[q]
    BY <2>1 DEF WithoutEmbedded
  <2>5. rote'[r] = k
    BY <1>1, <1>2, <2>2, <2>3, <2>4
  <2>6. ASSUME NEW q \in LinkIds \ {r} PROVE Left(q)
    BY <1>2, <2>3, <2>4 DEF Left
  <2>7. rote' \in [LinkIds -> Rote \cup {NoRote}]
    BY <2>1, <2>3 DEF WithoutEmbedded
  <2>8. /\ status' \in [StatusIds -> Status \cup {NoStatus}]
        /\ \A s \in StatusIds : Stays(s)
    BY <1>1, <2>1, ShutWent
  <2>9. QED
    BY <2>2, <2>5, <2>6, <2>7, <2>8
<1>3. CASE ~(l.target # Point /\ l.opener # None)
  <2>1. status' = status /\ rote' = [rote EXCEPT ![r] = l]
    BY <1>3 DEF Change
  <2>2. rote'[r] = l /\ \A q \in LinkIds \ {r} : rote'[q] = rote[q]
    BY <1>1, <2>1 DEF LinksOK
  <2>3. rote' \in [LinkIds -> Rote \cup {NoRote}]
    BY <1>1, <2>1 DEF LinksOK
  <2>4. QED
    BY <1>1, <1>3, <2>1, <2>2, <2>3 DEF StatusesOK, Stays, Left
<1>4. QED
  BY <1>2, <1>3

(* Where links and statuses stay or leave, what is left is as it was.      *)
LEMMA LeavesKeep ==
    ASSUME EInv, UNCHANGED <<tabs, name, currenttab>>,
           status' \in [StatusIds -> Status \cup {NoStatus}], \A s \in StatusIds : Stays(s),
           rote' \in [LinkIds -> Rote \cup {NoRote}], \A r \in LinkIds : Left(r)
    PROVE  EInv'
<1>1. \A s \in Drawn' : status'[s].on \in Shown
  BY DEF Stays, Drawn, EInv, StatusesOK
<1>2. \A s \in Drawn : status'[s].on = status[s].on
  BY DEF Stays, Drawn
<1>3. ASSUME NEW r \in Linked'
      PROVE  /\ r \in Linked /\ rote'[r].on = rote[r].on
             /\ rote'[r].source = rote[r].source /\ rote'[r].target = rote[r].target
             /\ rote'[r].parent = rote[r].parent
             /\ rote'[r].opener \in {rote[r].opener, None}
  <2>1. r \in LinkIds /\ rote'[r].on # None
    BY DEF Linked
  <2>2. rote'[r] = rote[r]
    BY <2>1 DEF Left, NoRote
  <2>3. QED
    BY <2>1, <2>2 DEF Linked
<1>4. QED
  BY <1>1, <1>2, <1>3, CellsStep

(* A link that changes keeps the invariant if its new ends are on its tab. *)
LEMMA ChangeKeeps ==
    ASSUME EInv, UNCHANGED <<tabs, name, currenttab>>, NEW r \in Linked, NEW l \in Rote,
           l.on = rote[r].on,
           \A e \in {l.source, l.target} \cap StatusIds : status[e].on = l.on,
           Change(r, l)
    PROVE  EInv'
<1>1. /\ status' \in [StatusIds -> Status \cup {NoStatus}]
      /\ \A s \in StatusIds : Stays(s)
      /\ rote' \in [LinkIds -> Rote \cup {NoRote}]
      /\ \A q \in LinkIds \ {r} : Left(q)
  BY ChangeWent
<1>2. /\ rote'[r].on = l.on /\ rote'[r].source = l.source /\ rote'[r].target = l.target
      /\ rote'[r].opener = l.opener
      /\ \/ rote'[r].parent = None
         \/ rote'[r].parent = l.parent /\ (l.target = Point \/ l.opener = None)
  BY ChangeWent
<1>3. \A s \in Drawn' : status'[s].on \in Shown
  BY <1>1 DEF Stays, Drawn, EInv, StatusesOK
<1>4. \A s \in Drawn : status'[s].on = status[s].on
  BY <1>1 DEF Stays, Drawn
<1>5. rote'[r].on \in Shown /\ Attached(r)' /\ Embedded(r)'
  <2>1. rote'[r].on \in Shown
    BY <1>2 DEF EInv, LinksOK
  <2>2. Attached(r)'
    BY <1>1, <1>2 DEF Attached, Stays
  <2>3. Embedded(r)'
    BY <1>2 DEF Embedded
  <2>4. QED
    BY <2>1, <2>2, <2>3
<1>6. ASSUME NEW q \in Linked', q # r
      PROVE  /\ q \in Linked /\ rote'[q].on = rote[q].on
             /\ rote'[q].source = rote[q].source /\ rote'[q].target = rote[q].target
             /\ rote'[q].parent = rote[q].parent
             /\ rote'[q].opener \in {rote[q].opener, None}
  <2>1. q \in LinkIds \ {r} /\ rote'[q].on # None
    BY <1>6 DEF Linked
  <2>2. rote'[q] = rote[q]
    BY <1>1, <2>1 DEF Left, NoRote
  <2>3. QED
    BY <2>1, <2>2 DEF Linked
<1>7. QED
  BY <1>1, <1>3, <1>4, <1>5, <1>6, CellsStep

(* An arrowhead that is moved. *)
LEMMA MoveKeeps ==
    ASSUME EInv, NEW r \in LinkIds, NEW to \in Ends, MoveSource(r, to) \/ MoveTarget(r, to)
    PROVE  EInv'
<1>1. /\ r \in Linked /\ rote[r] \in Rote
      /\ rote[r].on = Current /\ Attached(r)
      /\ to \in StatusIds => status[to].on = Current
      /\ UNCHANGED <<tabs, name, currenttab>>
  BY LinkedIsRote DEF MoveSource, MoveTarget, Linked, EInv, LinksOK
<1>2. CASE MoveSource(r, to)
  <2> DEFINE l == [rote[r] EXCEPT !.source = to]
  <2>1. l \in Rote /\ l.on = rote[r].on /\ l.source = to /\ l.target = rote[r].target
    BY <1>1 DEF Rote
  <2>2. Change(r, l)
    BY <1>2 DEF MoveSource
  <2> HIDE DEF l
  <2>3. \A e \in {l.source, l.target} \cap StatusIds : status[e].on = l.on
    BY <1>1, <2>1 DEF Attached
  <2>4. QED
    BY <1>1, <2>1, <2>2, <2>3, ChangeKeeps
<1>3. CASE MoveTarget(r, to)
  <2> DEFINE l == [rote[r] EXCEPT !.target = to]
  <2>1. l \in Rote /\ l.on = rote[r].on /\ l.source = rote[r].source /\ l.target = to
    BY <1>1 DEF Rote
  <2>2. Change(r, l)
    BY <1>3 DEF MoveTarget
  <2> HIDE DEF l
  <2>3. \A e \in {l.source, l.target} \cap StatusIds : status[e].on = l.on
    BY <1>1, <2>1 DEF Attached
  <2>4. QED
    BY <1>1, <2>1, <2>2, <2>3, ChangeKeeps
<1>4. QED
  BY <1>2, <1>3

(* A link that gets a code, or is removed. *)
LEMMA LinkKeeps ==
    ASSUME EInv, NEW r \in LinkIds, NEW c \in Codes, EditLink(r, c) \/ RemoveLink(r)
    PROVE  EInv'
<1>1. CASE EditLink(r, c)
  <2> DEFINE l == [rote[r] EXCEPT !.code = c]
  <2>1. r \in Linked /\ rote[r] \in Rote /\ Attached(r) /\ UNCHANGED <<tabs, name, currenttab>>
    BY <1>1, LinkedIsRote DEF EditLink, Linked, EInv, LinksOK
  <2>2. /\ l \in Rote /\ l.on = rote[r].on
        /\ l.source = rote[r].source /\ l.target = rote[r].target
    BY <2>1 DEF Rote
  <2>3. Change(r, l)
    BY <1>1 DEF EditLink
  <2> HIDE DEF l
  <2>4. \A e \in {l.source, l.target} \cap StatusIds : status[e].on = l.on
    BY <2>1, <2>2 DEF Attached
  <2>5. QED
    BY <2>1, <2>2, <2>3, <2>4, ChangeKeeps
<1>2. CASE RemoveLink(r)
  <2>1. /\ rote' \in [LinkIds -> Rote \cup {NoRote}]
        /\ \A q \in Linked' : q \in Linked /\ rote'[q] = rote[q]
        /\ UNCHANGED <<tabs, name, currenttab, status>>
    BY <1>2 DEF RemoveLink, EInv, LinksOK, Linked, NoRote
  <2>2. StatusesOK /\ Drawn' = Drawn
    BY <2>1 DEF EInv, Drawn
  <2>3. QED
    BY <2>1, <2>2, CellsStep DEF StatusesOK
<1>3. QED
  BY <1>1, <1>2

(* A status leaves edit mode, with a new code or none.                     *)
LEMMA LeaveEditKeeps ==
    ASSUME EInv, NEW s \in StatusIds, NEW c \in Codes,
           UpdateStatus(s, c) \/ Cancel(s) \/ DismissDead(s)
    PROVE  EInv'
<1>1. StatusesOK /\ LinksOK /\ UNCHANGED <<tabs, name, currenttab>>
  BY DEF EInv, UpdateStatus, Cancel, DismissDead
<1>2. CASE Cancel(s)
  <2>1. status' = Shut(status, {s}) /\ rote' = WithoutEmbedded(rote, {s})
    BY <1>2 DEF Cancel, CloseEditBox
  <2>2. QED
    BY <1>1, <2>1, ShutWent, WithoutWent, LeavesKeep
<1>3. ASSUME UpdateStatus(s, c) \/ DismissDead(s)
      PROVE  /\ status' \in [StatusIds -> Status \cup {NoStatus}]
             /\ \A z \in StatusIds : status'[z].on = status[z].on
             /\ \A r \in LinkIds : Left(r)
             /\ rote' \in [LinkIds -> Rote \cup {NoRote}]
  <2>1. status[s] \in Status
    BY <1>1, <1>3, DrawnIsStatus DEF UpdateStatus, DismissDead, NoStatus
  <2>2. /\ [status[s] EXCEPT !.code = c, !.box = "none"] \in Status
        /\ [status[s] EXCEPT !.code = c, !.box = "none"].on = status[s].on
        /\ [status[s] EXCEPT !.box = "none"] \in Status
        /\ [status[s] EXCEPT !.box = "none"].on = status[s].on
    BY <2>1 DEF Status
  <2>3. \/ status' = [status EXCEPT ![s] = [status[s] EXCEPT !.code = c, !.box = "none"]]
        \/ status' = [status EXCEPT ![s] = [status[s] EXCEPT !.box = "none"]]
    BY <1>1, <1>3 DEF UpdateStatus, DismissDead, StatusesOK
  <2>4. /\ status' \in [StatusIds -> Status \cup {NoStatus}]
        /\ \A z \in StatusIds : status'[z].on = status[z].on
    BY <1>1, <2>1, <2>2, <2>3 DEF StatusesOK
  <2>5. rote' = rote \/ rote' = WithoutEmbedded(rote, {s})
    BY <1>3 DEF UpdateStatus, DismissDead
  <2>6. (\A r \in LinkIds : Left(r)) /\ rote' \in [LinkIds -> Rote \cup {NoRote}]
    BY <1>1, <2>5, WithoutWent DEF Left, LinksOK
  <2>7. QED
    BY <2>4, <2>6
<1>4. ASSUME UpdateStatus(s, c) \/ DismissDead(s) PROVE EInv'
  <2>1. \A r \in Linked' : r \in Linked /\ rote'[r] = rote[r]
    BY <1>3, <1>4 DEF Left, Linked, NoRote
  <2>2. \A z \in Drawn' : status'[z].on \in Shown
    BY <1>1, <1>3, <1>4 DEF Drawn, StatusesOK
  <2>3. QED
    BY <1>1, <1>3, <1>4, <2>1, <2>2, CellsStep DEF Drawn
<1>5. QED
  BY <1>2, <1>4

(* Every status of the tab leaves edit mode.                               *)
LEMMA BlankClickKeeps ==
    ASSUME EInv, BlankClick
    PROVE  EInv'
<1> DEFINE S == {s \in StatusIds : status[s].on = Current}
<1>1. /\ status' = Shut(status, S) /\ rote' = WithoutEmbedded(rote, S)
      /\ UNCHANGED <<tabs, name, currenttab>>
  BY DEF BlankClick, CloseEditBox
<1>2. S \in SUBSET StatusIds /\ StatusesOK /\ LinksOK
  BY DEF EInv
<1>3. QED
  BY <1>1, <1>2, ShutWent, WithoutWent, LeavesKeep

(* A status that is deleted is at the end of no link any more.             *)
LEMMA DeleteStatusKeeps ==
    ASSUME EInv, NEW s \in StatusIds, DeleteStatus(s)
    PROVE  EInv'
<1>1. StatusesOK /\ LinksOK /\ UNCHANGED <<tabs, name, currenttab>>
  BY DEF EInv, DeleteStatus
<1>2. /\ status' \in [StatusIds -> Status \cup {NoStatus}]
      /\ status'[s] = NoStatus /\ \A z \in StatusIds \ {s} : status'[z] = status[z]
  BY <1>1 DEF DeleteStatus, StatusesOK
<1>3. \A r \in LinkIds : rote'[r] =
         IF s \in {rote[r].parent, rote[r].source, rote[r].target} THEN NoRote
         ELSE IF rote[r].opener = s THEN [rote[r] EXCEPT !.opener = None] ELSE rote[r]
  BY DEF DeleteStatus
<1>4. ASSUME NEW r \in LinkIds
      PROVE  LET x == [rote[r] EXCEPT !.opener = None]
             IN  /\ x \in Rote \cup {NoRote}
                 /\ x.on = rote[r].on /\ x.source = rote[r].source /\ x.target = rote[r].target
                 /\ x.parent = rote[r].parent /\ x.opener = None
  BY <1>1, LinkedIsRote DEF Rote, NoRote
<1>5. \A r \in LinkIds : rote'[r] \in Rote \cup {NoRote}
  BY <1>1, <1>3, <1>4 DEF LinksOK
<1>6. rote' \in [LinkIds -> Rote \cup {NoRote}]
  BY <1>5 DEF DeleteStatus
<1>7. ASSUME NEW r \in Linked'
      PROVE  /\ r \in Linked /\ rote'[r].on = rote[r].on
             /\ rote'[r].source = rote[r].source /\ rote'[r].target = rote[r].target
             /\ rote'[r].parent = rote[r].parent
             /\ rote'[r].opener \in {rote[r].opener, None}
             /\ s \notin {rote'[r].source, rote'[r].target}
  <2>1. r \in LinkIds /\ rote'[r].on # None
    BY DEF Linked
  <2>2. s \notin {rote[r].parent, rote[r].source, rote[r].target}
    <3>1. SUFFICES ASSUME s \in {rote[r].parent, rote[r].source, rote[r].target} PROVE FALSE
      OBVIOUS
    <3>2. rote'[r] = NoRote
      BY <1>3, <2>1, <3>1
    <3>3. QED
      BY <2>1, <3>2 DEF NoRote
  <2>3. QED
    BY <1>3, <1>4, <2>1, <2>2 DEF Linked
<1>8. \A z \in Drawn' : status'[z].on \in Shown
  BY <1>1, <1>2 DEF Drawn, StatusesOK, NoStatus
<1>9. \A z \in Drawn : \/ status'[z].on = status[z].on
                       \/ \A r \in Linked' : z \notin {rote'[r].source, rote'[r].target}
  BY <1>2, <1>7 DEF Drawn
<1>10. QED
  BY <1>1, <1>2, <1>6, <1>7, <1>8, <1>9, CellsStep

(* A new link is numbered among all links.                                 *)
LEMMA OpenEditBoxWent ==
    ASSUME EInv, NEW s \in StatusIds, NEW r \in LinkIds, OpenEditBox(s, r)
    PROVE  /\ status' \in [StatusIds -> Status \cup {NoStatus}]
           /\ \A z \in StatusIds : Stays(z)
           /\ rote' \in [LinkIds -> Rote \cup {NoRote}]
           /\ r \notin Linked /\ Linked' = Linked \cup {r}
           /\ rote'[r].on = Current /\ rote'[r].source = s /\ rote'[r].target = Point
           /\ rote'[r].code \notin LinkCodes(Linked)
           /\ \A q \in LinkIds \ {r} : rote'[q] = rote[q]
<1> DEFINE n == FirstFree(LinkCodes(Linked))
           new == [on |-> Current, code |-> n, source |-> s, target |-> Point,
                   parent |-> s, opener |-> s]
<1>1. /\ StatusesOK /\ LinksOK /\ TabsOK /\ Current # None /\ status[s].on = Current
      /\ r \notin Linked /\ status' = [status EXCEPT ![s].box = "open"]
      /\ rote' = [rote EXCEPT ![r] = new]
  BY DEF EInv, OpenEditBox
<1>2. n \in 1..MaxCode /\ n \notin LinkCodes(Linked)
  <2>1. Linked \in SUBSET (LinkIds \ {r})
    BY <1>1 DEF Linked
  <2>2. QED
    BY <2>1, LinkCodesFree
<1>3. Current \in Tabs
  BY <1>1, CurrentIsShown
<1>4. /\ new \in Rote /\ new.on = Current /\ new.code = n
      /\ new.source = s /\ new.target = Point
  BY <1>2, <1>3, Ids DEF Rote, Codes, Ends
<1> HIDE DEF new, n
<1>5. /\ rote'[r] = new /\ \A q \in LinkIds \ {r} : rote'[q] = rote[q]
      /\ rote' \in [LinkIds -> Rote \cup {NoRote}]
  BY <1>1, <1>4 DEF LinksOK
<1>6. Linked' = Linked \cup {r}
  BY <1>1, <1>4, <1>5 DEF Linked
<1>7. s \in Drawn
  BY <1>1 DEF Drawn
<1>8. LET x == [status[s] EXCEPT !.box = "open"]
      IN  x \in Status /\ x.on = status[s].on /\ x.code = status[s].code
  BY <1>1, <1>7, DrawnIsStatus DEF Status
<1>9. status' = [status EXCEPT ![s] = [status[s] EXCEPT !.box = "open"]]
  BY <1>1 DEF StatusesOK
<1>10. /\ status' \in [StatusIds -> Status \cup {NoStatus}]
       /\ \A z \in StatusIds : Stays(z)
  BY <1>1, <1>8, <1>9 DEF Stays, StatusesOK
<1>11. QED
  BY <1>1, <1>2, <1>4, <1>5, <1>6, <1>10

(* It is connected to its status only.                                     *)
LEMMA OpenEditBoxKeeps ==
    ASSUME EInv, NEW s \in StatusIds, NEW r \in LinkIds, OpenEditBox(s, r)
    PROVE  EInv'
<1>1. /\ UNCHANGED <<tabs, name, currenttab>> /\ status[s].on = Current /\ Current # None
  BY DEF OpenEditBox
<1>2. Current \in Shown
  BY <1>1, CurrentIsShown DEF EInv
<1>3. rote'[r].on \in Shown /\ Attached(r)' /\ Embedded(r)'
  <2>1. rote'[r].on = Current /\ rote'[r].source = s /\ rote'[r].target = Point
    BY OpenEditBoxWent
  <2>2. status'[s].on = Current
    BY <1>1, OpenEditBoxWent DEF Stays
  <2>3. QED
    BY <1>2, <2>1, <2>2, Ids DEF Attached, Embedded
<1>4. \A q \in Linked' : q # r => q \in Linked /\ rote'[q] = rote[q]
  <2>1. /\ Linked' = Linked \cup {r}
        /\ \A q \in LinkIds \ {r} : rote'[q] = rote[q]
    BY OpenEditBoxWent
  <2>2. Linked \subseteq LinkIds
    BY DEF Linked
  <2>3. QED
    BY <2>1, <2>2
<1>5. \A z \in Drawn' : status'[z].on \in Shown
  BY OpenEditBoxWent DEF Stays, Drawn, EInv, StatusesOK
<1>6. \A z \in Drawn : status'[z].on = status[z].on
  BY OpenEditBoxWent DEF Stays, Drawn
<1>7. QED
  BY <1>1, <1>3, <1>4, <1>5, <1>6, OpenEditBoxWent, CellsStep

(* A new status is on the tab that is shown.                               *)
LEMMA AddStatusKeeps ==
    ASSUME EInv, NEW s \in StatusIds, AddStatus(s)
    PROVE  EInv'
<1>1. AddTo(s, Current) /\ Current # None /\ UNCHANGED <<tabs, name, currenttab, rote>>
  BY DEF AddStatus
<1>2. Current \in Shown /\ Current \in Tabs
  BY <1>1, CurrentIsShown DEF EInv
<1>3. /\ status' \in [StatusIds -> Status \cup {NoStatus}]
      /\ s \notin Drawn /\ Drawn' = Drawn \cup {s} /\ status'[s].on = Current
      /\ \A z \in StatusIds : z # s => status'[z] = status[z]
  BY <1>1, <1>2, AddToWent DEF EInv
<1>4. \A z \in Drawn : z # s /\ z \in StatusIds
  BY <1>3 DEF Drawn
<1>5. \A z \in Drawn' : status'[z].on \in Shown
  BY <1>2, <1>3, <1>4 DEF EInv, StatusesOK
<1>6. \A q \in Linked' : q \in Linked /\ rote'[q] = rote[q]
  BY <1>1 DEF Linked
<1>7. QED
  BY <1>1, <1>3, <1>4, <1>5, <1>6, CellsStep DEF EInv, LinksOK

-------------------------------------------------------------------------------
(* Tabs. *)

(* A new tab comes last, with a status that no link has as its end.        *)
LEMMA NewTabKeeps ==
    ASSUME EInv, NEW t \in Tabs, NEW s \in StatusIds, NewTab(t, s)
    PROVE  EInv'
<1>1. /\ TabsOK /\ StatusesOK /\ LinksOK
      /\ t \notin Shown /\ tabs' = Append(tabs, t) /\ name' = [name EXCEPT ![t] = NoName]
      /\ currenttab' = Len(tabs) + 1 /\ AddTo(s, t) /\ rote' = rote
  BY DEF EInv, NewTab, Shown
<1>2. /\ Len(tabs) \in Nat /\ DOMAIN tabs = 1..Len(tabs)
      /\ tabs' \in Seq(Tabs) /\ Len(tabs') = Len(tabs) + 1 /\ DOMAIN tabs' = 1..(Len(tabs) + 1)
      /\ tabs'[Len(tabs) + 1] = t /\ \A i \in 1..Len(tabs) : tabs'[i] = tabs[i]
  BY <1>1 DEF TabsOK
<1>3. Shown' = Shown \cup {t}
  <2>1. \A i \in DOMAIN tabs' : tabs'[i] \in Shown \cup {t}
    BY <1>2 DEF Shown
  <2>2. Len(tabs) + 1 \in DOMAIN tabs' /\ \A i \in DOMAIN tabs : i \in DOMAIN tabs' /\ tabs'[i] = tabs[i]
    BY <1>2
  <2>3. QED
    BY <1>2, <2>1, <2>2 DEF Shown
<1>4. TabsOK'
  <2>1. ASSUME NEW i \in DOMAIN tabs', NEW j \in DOMAIN tabs', tabs'[i] = tabs'[j] PROVE i = j
    <3>1. \A k \in 1..Len(tabs) : tabs[k] # t
      BY <1>1, <1>2 DEF Shown
    <3>2. QED
      BY <1>1, <1>2, <2>1, <3>1 DEF TabsOK
  <2>2. name' \in [Tabs -> Names] /\ \A u \in Tabs \ Shown' : name'[u] = NoName
    BY <1>1, <1>3, Ids DEF TabsOK
  <2>3. QED
    BY <1>1, <1>2, <2>1, <2>2 DEF TabsOK
<1>5. /\ status' \in [StatusIds -> Status \cup {NoStatus}]
      /\ s \notin Drawn /\ Drawn' = Drawn \cup {s} /\ status'[s].on = t
      /\ \A z \in StatusIds : z # s => status'[z] = status[z]
  BY <1>1, AddToWent
<1>6. \A z \in Drawn : z # s /\ z \in StatusIds
  BY <1>5 DEF Drawn
<1>7. StatusesOK'
  BY <1>1, <1>3, <1>5, <1>6 DEF StatusesOK
<1>8. ASSUME NEW r \in Linked' PROVE rote'[r].on \in Shown' /\ Attached(r)' /\ Embedded(r)'
  <2>1. r \in Linked /\ rote[r].on \in Shown /\ Attached(r) /\ Embedded(r) /\ rote[r].on # None
    BY <1>1, <1>8 DEF LinksOK, Linked
  <2>2. ASSUME NEW e \in {rote[r].source, rote[r].target} \cap StatusIds
        PROVE  status'[e].on = rote[r].on
    <3>1. status[e].on = rote[r].on
      BY <2>1 DEF Attached
    <3>2. e # s
      BY <1>5, <2>1, <3>1 DEF Drawn
    <3>3. QED
      BY <1>5, <3>1, <3>2
  <2>3. QED
    BY <1>1, <1>3, <2>1, <2>2 DEF Attached, Embedded
<1>9. LinksOK'
  BY <1>1, <1>8 DEF LinksOK
<1>10. QED
  BY <1>4, <1>7, <1>9 DEF EInv

(* A sequence without one of its places (tabs.splice).                     *)
LEMMA Dropped ==
    ASSUME NEW S, NEW q \in Seq(S), NEW i \in 1..Len(q)
    PROVE  LET c == SubSeq(q, 1, i - 1) \o SubSeq(q, i + 1, Len(q)) IN
           /\ c \in Seq(S) /\ Len(c) = Len(q) - 1
           /\ \A k \in 1..(Len(q) - 1) : c[k] = IF k < i THEN q[k] ELSE q[k + 1]
<1> DEFINE a == SubSeq(q, 1, i - 1)
           b == SubSeq(q, i + 1, Len(q))
<1>1. Len(q) \in Nat /\ i \in Nat
  OBVIOUS
<1>2. a \in Seq(S) /\ Len(a) = i - 1 /\ \A k \in 1..(i - 1) : a[k] = q[k]
  OBVIOUS
<1>3. /\ b \in Seq(S) /\ Len(b) = Len(q) - i
      /\ \A k \in 1..(Len(q) - i) : b[k] = q[k + i]
  OBVIOUS
<1> HIDE DEF a, b
<1>4. /\ a \o b \in Seq(S) /\ Len(a \o b) = Len(a) + Len(b)
      /\ \A k \in 1..(Len(a) + Len(b)) :
            (a \o b)[k] = IF k <= Len(a) THEN a[k] ELSE b[k - Len(a)]
  BY <1>2, <1>3, ConcatProperties
<1>5. /\ a \o b \in Seq(S) /\ Len(a \o b) = Len(q) - 1
      /\ \A k \in 1..(Len(q) - 1) : (a \o b)[k] = IF k < i THEN q[k] ELSE q[k + 1]
  BY <1>1, <1>2, <1>3, <1>4
<1>6. QED
  BY <1>5 DEF a, b

(* The tabs without one of them. *)
LEMMA Cut ==
    ASSUME TabsOK, NEW i \in DOMAIN tabs,
           tabs' = SubSeq(tabs, 1, i - 1) \o SubSeq(tabs, i + 1, Len(tabs))
    PROVE  /\ tabs' \in Seq(Tabs) /\ Len(tabs') = Len(tabs) - 1 /\ Len(tabs) \in Nat
           /\ \A j, k \in DOMAIN tabs' : tabs'[j] = tabs'[k] => j = k
           /\ Shown' = Shown \ {tabs[i]}
<1> DEFINE n == Len(tabs)
           old(k) == IF k < i THEN k ELSE k + 1
<1>1. tabs \in Seq(Tabs) /\ n \in Nat /\ DOMAIN tabs = 1..n /\ i \in 1..n
  BY DEF TabsOK
<1>2. \A k \in 1..(n - 1) : old(k) \in (1..n) \ {i}
  BY <1>1
<1>3. /\ tabs' \in Seq(Tabs) /\ Len(tabs') = n - 1 /\ DOMAIN tabs' = 1..(n - 1)
      /\ \A k \in 1..(n - 1) : tabs'[k] = tabs[old(k)]
  <2> DEFINE c == SubSeq(tabs, 1, i - 1) \o SubSeq(tabs, i + 1, Len(tabs))
  <2>1. /\ c \in Seq(Tabs) /\ Len(c) = n - 1
        /\ \A k \in 1..(n - 1) : c[k] = IF k < i THEN tabs[k] ELSE tabs[k + 1]
    BY <1>1, Dropped
  <2>2. tabs' = c
    OBVIOUS
  <2> HIDE DEF c
  <2>3. DOMAIN tabs' = 1..(n - 1)
    BY <1>1, <2>1, <2>2
  <2>4. QED
    BY <2>1, <2>2, <2>3
<1>4. \A j, k \in 1..n : tabs[j] = tabs[k] => j = k
  BY <1>1 DEF TabsOK
<1>5. ASSUME NEW j \in 1..(n - 1), NEW k \in 1..(n - 1), tabs'[j] = tabs'[k] PROVE j = k
  <2>1. old(j) \in 1..n /\ old(k) \in 1..n /\ tabs[old(j)] = tabs[old(k)]
    BY <1>2, <1>3, <1>5
  <2>2. old(j) = old(k)
    BY <1>4, <2>1
  <2>3. QED
    BY <1>1, <2>2
<1>6. Shown' = Shown \ {tabs[i]}
  <2>1. ASSUME NEW k \in 1..(n - 1) PROVE tabs'[k] \in Shown \ {tabs[i]}
    <3>1. old(k) \in 1..n /\ old(k) # i /\ tabs'[k] = tabs[old(k)]
      BY <1>2, <1>3
    <3>2. tabs[old(k)] # tabs[i]
      BY <1>1, <1>4, <3>1
    <3>3. QED
      BY <1>1, <3>1, <3>2 DEF Shown
  <2>2. ASSUME NEW t \in Shown, t # tabs[i] PROVE \E k \in 1..(n - 1) : tabs'[k] = t
    <3>1. PICK m \in 1..n : tabs[m] = t
      BY <1>1 DEF Shown
    <3>2. m # i
      BY <2>2, <3>1
    <3>3. CASE m < i
      <4>1. m \in 1..(n - 1) /\ old(m) = m
        BY <1>1, <3>3
      <4>2. QED
        BY <1>3, <3>1, <4>1
    <3>4. CASE m > i
      <4>1. m - 1 \in 1..(n - 1) /\ old(m - 1) = m
        BY <1>1, <3>4
      <4>2. QED
        BY <1>3, <3>1, <4>1
    <3>5. m < i \/ m > i
      BY <1>1, <3>2
    <3>6. QED
      BY <3>3, <3>4, <3>5
  <2>3. Shown' = {tabs'[k] : k \in 1..(n - 1)}
    BY <1>3 DEF Shown
  <2>4. \A t \in Shown' : t \in Shown \ {tabs[i]}
    BY <2>1, <2>3
  <2>5. \A t \in Shown \ {tabs[i]} : t \in Shown'
    BY <2>2, <2>3
  <2>6. QED
    BY <2>4, <2>5
<1>7. QED
  BY <1>1, <1>3, <1>5, <1>6

(* What was drawn on a tab goes with it, and nothing else.                 *)
LEMMA CloseTabWent ==
    ASSUME EInv, NEW i \in DOMAIN tabs, CloseTab(i)
    PROVE  /\ Shown' = Shown \ {tabs[i]}
           /\ status' \in [StatusIds -> Status \cup {NoStatus}]
           /\ rote' \in [LinkIds -> Rote \cup {NoRote}]
           /\ \A s \in Drawn' : s \in Drawn /\ status'[s] = status[s]
           /\ \A r \in Linked' : r \in Linked /\ rote'[r] = rote[r]
           /\ \A s \in Drawn : status[s].on # tabs[i] => status'[s] = status[s]
           /\ \A r \in Linked : rote[r].on # tabs[i] => rote'[r] = rote[r]
           /\ \A s \in Drawn' : status[s].on # tabs[i]
           /\ \A r \in Linked' : rote[r].on # tabs[i]
<1>1. Shown' = Shown \ {tabs[i]}
  BY Cut DEF CloseTab, EInv
<1>2. /\ status' = [s \in StatusIds |-> IF status[s].on = tabs[i] THEN NoStatus ELSE status[s]]
      /\ rote' = [r \in LinkIds |-> IF rote[r].on = tabs[i] THEN NoRote ELSE rote[r]]
  BY DEF CloseTab
<1>3. /\ status' \in [StatusIds -> Status \cup {NoStatus}]
      /\ rote' \in [LinkIds -> Rote \cup {NoRote}]
  BY <1>2 DEF EInv, StatusesOK, LinksOK
<1>4. NoStatus.on = None /\ NoRote.on = None
  BY DEF NoStatus, NoRote
<1>5. \A s \in StatusIds : status'[s] = IF status[s].on = tabs[i] THEN NoStatus ELSE status[s]
  BY <1>2
<1>6. \A r \in LinkIds : rote'[r] = IF rote[r].on = tabs[i] THEN NoRote ELSE rote[r]
  BY <1>2
<1>7. /\ \A s \in Drawn' : s \in Drawn /\ status'[s] = status[s] /\ status[s].on # tabs[i]
      /\ \A s \in Drawn : status[s].on # tabs[i] => status'[s] = status[s]
  BY <1>4, <1>5 DEF Drawn
<1>8. /\ \A r \in Linked' : r \in Linked /\ rote'[r] = rote[r] /\ rote[r].on # tabs[i]
      /\ \A r \in Linked : rote[r].on # tabs[i] => rote'[r] = rote[r]
  BY <1>4, <1>6 DEF Linked
<1>9. QED
  BY <1>1, <1>3, <1>7, <1>8

(* What is left is as it was, and the tab that is shown is one of it.      *)
LEMMA CloseTabKeeps ==
    ASSUME EInv, NEW i \in DOMAIN tabs, CloseTab(i)
    PROVE  EInv'
<1>1. /\ TabsOK /\ StatusesOK /\ LinksOK
      /\ tabs' = SubSeq(tabs, 1, i - 1) \o SubSeq(tabs, i + 1, Len(tabs))
      /\ name' = [name EXCEPT ![tabs[i]] = NoName]
      /\ currenttab' = IF Len(tabs) = 1 THEN 0 ELSE IF i = 1 THEN 1 ELSE i - 1
  BY DEF EInv, CloseTab
<1>2. /\ tabs' \in Seq(Tabs) /\ Len(tabs') = Len(tabs) - 1 /\ Len(tabs) \in Nat
      /\ \A j, k \in DOMAIN tabs' : tabs'[j] = tabs'[k] => j = k
      /\ Shown' = Shown \ {tabs[i]}
  BY <1>1, Cut
<1>3. i \in 1..Len(tabs) /\ tabs[i] \in Tabs
  BY <1>1 DEF TabsOK
<1>4. currenttab' \in 0..Len(tabs')
  BY <1>1, <1>2, <1>3
<1>5. name' \in [Tabs -> Names] /\ \A u \in Tabs \ Shown' : name'[u] = NoName
  BY <1>1, <1>2, <1>3, Ids DEF TabsOK
<1>6. TabsOK'
  BY <1>2, <1>4, <1>5 DEF TabsOK
<1>7. StatusesOK'
  <2>1. \A s \in Drawn' : status'[s].on \in Shown'
    BY <1>1, CloseTabWent DEF StatusesOK
  <2>2. QED
    BY <2>1, CloseTabWent DEF StatusesOK
<1>8. ASSUME NEW r \in Linked' PROVE rote'[r].on \in Shown' /\ Attached(r)' /\ Embedded(r)'
  <2>1. /\ r \in Linked /\ rote'[r] = rote[r] /\ rote[r].on # tabs[i]
        /\ rote[r].on \in Shown /\ Attached(r) /\ Embedded(r) /\ rote[r].on # None
    BY <1>1, CloseTabWent DEF LinksOK, Linked
  <2>2. ASSUME NEW e \in {rote[r].source, rote[r].target} \cap StatusIds
        PROVE  status'[e].on = rote[r].on
    <3>1. status[e].on = rote[r].on
      BY <2>1 DEF Attached
    <3>2. e \in Drawn
      BY <2>1, <3>1 DEF Drawn
    <3>3. QED
      BY <2>1, <3>1, <3>2, CloseTabWent
  <2>3. QED
    BY <1>2, <2>1, <2>2 DEF Attached, Embedded
<1>9. LinksOK'
  BY <1>8, CloseTabWent DEF LinksOK
<1>10. QED
  BY <1>6, <1>7, <1>9 DEF EInv

(* To show another tab or to name one, from the home screen the last one,  *)
(* changes no cell.                                                        *)
LEMMA OtherTabsKeep ==
    ASSUME EInv, (\E i \in 0..Len(tabs) : ChangeTab(i)) \/ (\E n \in Names : RenameTab(n))
    PROVE  EInv'
<1>1. UNCHANGED <<tabs, status, rote>> /\ TabsOK /\ StatusesOK /\ LinksOK
  BY DEF ChangeTab, RenameTab, EInv
<1>2. Shown' = Shown /\ Drawn' = Drawn /\ Linked' = Linked
  BY <1>1 DEF Shown, Drawn, Linked
<1>3. StatusesOK' /\ LinksOK'
  BY <1>1, <1>2 DEF StatusesOK, LinksOK, Attached, Embedded
<1>4. CASE \E i \in 0..Len(tabs) : ChangeTab(i)
  BY <1>1, <1>2, <1>3, <1>4 DEF ChangeTab, TabsOK, EInv
<1>5. CASE \E n \in Names : RenameTab(n)
  <2>1. PICK n \in Names : RenameTab(n)
    BY <1>5
  <2> DEFINE t == IF currenttab = 0 THEN tabs[Len(tabs)] ELSE Current
  <2>2. name' = [name EXCEPT ![t] = n] /\ UNCHANGED currenttab /\ tabs # <<>>
    BY <2>1 DEF RenameTab
  <2>3. t \in Shown
    <3>1. DOMAIN tabs = 1..Len(tabs) /\ Len(tabs) \in Nat /\ Len(tabs) # 0
      BY <1>1, <2>2 DEF TabsOK
    <3>2. \A i \in 1..Len(tabs) : tabs[i] \in Shown
      BY <3>1 DEF Shown
    <3>3. Len(tabs) \in 1..Len(tabs) /\ (currenttab # 0 => currenttab \in 1..Len(tabs))
      BY <1>1, <3>1 DEF TabsOK
    <3>4. QED
      BY <3>2, <3>3 DEF Current
  <2> HIDE DEF t
  <2>4. name' \in [Tabs -> Names] /\ \A u \in Tabs \ Shown : name'[u] = NoName
    BY <1>1, <2>2, <2>3 DEF TabsOK
  <2>5. TabsOK'
    BY <1>1, <1>2, <2>2, <2>4 DEF TabsOK
  <2>6. QED
    BY <1>3, <2>5 DEF EInv
<1>6. QED
  BY <1>4, <1>5

-------------------------------------------------------------------------------
(* Saving and loading. *)

(* The keys that are written come in one order, as tabs of the same name   *)
(* have one key.                                                           *)
LEMMA KeysOrdered ==
    ASSUME TabsOK, NEW i \in FirstOfName, NEW j \in FirstOfName, NEW k \in FirstOfName
    PROVE  /\ Precedes(i, i)
           /\ Precedes(i, j) \/ Precedes(j, i)
           /\ Precedes(i, j) /\ Precedes(j, i) => i = j
           /\ Precedes(i, j) /\ Precedes(j, k) => Precedes(i, k)
<1>1. i \in Nat /\ j \in Nat /\ k \in Nat
  BY DEF FirstOfName, TabsOK
<1>2. Numerals \subseteq Nat
  BY EditorAssumption
<1>3. name[tabs[i]] = name[tabs[j]] => i = j
  <2>1. i < j => i \in 1..(j - 1)
    BY <1>1 DEF FirstOfName, TabsOK
  <2>2. j < i => j \in 1..(i - 1)
    BY <1>1 DEF FirstOfName, TabsOK
  <2>3. QED
    BY <1>1, <2>1, <2>2 DEF FirstOfName
<1> DEFINE val(x) == name[tabs[x]]
           num(x) == val(x) \in Numerals
<1>4. \A x, y : Precedes(x, y) <=> \/ num(x) /\ (num(y) => val(x) <= val(y))
                                   \/ ~num(x) /\ ~num(y) /\ x <= y
  BY DEF Precedes
<1>5. \A x : num(x) => val(x) \in Nat
  BY <1>2
<1>6. val(i) = val(j) => i = j
  BY <1>3
<1> HIDE DEF num, val
<1>7. Precedes(i, j) /\ Precedes(j, i) => i = j
  BY <1>1, <1>4, <1>5, <1>6
<1>8. Precedes(i, i) /\ (Precedes(i, j) \/ Precedes(j, i))
  BY <1>1, <1>4, <1>5
<1>9. Precedes(i, j) /\ Precedes(j, k) => Precedes(i, k)
  BY <1>1, <1>4, <1>5
<1>10. QED
  BY <1>7, <1>8, <1>9

(* So one of them is the k-th.                                             *)
LEMMA Ranked ==
    ASSUME TabsOK, NEW k \in 1..Cardinality(FirstOfName)
    PROVE  \E i \in FirstOfName : Cardinality({j \in FirstOfName : Precedes(j, i)}) = k
<1> DEFINE F == FirstOfName
           N == Cardinality(F)
           Upto(i) == {j \in F : Precedes(j, i)}
           f == [i \in F |-> Cardinality(Upto(i))]
<1>1. IsFiniteSet(F) /\ N \in Nat
  <2>1. FirstOfName \in SUBSET (1..Len(tabs)) /\ Len(tabs) \in Nat
    BY DEF TabsOK, FirstOfName
  <2>2. QED
    BY <2>1, UpTo, FS_Subset, FS_CardinalityType
<1>2. \A i \in F : Upto(i) \in SUBSET F /\ i \in Upto(i)
  BY KeysOrdered
<1>3. ASSUME NEW i \in F, NEW j \in F, i # j, Precedes(j, i)
      PROVE  Upto(j) \in SUBSET (Upto(i) \ {i})
  BY <1>3, KeysOrdered
<1>4. \A i, j \in F : Precedes(i, j) \/ Precedes(j, i)
  BY KeysOrdered
<1> HIDE DEF Upto, F
<1>5. ASSUME NEW i \in F
      PROVE  IsFiniteSet(Upto(i)) /\ Cardinality(Upto(i)) \in 1..N
  <2>1. IsFiniteSet(Upto(i)) /\ Cardinality(Upto(i)) <= N /\ Cardinality(Upto(i)) \in Nat
    BY <1>1, <1>2, FS_Subset, FS_CardinalityType
  <2>2. Cardinality(Upto(i)) # 0
    BY <1>2, <2>1, FS_EmptySet
  <2>3. QED
    BY <1>1, <2>1, <2>2
<1>6. ASSUME NEW i \in F, NEW j \in F, i # j, Precedes(j, i)
      PROVE  Cardinality(Upto(j)) < Cardinality(Upto(i))
  <2>1. /\ IsFiniteSet(Upto(i) \ {i})
        /\ Cardinality(Upto(i) \ {i}) = Cardinality(Upto(i)) - 1
    BY <1>2, <1>5, FS_RemoveElement
  <2>2. Cardinality(Upto(j)) <= Cardinality(Upto(i) \ {i})
    BY <1>3, <1>6, <2>1, FS_Subset
  <2>3. Cardinality(Upto(i)) \in Nat /\ Cardinality(Upto(j)) \in Nat
    BY <1>1, <1>5
  <2>4. QED
    BY <2>1, <2>2, <2>3
<1>7. f \in Injection(F, 1..N)
  <2>1. \A i, j \in F : i # j => Cardinality(Upto(i)) # Cardinality(Upto(j))
    <3>1. \A i \in F : Cardinality(Upto(i)) \in Nat
      BY <1>1, <1>5
    <3>2. QED
      BY <1>4, <1>6, <3>1
  <2>2. QED
    BY <1>5, <2>1 DEF Injection, IsInjective
<1>8. f \in Surjection(F, 1..N)
  <2>1. IsFiniteSet(1..N) /\ Cardinality(1..N) = N
    BY <1>1, UpTo
  <2>2. Cardinality(F) = Cardinality(1..N)
    BY <2>1
  <2>3. QED
    BY <1>7, <2>1, <2>2, FS_Injection
<1>9. k \in 1..N
  BY DEF F
<1>10. \E i \in F : Cardinality(Upto(i)) = k
  BY <1>8, <1>9 DEF Surjection
<1>11. QED
  BY <1>10 DEF Upto, F

(* The last tab of a name. *)
LEMMA LastOfNameProp ==
    ASSUME TabsOK, NEW i \in DOMAIN tabs
    PROVE  LET l == LastOfName(name[tabs[i]]) IN
           /\ l \in DOMAIN tabs /\ name[tabs[l]] = name[tabs[i]]
           /\ \A j \in (l + 1)..Len(tabs) : name[tabs[j]] # name[tabs[l]]
<1> DEFINE n == Len(tabs)
           same == {j \in 1..n : name[tabs[j]] = name[tabs[i]]}
           T == {d \in 0..n : n - d \in same}
<1>1. n \in Nat /\ DOMAIN tabs = 1..n /\ i \in 1..n
  BY DEF TabsOK
<1>2. PICK d \in T : \A e \in T : d <= e
  <2>1. n - i \in 0..n /\ n - (n - i) = i
    BY <1>1
  <2>2. T # {} /\ T \subseteq Nat
    BY <1>1, <2>1
  <2>3. QED
    BY <2>2, Least
<1>3. /\ n - d \in 1..n /\ name[tabs[n - d]] = name[tabs[i]]
      /\ \A j \in (n - d + 1)..n : name[tabs[j]] # name[tabs[i]]
  <2>1. n - d \in same /\ d \in 0..n
    OBVIOUS
  <2>2. ASSUME NEW j \in (n - d + 1)..n, name[tabs[j]] = name[tabs[i]] PROVE FALSE
    <3>1. n - j \in 0..n /\ n - (n - j) = j /\ j \in 1..n /\ ~(d <= n - j)
      BY <1>1, <2>1
    <3>2. QED
      BY <1>2, <2>2, <3>1
  <2>3. QED
    BY <2>1, <2>2
<1> DEFINE Latest(l) == name[tabs[l]] = name[tabs[i]]
                        /\ \A j \in (l + 1)..Len(tabs) : name[tabs[j]] # name[tabs[i]]
<1>4. \E l \in DOMAIN tabs : Latest(l)
  BY <1>1, <1>3
<1>5. LastOfName(name[tabs[i]]) = CHOOSE l \in DOMAIN tabs : Latest(l)
  BY DEF LastOfName
<1>6. LastOfName(name[tabs[i]]) \in DOMAIN tabs /\ Latest(LastOfName(name[tabs[i]]))
  <2> HIDE DEF Latest
  <2>1. QED
    BY <1>4, <1>5
<1>7. QED
  BY <1>6

(* The first place of the k-th name. *)
LEMMA MergedFrom ==
    ASSUME TabsOK, NEW k \in 1..Cardinality(FirstOfName)
    PROVE  \E i \in FirstOfName :
              /\ Cardinality({j \in FirstOfName : Precedes(j, i)}) = k
              /\ Merged[k] = tabs[LastOfName(name[tabs[i]])]
<1> DEFINE c == CHOOSE i \in FirstOfName : Cardinality({j \in FirstOfName : Precedes(j, i)}) = k
<1>1. \E i \in FirstOfName : Cardinality({j \in FirstOfName : Precedes(j, i)}) = k
  BY Ranked
<1>2. c \in FirstOfName /\ Cardinality({j \in FirstOfName : Precedes(j, c)}) = k
  BY <1>1
<1>3. Merged[k] = tabs[LastOfName(name[tabs[c]])]
  BY DEF Merged
<1> HIDE DEF c
<1>4. QED
  BY <1>2, <1>3

(* What is loaded are tabs that were saved, each of them once.             *)
LEMMA MergedProp ==
    ASSUME TabsOK
    PROVE  /\ Merged \in Seq(Tabs)
           /\ \A k, m \in DOMAIN Merged : Merged[k] = Merged[m] => k = m
           /\ \A k \in DOMAIN Merged : Merged[k] \in Shown
<1> DEFINE N == Cardinality(FirstOfName)
<1>1. /\ FirstOfName \in SUBSET (1..Len(tabs)) /\ Len(tabs) \in Nat
      /\ DOMAIN tabs = 1..Len(tabs) /\ N \in Nat
  <2>1. FirstOfName \in SUBSET (1..Len(tabs)) /\ Len(tabs) \in Nat /\ DOMAIN tabs = 1..Len(tabs)
    BY DEF TabsOK, FirstOfName
  <2>2. QED
    BY <2>1, UpTo, FS_Subset, FS_CardinalityType
<1>2. DOMAIN Merged = 1..N
  BY DEF Merged
<1>3. ASSUME NEW k \in 1..N PROVE Merged[k] \in Shown /\ Merged[k] \in Tabs
  <2>1. PICK i \in FirstOfName : Merged[k] = tabs[LastOfName(name[tabs[i]])]
    BY MergedFrom
  <2>2. LastOfName(name[tabs[i]]) \in DOMAIN tabs
    BY <1>1, LastOfNameProp
  <2>3. QED
    BY <2>1, <2>2 DEF Shown, TabsOK
<1>4. ASSUME NEW k \in 1..N, NEW m \in 1..N, Merged[k] = Merged[m] PROVE k = m
  <2>1. PICK i \in FirstOfName : /\ Cardinality({z \in FirstOfName : Precedes(z, i)}) = k
                                 /\ Merged[k] = tabs[LastOfName(name[tabs[i]])]
    BY MergedFrom
  <2>2. PICK j \in FirstOfName : /\ Cardinality({z \in FirstOfName : Precedes(z, j)}) = m
                                 /\ Merged[m] = tabs[LastOfName(name[tabs[j]])]
    BY MergedFrom
  <2>3. /\ LastOfName(name[tabs[i]]) \in DOMAIN tabs
        /\ name[tabs[LastOfName(name[tabs[i]])]] = name[tabs[i]]
    BY <1>1, LastOfNameProp
  <2>4. /\ LastOfName(name[tabs[j]]) \in DOMAIN tabs
        /\ name[tabs[LastOfName(name[tabs[j]])]] = name[tabs[j]]
    BY <1>1, LastOfNameProp
  <2>5. name[tabs[i]] = name[tabs[j]]
    BY <1>4, <2>1, <2>2, <2>3, <2>4
  <2>6. i \in 1..Len(tabs) /\ j \in 1..Len(tabs)
    BY <1>1
  <2>7. ~(i < j) /\ ~(j < i)
    <3>1. i < j => i \in 1..(j - 1)
      BY <2>6
    <3>2. j < i => j \in 1..(i - 1)
      BY <2>6
    <3>3. QED
      BY <2>5, <3>1, <3>2 DEF FirstOfName
  <2>8. i = j
    BY <2>6, <2>7
  <2>9. QED
    BY <2>1, <2>2, <2>8
<1>5. Merged \in [1..N -> Tabs]
  <2>1. Merged = [k \in 1..N |-> Merged[k]]
    BY DEF Merged
  <2>2. QED
    BY <1>3, <2>1
<1>6. Merged \in Seq(Tabs)
  BY <1>1, <1>5, SeqDef
<1>7. QED
  BY <1>2, <1>3, <1>4, <1>6

(* A tab is at its place among the loaded ones, or at none.                *)
LEMMA PlaceProp ==
    ASSUME NEW L \in Seq(Tabs), NEW t \in Tabs \cup {None}
    PROVE  /\ Place(L, t) \in 0..Len(L)
           /\ Place(L, t) # 0 <=> t \in {L[k] : k \in DOMAIN L}
<1>1. Len(L) \in Nat /\ DOMAIN L = 1..Len(L)
  OBVIOUS
<1>2. CASE \E k \in DOMAIN L : L[k] = t
  <2> DEFINE p == CHOOSE k \in DOMAIN L : L[k] = t
  <2>1. p \in DOMAIN L /\ L[p] = t
    BY <1>2
  <2>2. Place(L, t) = p
    BY <1>2 DEF Place
  <2> HIDE DEF p
  <2>3. QED
    BY <1>1, <2>1, <2>2
<1>3. CASE ~\E k \in DOMAIN L : L[k] = t
  <2>1. Place(L, t) = 0
    BY <1>3 DEF Place
  <2>2. QED
    BY <1>1, <1>3, <2>1
<1>4. QED
  BY <1>2, <1>3

(* What was drawn on a tab that is loaded is drawn there again, with its   *)
(* code if it had one; the rest is lost.                                   *)
LEMMA LoadWent ==
    ASSUME EInv, NEW L \in Seq(Tabs), Load(L)
    PROVE  /\ \A t \in Tabs : name'[t] = IF t \in Shown' THEN name[t] ELSE NoName
           /\ \A s \in StatusIds :
                IF status[s].on \in Shown'
                THEN /\ status'[s] \in Status /\ status'[s].on = status[s].on
                     /\ status[s].code # 0 => status'[s].code = status[s].code
                ELSE status'[s] = NoStatus
           /\ \A r \in LinkIds :
                IF rote[r].on \in Shown'
                THEN /\ rote'[r] \in Rote /\ rote'[r].on = rote[r].on
                     /\ rote'[r].source = rote[r].source /\ rote'[r].target = rote[r].target
                     /\ rote'[r].opener = None
                     /\ rote[r].code # 0 => rote'[r] = [rote[r] EXCEPT !.opener = None]
                ELSE rote'[r] = NoRote
<1> DEFINE place == [t \in Tabs \cup {None} |-> Place(L, t)]
<1>1. /\ tabs' = L
      /\ name' = [t \in Tabs |-> IF place[t] # 0 THEN name[t] ELSE NoName]
      /\ status' = [s \in StatusIds |->
                       IF place[status[s].on] # 0 THEN LoadedStatus(s, place) ELSE NoStatus]
      /\ rote' = [r \in LinkIds |->
                     IF place[rote[r].on] # 0 THEN LoadedLink(r, place) ELSE NoRote]
  BY DEF Load
<1>2. \A t \in Tabs \cup {None} : /\ place[t] \in 0..Len(L)
                                  /\ place[t] # 0 <=> t \in Shown'
  BY <1>1, PlaceProp DEF Shown
<1> HIDE DEF place
<1>3. Len(L) \in Nat /\ StatusesOK /\ LinksOK /\ None \notin Shown'
  <2>1. \A i \in DOMAIN L : L[i] \in Tabs
    OBVIOUS
  <2>2. QED
    BY <1>1, <2>1, Ids DEF EInv, Shown
<1>4. ASSUME NEW s \in StatusIds, status[s].on \in Shown'
      PROVE  /\ LoadedStatus(s, place) \in Status
             /\ LoadedStatus(s, place).on = status[s].on
             /\ status[s].code # 0 => LoadedStatus(s, place).code = status[s].code
  <2> DEFINE Z == {z \in Drawn \ {s} : place[status[z].on] \in 1..place[status[s].on]}
             n == FirstFree(StatusCodes(Z))
             b == IF status[s].box = "none" THEN "none" ELSE "dead"
             c == IF status[s].code # 0 THEN status[s].code ELSE n
  <2>1. LoadedStatus(s, place) = [status[s] EXCEPT !.code = c, !.box = b]
    BY DEF LoadedStatus
  <2>2. Z \in SUBSET (StatusIds \ {s})
    BY DEF Drawn
  <2> HIDE DEF Z
  <2>3. n \in Codes
    BY <2>2, StatusCodesFree, Ids DEF Codes
  <2>4. status[s] \in Status
    BY <1>3, <1>4, DrawnIsStatus DEF Drawn
  <2> HIDE DEF n
  <2>5. c \in Codes /\ b \in {"none", "open", "dead"}
    BY <2>3, <2>4 DEF Status
  <2>6. status[s].code # 0 => c = status[s].code
    OBVIOUS
  <2> HIDE DEF c, b
  <2>7. QED
    BY <2>1, <2>4, <2>5, <2>6 DEF Status
<1>5. ASSUME NEW r \in LinkIds, rote[r].on \in Shown'
      PROVE  LET l == LoadedLink(r, place) IN
             /\ l \in Rote /\ l.on = rote[r].on
             /\ l.source = rote[r].source /\ l.target = rote[r].target
             /\ l.opener = None
             /\ rote[r].code # 0 => l = [rote[r] EXCEPT !.opener = None]
  <2> DEFINE p == place[rote[r].on]
             Z == {q \in Linked : place[rote[q].on] \in 1..(p - 1)}
             n == FirstFree(LinkCodes(Z))
             c == IF rote[r].code # 0 THEN rote[r].code ELSE n
  <2>1. LoadedLink(r, place) = [rote[r] EXCEPT !.code = c, !.opener = None]
    BY DEF LoadedLink
  <2>2. rote[r] \in Rote
    BY <1>3, <1>5, LinkedIsRote DEF Linked
  <2>3. p \in 0..Len(L)
    BY <1>2, <2>2 DEF Rote
  <2>4. p \notin 1..(p - 1)
    BY <1>3, <2>3
  <2>5. Z \in SUBSET (LinkIds \ {r})
    BY <2>4 DEF Linked
  <2> HIDE DEF Z
  <2>6. n \in Codes
    BY <2>5, LinkCodesFree, Ids DEF Codes
  <2> HIDE DEF n
  <2>7. c \in Codes /\ (rote[r].code # 0 => c = rote[r].code)
    BY <2>2, <2>6 DEF Rote
  <2> HIDE DEF c
  <2>8. rote[r].code # 0 =>
          [rote[r] EXCEPT !.code = c, !.opener = None] = [rote[r] EXCEPT !.opener = None]
    BY <2>2, <2>7 DEF Rote
  <2>9. QED
    BY <2>1, <2>2, <2>7, <2>8 DEF Rote
<1>6. \A t \in Tabs : name'[t] = IF t \in Shown' THEN name[t] ELSE NoName
  BY <1>1, <1>2
<1>7. ASSUME NEW s \in StatusIds
      PROVE  status'[s] = IF status[s].on \in Shown' THEN LoadedStatus(s, place) ELSE NoStatus
  <2>1. status[s].on \in Tabs \cup {None}
    BY <1>3, DrawnIsStatus DEF Status, NoStatus
  <2>2. QED
    BY <1>1, <1>2, <2>1
<1>8. ASSUME NEW r \in LinkIds
      PROVE  rote'[r] = IF rote[r].on \in Shown' THEN LoadedLink(r, place) ELSE NoRote
  <2>1. rote[r].on \in Tabs \cup {None}
    BY <1>3, LinkedIsRote DEF Rote, NoRote
  <2>2. QED
    BY <1>1, <1>2, <2>1
<1>9. QED
  BY <1>4, <1>5, <1>6, <1>7, <1>8

(* A project that is loaded is a project.                                  *)
LEMMA SaveAndLoadKeeps ==
    ASSUME EInv, SaveAndLoad
    PROVE  EInv'
<1> DEFINE L == Merged
<1>1. /\ L \in Seq(Tabs) /\ \A k \in DOMAIN L : L[k] \in Shown
      /\ \A k, m \in DOMAIN L : L[k] = L[m] => k = m
  BY MergedProp DEF EInv
<1>2. Load(L) /\ tabs' = L /\ currenttab' = Len(L)
  BY DEF SaveAndLoad, Load
<1>3. /\ DOMAIN name' = Tabs /\ name' = [t \in Tabs |-> name'[t]]
      /\ status' = [s \in StatusIds |-> status'[s]]
      /\ rote' = [r \in LinkIds |-> rote'[r]]
  BY <1>2 DEF Load
<1> HIDE DEF L
<1>4. /\ \A t \in Tabs : name'[t] = IF t \in Shown' THEN name[t] ELSE NoName
      /\ \A s \in StatusIds :
           IF status[s].on \in Shown'
           THEN status'[s] \in Status /\ status'[s].on = status[s].on
           ELSE status'[s] = NoStatus
      /\ \A r \in LinkIds :
           IF rote[r].on \in Shown'
           THEN /\ rote'[r] \in Rote /\ rote'[r].on = rote[r].on
                /\ rote'[r].source = rote[r].source /\ rote'[r].target = rote[r].target
                /\ rote'[r].opener = None
           ELSE rote'[r] = NoRote
  BY <1>1, <1>2, LoadWent
<1>5. None \notin Shown' /\ NoStatus.on = None /\ NoRote.on = None
  <2>1. \A i \in DOMAIN L : L[i] \in Tabs
    BY <1>1
  <2>2. QED
    BY <1>2, <2>1, Ids DEF Shown, NoStatus, NoRote
<1>6. TabsOK'
  <2>1. currenttab' \in 0..Len(tabs')
    BY <1>1, <1>2
  <2>2. name' \in [Tabs -> Names] /\ \A u \in Tabs \ Shown' : name'[u] = NoName
    BY <1>3, <1>4, Ids DEF EInv, TabsOK
  <2>3. QED
    BY <1>1, <1>2, <2>1, <2>2 DEF TabsOK
<1>7. StatusesOK'
  <2>1. status' \in [StatusIds -> Status \cup {NoStatus}]
    BY <1>3, <1>4
  <2>2. QED
    BY <1>4, <1>5, <2>1 DEF StatusesOK, Drawn
<1>8. ASSUME NEW r \in Linked' PROVE rote'[r].on \in Shown' /\ Attached(r)' /\ Embedded(r)'
  <2>1. r \in LinkIds /\ rote'[r].on # None
    BY DEF Linked
  <2>2. /\ rote[r].on \in Shown' /\ rote'[r].on = rote[r].on
        /\ rote'[r].source = rote[r].source /\ rote'[r].target = rote[r].target
        /\ rote'[r].opener = None
    BY <1>4, <1>5, <2>1
  <2>3. Attached(r)
    BY <1>5, <2>1, <2>2 DEF EInv, LinksOK, Linked
  <2>4. QED
    BY <1>4, <2>2, <2>3 DEF Attached, Embedded
<1>9. LinksOK'
  BY <1>3, <1>4, <1>8 DEF LinksOK
<1>10. QED
  BY <1>6, <1>7, <1>9 DEF EInv

-------------------------------------------------------------------------------
(* The invariant. *)

(* No tab, no cell.                                                        *)
LEMMA EInit == Init => EInv
<1> SUFFICES ASSUME Init PROVE EInv
  OBVIOUS
<1>1. tabs = <<>> /\ Len(tabs) = 0 /\ DOMAIN tabs = {} /\ Shown = {}
  BY DEF Init, Shown
<1>2. TabsOK
  BY <1>1, Ids DEF Init, TabsOK
<1>3. Drawn = {} /\ Linked = {}
  BY DEF Init, Drawn, Linked, NoStatus, NoRote
<1>4. StatusesOK /\ LinksOK
  BY <1>3 DEF Init, StatusesOK, LinksOK
<1>5. QED
  BY <1>2, <1>4 DEF EInv

(* One step for each handler of the page.                                  *)
LEMMA EStep == EInv /\ [Next]_vars => EInv'
<1> SUFFICES ASSUME EInv, [Next]_vars PROVE EInv'
  OBVIOUS
<1>1. ASSUME NEW t \in Tabs, NEW s \in StatusIds, NewTab(t, s) PROVE EInv'
  BY <1>1, NewTabKeeps
<1>2. CASE (\E i \in 0..Len(tabs) : ChangeTab(i)) \/ (\E n \in Names : RenameTab(n))
  BY <1>2, OtherTabsKeep
<1>3. ASSUME NEW i \in DOMAIN tabs, CloseTab(i) PROVE EInv'
  BY <1>3, CloseTabKeeps
<1>4. ASSUME NEW s \in StatusIds, AddStatus(s) PROVE EInv'
  BY <1>4, AddStatusKeeps
<1>5. ASSUME NEW s \in StatusIds, NEW r \in LinkIds, OpenEditBox(s, r) PROVE EInv'
  BY <1>5, OpenEditBoxKeeps
<1>6. ASSUME NEW s \in StatusIds, NEW c \in Codes, UpdateStatus(s, c) PROVE EInv'
  BY <1>6, LeaveEditKeeps
<1>7. ASSUME NEW s \in StatusIds, Cancel(s) \/ DismissDead(s) PROVE EInv'
  BY <1>7, Ids, LeaveEditKeeps
<1>8. CASE BlankClick
  BY <1>8, BlankClickKeeps
<1>9. ASSUME NEW s \in StatusIds, DeleteStatus(s) PROVE EInv'
  BY <1>9, DeleteStatusKeeps
<1>10. ASSUME NEW r \in LinkIds, NEW to \in Ends, MoveSource(r, to) \/ MoveTarget(r, to)
       PROVE  EInv'
  BY <1>10, MoveKeeps
<1>11. ASSUME NEW r \in LinkIds, NEW c \in Codes, EditLink(r, c) PROVE EInv'
  BY <1>11, LinkKeeps
<1>12. ASSUME NEW r \in LinkIds, RemoveLink(r) PROVE EInv'
  BY <1>12, Ids, LinkKeeps
<1>13. CASE SaveAndLoad
  BY <1>13, SaveAndLoadKeeps
<1>14. CASE UNCHANGED vars
  BY <1>14 DEF vars, EInv, TabsOK, StatusesOK, LinksOK, Shown, Drawn, Linked, Attached, Embedded
<1>15. QED
  BY <1>1, <1>2, <1>3, <1>4, <1>5, <1>6, <1>7, <1>8, <1>9, <1>10, <1>11, <1>12, <1>13, <1>14
     DEF Next

(* So it holds of whatever is drawn.                                       *)
LEMMA EInvariance == Spec => []EInv
  BY EInit, EStep, PTL DEF Spec

(* Every variable keeps its type, and the tab that is shown is one of the  *)
(* tabs, however tabs are closed and projects loaded (Tab_Close, load_json)*)
THEOREM TypeCorrect == Spec => []TypeOK
  BY EInvariance, EInvIsTyped, PTL

(* Where the codes are unique and none is empty, what CSVs are written     *)
(* from links that are connected at both ends are masters as the engine    *)
(* needs them: a row for an action, from and to statuses that are exported *)
(* too ($('#m_c_csv')), as no link is ever left at a status that is gone.  *)
THEOREM ExportsAreMasters == Spec => []ExportIsMasters
<1>1. EInv => ExportIsMasters
  <2> SUFFICES ASSUME EInv, Exportable, UniqueCodes, ~BlankCode,
                      \A r \in Linked : Toolbox \notin {rote[r].source, rote[r].target},
                      NEW x \in ExportedRows, NEW y \in ExportedRows
               PROVE  /\ {x.pre, x.post} \subseteq ExportedStatuses
                      /\ x.code = y.code => x = y
    BY DEF ExportIsMasters
  <2>1. PICK r \in Linked : x = [code |-> rote[r].code, pre |-> ExportedCode(rote[r].source),
                                 post |-> ExportedCode(rote[r].target)]
    BY DEF ExportedRows
  <2>2. PICK q \in Linked : y = [code |-> rote[q].code, pre |-> ExportedCode(rote[q].source),
                                 post |-> ExportedCode(rote[q].target)]
    BY DEF ExportedRows
  <2>3. /\ rote[r] \in Rote /\ rote[r].on # None /\ Attached(r)
        /\ rote[r].source \in StatusIds /\ rote[r].target \in StatusIds
    BY LinkedIsRote DEF EInv, LinksOK, Linked, Exportable, Rote, Ends
  <2>4. ASSUME NEW e \in {rote[r].source, rote[r].target} PROVE ExportedCode(e) \in ExportedStatuses
    <3>1. e \in Drawn /\ ExportedCode(e) = status[e].code
      BY <2>3 DEF Attached, Drawn, ExportedCode
    <3>2. status[e].code \in StatusCodes(Drawn) /\ status[e].code # 0
      BY <3>1 DEF BlankCode, StatusCodes
    <3>3. QED
      BY <3>1, <3>2 DEF ExportedStatuses
  <2>5. x.code = y.code => r = q
    BY <2>1, <2>2 DEF UniqueCodes
  <2>6. QED
    BY <2>1, <2>2, <2>4, <2>5
<1>2. QED
  BY <1>1, EInvariance, PTL

-------------------------------------------------------------------------------
(* Codes. *)
UniqueStatuses == \A s, z \in Drawn : status[s].code = status[z].code => s = z

UniqueLinks == \A r, q \in Linked : rote[r].code = rote[q].code => r = q

(* Statuses that stay or go, and keep their codes.                         *)
LEMMA SameStatuses ==
    ASSUME UniqueStatuses,
           \A s \in Drawn' : s \in Drawn /\ status'[s].code = status[s].code
    PROVE  UniqueStatuses'
  BY DEF UniqueStatuses

(* Statuses that all stay where they are.                                  *)
LEMMA StayingStatuses ==
    ASSUME UniqueStatuses, \A s \in StatusIds : Stays(s)
    PROVE  UniqueStatuses'
<1>1. \A s \in Drawn' : s \in Drawn /\ status'[s].code = status[s].code
  BY DEF Stays, Drawn
<1>2. QED
  BY <1>1, SameStatuses

(* Links that stay or go, and keep their codes.                            *)
LEMMA SameLinks ==
    ASSUME UniqueLinks,
           \A r \in Linked' : r \in Linked /\ rote'[r].code = rote[r].code
    PROVE  UniqueLinks'
  BY DEF UniqueLinks

(* Links of which some leave with an edit mode.                            *)
LEMMA LeavingLinks ==
    ASSUME UniqueLinks, \A r \in LinkIds : Left(r)
    PROVE  UniqueLinks'
<1>1. ASSUME NEW r \in Linked' PROVE r \in Linked /\ rote'[r].code = rote[r].code
  <2>1. r \in LinkIds /\ rote'[r].on # None
    BY DEF Linked
  <2>2. rote'[r] = rote[r]
    BY <2>1 DEF Left, NoRote
  <2>3. QED
    BY <2>1, <2>2 DEF Linked
<1>2. QED
  BY <1>1, SameLinks

(* A new status is numbered anew, in whatever tab it is.                   *)
LEMMA AddToUnique ==
    ASSUME StatusesOK, UniqueStatuses, NEW s \in StatusIds, NEW t \in Tabs, AddTo(s, t)
    PROVE  UniqueStatuses'
<1>1. /\ s \notin Drawn /\ Drawn' = Drawn \cup {s}
      /\ status'[s].code \notin StatusCodes(Drawn)
      /\ \A z \in Drawn : status'[z] = status[z]
  BY AddToWent DEF Drawn
<1>2. \A z \in Drawn : status[z].code # status'[s].code
  BY <1>1 DEF StatusCodes
<1>3. QED
  BY <1>1, <1>2 DEF UniqueStatuses

(* A status takes the code of its box if no other has it (validate).       *)
LEMMA UpdateStatusWent ==
    ASSUME StatusesOK, NEW s \in StatusIds, NEW c \in Codes, UpdateStatus(s, c)
    PROVE  /\ Drawn' = Drawn
           /\ \A z \in StatusIds \ {s} : status'[z] = status[z]
           /\ status'[s].code = status[s].code \/ (status'[s].code = c /\ StatusFree(c, s))
<1>1. status[s] \in Status
  BY DrawnIsStatus DEF UpdateStatus, NoStatus
<1>2. /\ [status[s] EXCEPT !.code = c, !.box = "none"].on = status[s].on
      /\ [status[s] EXCEPT !.code = c, !.box = "none"].code = c
      /\ [status[s] EXCEPT !.box = "none"].on = status[s].on
      /\ [status[s] EXCEPT !.box = "none"].code = status[s].code
  BY <1>1 DEF Status
<1>3. \/ /\ StatusFree(c, s)
         /\ status' = [status EXCEPT ![s] = [status[s] EXCEPT !.code = c, !.box = "none"]]
      \/ status' = [status EXCEPT ![s] = [status[s] EXCEPT !.box = "none"]]
  BY DEF UpdateStatus, StatusesOK
<1>4. /\ \A z \in StatusIds \ {s} : status'[z] = status[z]
      /\ status'[s].on = status[s].on
      /\ status'[s].code = status[s].code \/ (status'[s].code = c /\ StatusFree(c, s))
  BY <1>2, <1>3 DEF StatusesOK
<1>5. Drawn' = Drawn
  BY <1>4 DEF Drawn
<1>6. QED
  BY <1>4, <1>5

(* So its code is still its own.                                           *)
LEMMA UpdateStatusUnique ==
    ASSUME StatusesOK, UniqueStatuses, NEW s \in StatusIds, NEW c \in Codes, UpdateStatus(s, c)
    PROVE  UniqueStatuses'
<1>1. /\ Drawn' = Drawn
      /\ \A z \in Drawn \ {s} : status'[z] = status[z]
      /\ status'[s].code = status[s].code \/ (status'[s].code = c /\ StatusFree(c, s))
  BY UpdateStatusWent DEF Drawn
<1>2. ASSUME NEW z \in Drawn \ {s}, s \in Drawn PROVE status'[z].code # status'[s].code
  BY <1>1, <1>2 DEF UniqueStatuses, StatusFree, StatusCodes
<1>3. QED
  BY <1>1, <1>2 DEF UniqueStatuses

(* Statuses keep different codes.                                          *)
LEMMA StatusesStayUnique ==
    ASSUME EInv, Next, UniqueStatuses, ~(BlankCode /\ SaveAndLoad)
    PROVE  UniqueStatuses'
<1>0. TabsOK /\ StatusesOK /\ LinksOK
  BY DEF EInv
<1>1. ASSUME NEW t \in Tabs, NEW s \in StatusIds, NewTab(t, s) PROVE UniqueStatuses'
  BY <1>0, <1>1, AddToUnique DEF NewTab
<1>2. ASSUME UNCHANGED status PROVE UniqueStatuses'
  BY <1>2 DEF UniqueStatuses, Drawn
<1>3. ASSUME NEW i \in DOMAIN tabs, CloseTab(i) PROVE UniqueStatuses'
  <2>1. \A s \in Drawn' : s \in Drawn /\ status'[s] = status[s]
    BY <1>3, CloseTabWent
  <2>2. QED
    BY <2>1, SameStatuses
<1>4. ASSUME NEW s \in StatusIds, AddStatus(s) PROVE UniqueStatuses'
  BY <1>0, <1>4, CurrentIsShown, AddToUnique DEF AddStatus
<1>5. ASSUME NEW s \in StatusIds, NEW r \in LinkIds, OpenEditBox(s, r) PROVE UniqueStatuses'
  BY <1>5, OpenEditBoxWent, StayingStatuses
<1>6. ASSUME NEW s \in StatusIds, NEW c \in Codes, UpdateStatus(s, c) PROVE UniqueStatuses'
  BY <1>0, <1>6, UpdateStatusUnique
<1>7. ASSUME NEW s \in StatusIds, Cancel(s) PROVE UniqueStatuses'
  BY <1>0, <1>7, ShutWent, StayingStatuses DEF Cancel, CloseEditBox
<1>8. ASSUME NEW s \in StatusIds, DismissDead(s) PROVE UniqueStatuses'
  <2>1. status[s] \in Status
    BY <1>0, <1>8, DrawnIsStatus DEF DismissDead, NoStatus
  <2>2. LET x == [status[s] EXCEPT !.box = "none"]
        IN  x.on = status[s].on /\ x.code = status[s].code
    BY <2>1 DEF Status
  <2>3. status' = [status EXCEPT ![s] = [status[s] EXCEPT !.box = "none"]]
    BY <1>0, <1>8 DEF DismissDead, StatusesOK
  <2>4. \A z \in StatusIds : Stays(z)
    BY <1>0, <2>2, <2>3 DEF Stays, StatusesOK
  <2>5. QED
    BY <2>4, StayingStatuses
<1>9. ASSUME BlankClick PROVE UniqueStatuses'
  BY <1>0, <1>9, ShutWent, StayingStatuses DEF BlankClick, CloseEditBox
<1>10. ASSUME NEW s \in StatusIds, DeleteStatus(s) PROVE UniqueStatuses'
  <2>1. status'[s] = NoStatus /\ \A z \in StatusIds \ {s} : status'[z] = status[z]
    BY <1>0, <1>10 DEF DeleteStatus, StatusesOK
  <2>2. \A z \in Drawn' : z \in Drawn /\ status'[z].code = status[z].code
    BY <2>1 DEF Drawn, NoStatus
  <2>3. QED
    BY <2>2, SameStatuses
<1>11. ASSUME NEW r \in LinkIds, NEW l, Change(r, l), l \in Rote, r \in Linked
       PROVE  UniqueStatuses'
  BY <1>11, ChangeWent, StayingStatuses
<1>12. ASSUME NEW r \in LinkIds, NEW to \in Ends, MoveSource(r, to) \/ MoveTarget(r, to)
       PROVE  UniqueStatuses'
  <2>1. r \in Linked /\ rote[r] \in Rote
    BY <1>0, <1>12, LinkedIsRote DEF MoveSource, MoveTarget, Linked
  <2>2. [rote[r] EXCEPT !.source = to] \in Rote /\ [rote[r] EXCEPT !.target = to] \in Rote
    BY <2>1 DEF Rote
  <2>3. QED
    BY <1>11, <1>12, <2>1, <2>2 DEF MoveSource, MoveTarget
<1>13. ASSUME NEW r \in LinkIds, NEW c \in Codes, EditLink(r, c) PROVE UniqueStatuses'
  <2>1. r \in Linked /\ rote[r] \in Rote
    BY <1>0, <1>13, LinkedIsRote DEF EditLink, Linked
  <2>2. [rote[r] EXCEPT !.code = c] \in Rote
    BY <2>1 DEF Rote
  <2>3. QED
    BY <1>11, <1>13, <2>1, <2>2 DEF EditLink
<1>14. ASSUME SaveAndLoad PROVE UniqueStatuses'
  <2>1. Load(Merged) /\ Merged \in Seq(Tabs)
    BY <1>0, <1>14, MergedProp DEF SaveAndLoad
  <2>2. ASSUME NEW s \in Drawn' PROVE s \in Drawn /\ status'[s].code = status[s].code
    <3>1. s \in StatusIds /\ status'[s].on # None
      BY DEF Drawn
    <3>2. /\ status'[s].on = status[s].on
          /\ status[s].code # 0 => status'[s].code = status[s].code
      BY <2>1, <3>1, LoadWent DEF NoStatus
    <3>3. s \in Drawn
      BY <3>1, <3>2 DEF Drawn
    <3>4. status[s].code # 0
      BY <1>14, <3>3 DEF BlankCode, StatusCodes
    <3>5. QED
      BY <3>2, <3>3, <3>4
  <2>3. QED
    BY <2>2, SameStatuses
<1>15. QED
  BY <1>1, <1>2, <1>3, <1>4, <1>5, <1>6, <1>7, <1>8, <1>9, <1>10, <1>12, <1>13, <1>14
     DEF Next, ChangeTab, RenameTab, RemoveLink

(* An arrowhead that is moved changes one end of its link and no code;     *)
(* other links only vanish if they are embedded.                           *)
LEMMA MoveWent ==
    ASSUME EInv, NEW r \in LinkIds, NEW to \in Ends, MoveSource(r, to) \/ MoveTarget(r, to)
    PROVE  /\ r \in Linked /\ \A q \in LinkIds \ {r} : Left(q)
           /\ rote'[r].on = rote[r].on /\ rote'[r].code = rote[r].code
           /\ MoveSource(r, to) => rote'[r].source = to
           /\ MoveTarget(r, to) => rote'[r].target = to
<1>1. r \in Linked /\ rote[r] \in Rote
  BY LinkedIsRote DEF EInv, MoveSource, MoveTarget, Linked
<1>2. CASE MoveSource(r, to)
  <2> DEFINE l == [rote[r] EXCEPT !.source = to]
  <2>1. /\ l \in Rote /\ l.on = rote[r].on /\ l.code = rote[r].code
        /\ l.source = to /\ l.target = rote[r].target
    BY <1>1 DEF Rote
  <2>2. Change(r, l)
    BY <1>2 DEF MoveSource
  <2> HIDE DEF l
  <2>3. /\ \A q \in LinkIds \ {r} : Left(q)
        /\ rote'[r].on = rote[r].on /\ rote'[r].code = rote[r].code
        /\ rote'[r].source = to /\ rote'[r].target = rote[r].target
    BY <1>1, <2>1, <2>2, ChangeWent
  <2>4. MoveTarget(r, to) => rote'[r].target = to
    <3>1. SUFFICES ASSUME MoveTarget(r, to) PROVE rote'[r].target = to
      OBVIOUS
    <3> DEFINE k == [rote[r] EXCEPT !.target = to]
    <3>2. k \in Rote /\ k.target = to /\ Change(r, k)
      BY <1>1, <3>1 DEF Rote, MoveTarget
    <3> HIDE DEF k
    <3>3. QED
      BY <1>1, <3>2, ChangeWent
  <2>5. QED
    BY <1>1, <2>3, <2>4
<1>3. CASE ~MoveSource(r, to)
  <2> DEFINE l == [rote[r] EXCEPT !.target = to]
  <2>1. /\ l \in Rote /\ l.on = rote[r].on /\ l.code = rote[r].code /\ l.target = to
    BY <1>1 DEF Rote
  <2>2. Change(r, l)
    BY <1>3 DEF MoveTarget
  <2> HIDE DEF l
  <2>3. QED
    BY <1>1, <1>3, <2>1, <2>2, ChangeWent
<1>4. QED
  BY <1>2, <1>3

(* The edit box of a link changes its code to one that is not used.        *)
LEMMA EditLinkWent ==
    ASSUME EInv, NEW r \in LinkIds, NEW c \in Codes, EditLink(r, c)
    PROVE  /\ r \in Linked /\ \A q \in LinkIds \ {r} : Left(q)
           /\ rote'[r].on = rote[r].on /\ rote'[r].code = c /\ LinkFree(c, r)
           /\ rote'[r].source = rote[r].source /\ rote'[r].target = rote[r].target
<1> DEFINE l == [rote[r] EXCEPT !.code = c]
<1>1. r \in Linked /\ rote[r] \in Rote /\ Change(r, l) /\ LinkFree(c, r)
  BY LinkedIsRote DEF EInv, EditLink, Linked
<1>2. /\ l \in Rote /\ l.on = rote[r].on /\ l.code = c
      /\ l.source = rote[r].source /\ l.target = rote[r].target
  BY <1>1 DEF Rote
<1> HIDE DEF l
<1>3. QED
  BY <1>1, <1>2, ChangeWent

(* A deleted status takes with it what is embedded in it and its links.    *)
LEMMA DeleteStatusWent ==
    ASSUME EInv, NEW s \in StatusIds, DeleteStatus(s), NEW r \in LinkIds
    PROVE  /\ status'[s] = NoStatus
           /\ \/ s \in {rote[r].parent, rote[r].source, rote[r].target} /\ rote'[r] = NoRote
              \/ /\ rote'[r].on = rote[r].on /\ rote'[r].code = rote[r].code
                 /\ rote'[r].source = rote[r].source /\ rote'[r].target = rote[r].target
<1>1. status'[s] = NoStatus
  BY DEF DeleteStatus, EInv, StatusesOK
<1>2. rote'[r] =
         IF s \in {rote[r].parent, rote[r].source, rote[r].target} THEN NoRote
         ELSE IF rote[r].opener = s THEN [rote[r] EXCEPT !.opener = None] ELSE rote[r]
  BY DEF DeleteStatus
<1>3. rote[r] \in Rote \cup {NoRote}
  BY DEF EInv, LinksOK
<1>4. LET x == [rote[r] EXCEPT !.opener = None]
      IN  /\ x.on = rote[r].on /\ x.code = rote[r].code
          /\ x.source = rote[r].source /\ x.target = rote[r].target
  BY <1>3 DEF Rote, NoRote
<1>5. QED
  BY <1>1, <1>2, <1>4

(* Where edit modes are left, links only vanish if they are embedded.      *)
LEMMA EditModeLeft ==
    ASSUME EInv, NEW s \in StatusIds, NEW c \in Codes,
           UpdateStatus(s, c) \/ Cancel(s) \/ DismissDead(s)
    PROVE  \A r \in LinkIds : Left(r)
<1>1. UNCHANGED rote \/ rote' = WithoutEmbedded(rote, {s})
  BY DEF UpdateStatus, Cancel, DismissDead, CloseEditBox
<1>2. CASE UNCHANGED rote
  BY <1>2 DEF Left
<1>3. CASE rote' = WithoutEmbedded(rote, {s})
  BY <1>3, WithoutWent DEF EInv
<1>4. QED
  BY <1>1, <1>2, <1>3

(* Where one link changes, and gets a code that no other has.              *)
LEMMA ChangedLinkUnique ==
    ASSUME UniqueLinks, NEW r \in Linked, \A q \in LinkIds \ {r} : Left(q),
           LinkFree(rote'[r].code, r)
    PROVE  UniqueLinks'
<1>1. ASSUME NEW q \in Linked', q # r
      PROVE  q \in Linked \ {r} /\ rote'[q].code = rote[q].code
  <2>1. q \in LinkIds \ {r} /\ rote'[q].on # None
    BY <1>1 DEF Linked
  <2>2. rote'[q] = rote[q]
    BY <2>1 DEF Left, NoRote
  <2>3. QED
    BY <1>1, <2>1, <2>2 DEF Linked
<1>2. \A q \in Linked \ {r} : rote[q].code # rote'[r].code
  BY DEF LinkFree, LinkCodes
<1>3. QED
  BY <1>1, <1>2 DEF UniqueLinks

(* Links keep different codes.                                             *)
LEMMA LinksStayUnique ==
    ASSUME EInv, Next, UniqueLinks, ~(BlankCode /\ SaveAndLoad)
    PROVE  UniqueLinks'
<1>1. ASSUME UNCHANGED rote PROVE UniqueLinks'
  BY <1>1 DEF UniqueLinks, Linked
<1>2. ASSUME NEW i \in DOMAIN tabs, CloseTab(i) PROVE UniqueLinks'
  <2>1. \A r \in Linked' : r \in Linked /\ rote'[r] = rote[r]
    BY <1>2, CloseTabWent
  <2>2. QED
    BY <2>1, SameLinks
<1>3. ASSUME NEW s \in StatusIds, NEW r \in LinkIds, OpenEditBox(s, r) PROVE UniqueLinks'
  <2>1. /\ r \notin Linked /\ Linked' = Linked \cup {r}
        /\ rote'[r].code \notin LinkCodes(Linked)
        /\ \A q \in LinkIds \ {r} : rote'[q] = rote[q]
    BY <1>3, OpenEditBoxWent
  <2>2. Linked \subseteq LinkIds
    BY DEF Linked
  <2>3. \A q \in Linked : rote'[q] = rote[q] /\ rote[q].code # rote'[r].code
    BY <2>1, <2>2 DEF LinkCodes
  <2>4. QED
    BY <2>1, <2>3 DEF UniqueLinks
<1>4. ASSUME NEW s \in StatusIds, NEW c \in Codes,
             UpdateStatus(s, c) \/ Cancel(s) \/ DismissDead(s)
      PROVE  UniqueLinks'
  BY <1>4, EditModeLeft, LeavingLinks
<1>5. ASSUME BlankClick PROVE UniqueLinks'
  <2>1. rote' = WithoutEmbedded(rote, {z \in StatusIds : status[z].on = Current})
    BY <1>5 DEF BlankClick, CloseEditBox
  <2>2. QED
    BY <2>1, WithoutWent, LeavingLinks DEF EInv
<1>6. ASSUME NEW s \in StatusIds, DeleteStatus(s) PROVE UniqueLinks'
  <2>1. ASSUME NEW r \in Linked' PROVE r \in Linked /\ rote'[r].code = rote[r].code
    <3>1. r \in LinkIds /\ rote'[r].on # None
      BY DEF Linked
    <3>2. rote'[r].on = rote[r].on /\ rote'[r].code = rote[r].code
      BY <1>6, <3>1, DeleteStatusWent DEF NoRote
    <3>3. QED
      BY <3>1, <3>2 DEF Linked
  <2>2. QED
    BY <2>1, SameLinks
<1>7. ASSUME NEW r \in LinkIds, NEW to \in Ends, MoveSource(r, to) \/ MoveTarget(r, to)
      PROVE  UniqueLinks'
  <2>1. /\ r \in Linked /\ \A q \in LinkIds \ {r} : Left(q)
        /\ rote'[r].code = rote[r].code
    BY <1>7, MoveWent
  <2>2. LinkFree(rote'[r].code, r)
    BY <2>1 DEF LinkFree, LinkCodes, UniqueLinks
  <2>3. QED
    BY <2>1, <2>2, ChangedLinkUnique
<1>8. ASSUME NEW r \in LinkIds, NEW c \in Codes, EditLink(r, c) PROVE UniqueLinks'
  BY <1>8, EditLinkWent, ChangedLinkUnique
<1>9. ASSUME NEW r \in LinkIds, RemoveLink(r) PROVE UniqueLinks'
  <2>1. \A q \in LinkIds : rote'[q] = IF q = r THEN NoRote ELSE rote[q]
    BY <1>9 DEF RemoveLink, EInv, LinksOK
  <2>2. \A q \in Linked' : q \in Linked /\ rote'[q] = rote[q]
    BY <2>1 DEF Linked, NoRote
  <2>3. QED
    BY <2>2, SameLinks
<1>10. ASSUME SaveAndLoad PROVE UniqueLinks'
  <2>1. Load(Merged) /\ Merged \in Seq(Tabs)
    BY <1>10, MergedProp DEF SaveAndLoad, EInv
  <2>2. ASSUME NEW r \in Linked' PROVE r \in Linked /\ rote'[r].code = rote[r].code
    <3>1. r \in LinkIds /\ rote'[r].on # None
      BY DEF Linked
    <3>2. /\ rote'[r].on = rote[r].on
          /\ rote[r].code # 0 => rote'[r] = [rote[r] EXCEPT !.opener = None]
      BY <2>1, <3>1, LoadWent DEF NoRote
    <3>3. r \in Linked
      BY <3>1, <3>2 DEF Linked
    <3>4. rote[r].code # 0
      BY <1>10, <3>3 DEF BlankCode, LinkCodes
    <3>5. rote[r] \in Rote
      BY <3>1, <3>3, LinkedIsRote DEF EInv
    <3>6. QED
      BY <3>2, <3>3, <3>4, <3>5 DEF Rote
  <2>3. QED
    BY <2>2, SameLinks
<1>11. QED
  BY <1>1, <1>2, <1>3, <1>4, <1>5, <1>6, <1>7, <1>8, <1>9, <1>10, Ids
     DEF Next, NewTab, ChangeTab, RenameTab, AddStatus

(* Statuses and links keep different codes in whatever tab they are drawn, *)
(* renamed or loaded (initstatus, initcode, validate), unless a cleared    *)
(* code is numbered anew when the project is loaded.                       *)
THEOREM CodesAreUnique == Spec => CodesStayUnique
<1> DEFINE Body == UniqueCodes /\ ~(BlankCode /\ SaveAndLoad) => UniqueCodes'
<1>1. UniqueCodes <=> UniqueStatuses /\ UniqueLinks
  BY DEF UniqueCodes, UniqueStatuses, UniqueLinks
<1>2. UniqueCodes' <=> UniqueStatuses' /\ UniqueLinks'
  BY DEF UniqueCodes, UniqueStatuses, UniqueLinks
<1>3. EInv /\ [Next]_vars => [Body]_vars
  BY <1>1, <1>2, StatusesStayUnique, LinksStayUnique
<1>4. CodesStayUnique <=> [][Body]_vars
  BY DEF CodesStayUnique
<1> HIDE DEF Body
<1>5. QED
  BY <1>3, <1>4, EInvariance, PTL DEF Spec

-------------------------------------------------------------------------------
(* Links. *)

(* A link keeps its ends, or loses them as its user or an edit mode that   *)
(* is left may have it (LinkKept).                                         *)
Kept(r) ==
    rote'[r].source # rote[r].source \/ rote'[r].target # rote[r].target =>
      \/ RemoveLink(r)
      \/ \E e \in {rote[r].source, rote[r].target} \cap StatusIds : status'[e].on = None
      \/ rote[r].on \notin {tabs'[i] : i \in DOMAIN tabs'}
      \/ \E to \in Ends : \/ MoveSource(r, to) /\ rote'[r].source = to
                          \/ MoveTarget(r, to) /\ rote'[r].target = to
      \/ /\ rote[r].parent # None
         /\ rote[r].opener = None \/ rote[r].target = Point
         /\ ~\E to \in Ends : MoveTarget(r, to)

(* A link that vanishes with an edit mode was embedded and led nowhere, or *)
(* was loaded; it is not one whose arrowhead was just dropped at a cell.   *)
LEMMA LeftIsKept ==
    ASSUME EInv, NEW r \in Linked, Left(r)
    PROVE  Kept(r)
<1>1. r \in LinkIds /\ rote[r].on # None /\ Embedded(r)
  BY DEF Linked, EInv, LinksOK
<1>2. CASE rote'[r] = rote[r]
  BY <1>2 DEF Kept
<1>3. CASE rote[r].parent # None /\ rote'[r] = NoRote
  <2>1. ASSUME NEW to \in Ends, MoveTarget(r, to) PROVE FALSE
    <3>1. rote'[r].on = rote[r].on
      BY <1>1, <2>1, MoveWent
    <3>2. QED
      BY <1>1, <1>3, <3>1 DEF NoRote
  <2>2. QED
    BY <1>1, <1>3, <2>1 DEF Kept, Embedded
<1>4. QED
  BY <1>2, <1>3 DEF Left

(* One step for each handler again.                                        *)
LEMMA LinksStayKept ==
    ASSUME EInv, Next, NEW r \in Linked
    PROVE  Kept(r)
<1>0. r \in LinkIds /\ rote[r].on # None
  BY DEF Linked
<1>1. ASSUME rote'[r] = rote[r] PROVE Kept(r)
  BY <1>1 DEF Kept
<1>2. ASSUME NEW i \in DOMAIN tabs, CloseTab(i) PROVE Kept(r)
  <2>1. CASE rote[r].on = tabs[i]
    <3>1. rote[r].on \notin Shown'
      BY <1>2, <2>1, CloseTabWent
    <3>2. QED
      BY <3>1 DEF Shown, Kept
  <2>2. CASE rote[r].on # tabs[i]
    BY <1>1, <1>2, <2>2, CloseTabWent
  <2>3. QED
    BY <2>1, <2>2
<1>3. ASSUME NEW s \in StatusIds, NEW q \in LinkIds, OpenEditBox(s, q) PROVE Kept(r)
  <2>1. q \notin Linked /\ \A p \in LinkIds \ {q} : rote'[p] = rote[p]
    BY <1>3, OpenEditBoxWent
  <2>2. QED
    BY <1>0, <1>1, <2>1
<1>4. ASSUME NEW s \in StatusIds, NEW c \in Codes,
             UpdateStatus(s, c) \/ Cancel(s) \/ DismissDead(s)
      PROVE  Kept(r)
  BY <1>0, <1>4, EditModeLeft, LeftIsKept
<1>5. ASSUME BlankClick PROVE Kept(r)
  <2>1. rote' = WithoutEmbedded(rote, {z \in StatusIds : status[z].on = Current})
    BY <1>5 DEF BlankClick, CloseEditBox
  <2>2. QED
    BY <1>0, <2>1, WithoutWent, LeftIsKept DEF EInv
<1>6. ASSUME NEW s \in StatusIds, DeleteStatus(s) PROVE Kept(r)
  <2>1. status'[s].on = None
    BY <1>0, <1>6, DeleteStatusWent DEF NoStatus
  <2>2. CASE s \in {rote[r].source, rote[r].target}
    BY <2>1, <2>2 DEF Kept
  <2>3. CASE s = rote[r].parent /\ rote'[r] = NoRote
    BY <2>3, Ids, LeftIsKept DEF Left
  <2>4. CASE rote'[r].source = rote[r].source /\ rote'[r].target = rote[r].target
    BY <2>4 DEF Kept
  <2>5. QED
    BY <1>0, <1>6, <2>2, <2>3, <2>4, DeleteStatusWent
<1>7. ASSUME NEW q \in LinkIds, NEW to \in Ends, MoveSource(q, to) \/ MoveTarget(q, to)
      PROVE  Kept(r)
  <2>1. CASE q = r
    <3>1. /\ MoveSource(r, to) => rote'[r].source = to
          /\ MoveTarget(r, to) => rote'[r].target = to
      BY <1>0, <1>7, <2>1, MoveWent
    <3>2. QED
      BY <1>7, <2>1, <3>1 DEF Kept
  <2>2. CASE q # r
    BY <1>0, <1>7, <2>2, MoveWent, LeftIsKept
  <2>3. QED
    BY <2>1, <2>2
<1>8. ASSUME NEW q \in LinkIds, NEW c \in Codes, EditLink(q, c) PROVE Kept(r)
  <2>1. CASE q = r
    BY <1>8, <2>1, EditLinkWent DEF Kept
  <2>2. CASE q # r
    BY <1>0, <1>8, <2>2, EditLinkWent, LeftIsKept
  <2>3. QED
    BY <2>1, <2>2
<1>9. ASSUME NEW q \in LinkIds, RemoveLink(q) PROVE Kept(r)
  <2>1. CASE q = r
    BY <1>9, <2>1 DEF Kept
  <2>2. CASE q # r
    BY <1>0, <1>1, <1>9, <2>2 DEF RemoveLink, EInv, LinksOK
  <2>3. QED
    BY <2>1, <2>2
<1>10. ASSUME SaveAndLoad PROVE Kept(r)
  <2>1. Load(Merged) /\ Merged \in Seq(Tabs)
    BY <1>10, MergedProp DEF SaveAndLoad, EInv
  <2>2. CASE rote[r].on \in Shown'
    BY <1>0, <2>1, <2>2, LoadWent DEF Kept
  <2>3. CASE rote[r].on \notin Shown'
    BY <2>3 DEF Shown, Kept
  <2>4. QED
    BY <2>2, <2>3
<1>11. QED
  BY <1>1, <1>2, <1>3, <1>4, <1>5, <1>6, <1>7, <1>8, <1>9, <1>10, Ids
     DEF Next, NewTab, ChangeTab, RenameTab, AddStatus

(* A link that was drawn to a cell is only taken away or changed by its    *)
(* user, or with the edit mode of a status it is still embedded in:        *)
(* updateBox gives it up before the status is closed.                      *)
THEOREM LinksAreKept == Spec => LinkKept
<1> DEFINE Body == \A r \in Linked : Kept(r)
<1>1. EInv /\ [Next]_vars => [Body]_vars
  BY LinksStayKept
<1>2. LinkKept <=> [][Body]_vars
  BY DEF LinkKept, Kept
<1> HIDE DEF Body
<1>3. QED
  BY <1>1, <1>2, EInvariance, PTL DEF Spec

-------------------------------------------------------------------------------
(* Saving and loading a project whose tabs have different names, numerals  *)
(* first.                                                                  *)

(* Each name is then the name of one tab, and the JSON has the tabs in     *)
(* their order.                                                            *)
LEMMA MergedIsTabs ==
    ASSUME TabsOK, NamesInOrder
    PROVE  Merged = tabs
<1> DEFINE n == Len(tabs)
<1>1. n \in Nat /\ DOMAIN tabs = 1..n /\ tabs = [k \in 1..n |-> tabs[k]]
  BY DEF TabsOK
<1>2. FirstOfName = 1..n
  <2>1. ASSUME NEW i \in 1..n, NEW j \in 1..(i - 1) PROVE name[tabs[j]] # name[tabs[i]]
    <3>1. j \in 1..n /\ j < i
      BY <1>1
    <3>2. QED
      BY <1>1, <3>1 DEF NamesInOrder
  <2>2. QED
    BY <1>1, <2>1 DEF FirstOfName
<1>3. Cardinality(FirstOfName) = n
  BY <1>1, <1>2, UpTo
<1>4. DOMAIN Merged = 1..n /\ Merged = [k \in 1..n |-> Merged[k]]
  BY <1>3 DEF Merged
<1> HIDE DEF n
<1>5. ASSUME NEW k \in 1..n PROVE Merged[k] = tabs[k]
  <2>1. PICK i \in FirstOfName : /\ Cardinality({j \in FirstOfName : Precedes(j, i)}) = k
                                 /\ Merged[k] = tabs[LastOfName(name[tabs[i]])]
    BY <1>3, MergedFrom
  <2>2. i \in 1..n
    BY <1>2
  <2>3. {j \in FirstOfName : Precedes(j, i)} = 1..i
    <3>1. ASSUME NEW j \in 1..n PROVE Precedes(j, i) <=> j <= i
      <4>1. j < i => Precedes(j, i)
        BY <1>1, <2>2 DEF NamesInOrder
      <4>2. i < j => Precedes(i, j)
        BY <1>1, <2>2 DEF NamesInOrder
      <4>3. i \in FirstOfName /\ j \in FirstOfName /\ i \in Nat /\ j \in Nat
        BY <1>1, <1>2, <2>2
      <4>4. QED
        BY <4>1, <4>2, <4>3, KeysOrdered
    <3>2. 1..i = {j \in 1..n : j <= i}
      BY <1>1, <2>2
    <3>3. {j \in 1..n : Precedes(j, i)} = {j \in 1..n : j <= i}
      BY <3>1, Zenon
    <3>4. QED
      BY <1>2, <3>2, <3>3
  <2>4. i \in Nat
    BY <1>1, <2>2
  <2>5. i = k
    BY <2>1, <2>3, <2>4, UpTo
  <2>6. LastOfName(name[tabs[i]]) = i
    <3>1. \E l \in 1..n : l = LastOfName(name[tabs[i]]) /\ name[tabs[l]] = name[tabs[i]]
      BY <1>1, <2>2, LastOfNameProp
    <3>2. ASSUME NEW l \in 1..n, name[tabs[l]] = name[tabs[i]] PROVE l = i
      BY <1>1, <2>2, <3>2 DEF NamesInOrder
    <3>3. QED
      BY <3>1, <3>2
  <2>7. QED
    BY <2>1, <2>5, <2>6
<1>6. QED
  BY <1>1, <1>4, <1>5

(* So all is drawn again as it was.                                        *)
LEMMA LoadedWent ==
    ASSUME EInv, NamesInOrder, ~BlankCode, SaveAndLoad
    PROVE  /\ tabs' = tabs /\ name' = name
           /\ \A s \in StatusIds : status'[s].on = status[s].on /\ status'[s].code = status[s].code
           /\ \A r \in LinkIds : rote'[r] = [rote[r] EXCEPT !.opener = None]
<1>1. TabsOK /\ StatusesOK /\ LinksOK /\ tabs \in Seq(Tabs)
  BY DEF EInv, TabsOK
<1>2. Load(tabs)
  BY <1>1, MergedIsTabs DEF SaveAndLoad
<1>3. tabs' = tabs /\ Shown' = Shown /\ name' = [t \in Tabs |-> name'[t]]
  BY <1>2 DEF Load, Shown
<1>4. None \notin Shown
  <2>1. \A i \in DOMAIN tabs : tabs[i] \in Tabs
    BY <1>1
  <2>2. QED
    BY <2>1, Ids DEF Shown
<1>5. name' = name
  <2>1. \A t \in Tabs : name'[t] = name[t]
    BY <1>1, <1>2, <1>3, LoadWent DEF TabsOK
  <2>2. QED
    BY <1>1, <1>3, <2>1 DEF TabsOK
<1>6. ASSUME NEW s \in StatusIds
      PROVE  status'[s].on = status[s].on /\ status'[s].code = status[s].code
  <2>1. CASE s \in Drawn
    <3>1. status[s].on \in Shown' /\ status[s].code # 0
      BY <1>1, <1>3, <2>1 DEF StatusesOK, BlankCode, StatusCodes
    <3>2. QED
      BY <1>1, <1>2, <3>1, LoadWent
  <2>2. CASE s \notin Drawn
    <3>1. status[s] = NoStatus /\ status[s].on \notin Shown'
      BY <1>1, <1>3, <1>4, <2>2, DrawnIsStatus DEF NoStatus
    <3>2. status'[s] = NoStatus
      BY <1>1, <1>2, <3>1, LoadWent
    <3>3. QED
      BY <3>1, <3>2
  <2>3. QED
    BY <2>1, <2>2
<1>7. ASSUME NEW r \in LinkIds PROVE rote'[r] = [rote[r] EXCEPT !.opener = None]
  <2>1. CASE r \in Linked
    <3>1. rote[r].on \in Shown' /\ rote[r].code # 0
      BY <1>1, <1>3, <2>1 DEF LinksOK, BlankCode, LinkCodes
    <3>2. QED
      BY <1>1, <1>2, <3>1, LoadWent
  <2>2. CASE r \notin Linked
    <3>1. rote[r] = NoRote /\ rote[r].on \notin Shown'
      BY <1>1, <1>3, <1>4, <2>2, LinkedIsRote DEF NoRote
    <3>2. rote'[r] = NoRote
      BY <1>1, <1>2, <3>1, LoadWent
    <3>3. [NoRote EXCEPT !.opener = None] = NoRote
      BY DEF NoRote
    <3>4. QED
      BY <3>1, <3>2, <3>3
  <2>3. QED
    BY <2>1, <2>2
<1>8. QED
  BY <1>3, <1>5, <1>6, <1>7

(* A project whose tabs have different names, numerals only first and      *)
(* ascending, and whose codes are not empty is the same when it is opened  *)
(* again: saving and load_json lose no tab, no code and no end of a link.  *)
THEOREM LoadedIsSaved == Spec => LoadedAsSaved
<1> DEFINE Body ==
      NamesInOrder /\ ~BlankCode /\ SaveAndLoad =>
       /\ tabs' = tabs /\ name' = name
       /\ \A s \in StatusIds : status'[s].on = status[s].on /\ status'[s].code = status[s].code
       /\ \A r \in LinkIds : rote'[r] = [rote[r] EXCEPT !.opener = None]
<1>1. EInv /\ [Next]_vars => [Body]_vars
  BY LoadedWent
<1>2. LoadedAsSaved <=> [][Body]_vars
  BY DEF LoadedAsSaved
<1> HIDE DEF Body
<1>3. QED
  BY <1>1, <1>2, EInvariance, PTL DEF Spec
===============================================================================
