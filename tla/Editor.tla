--------------------------------- MODULE Editor ---------------------------------
(***************************************************************************)
(* The workflow editor (handywedge-wf-editor: wf_model.js, wf_cont.js): a  *)
(* browser page in which the masters of the workflow engine are drawn.  A  *)
(* project is a row of tabs; each tab has a diagram of statuses and of     *)
(* links between them; a link is an action, with the status before and     *)
(* after it.  The project is saved as JSON, to be opened again, and        *)
(* exported as CSV, from which fw_status_master and fw_wf_rote are filled. *)
(*                                                                         *)
(* JavaScript runs one handler at a time: an action here is a handler with *)
(* everything it triggers.  What makes the editor hard is what stays       *)
(* between handlers: a status in edit mode has a box and a new link        *)
(* embedded in it, listeners tie a link to the status it was drawn from,   *)
(* and neither is the same after the project has been saved and loaded.    *)
(***************************************************************************)
EXTENDS Naturals, Sequences, FiniteSets

CONSTANTS
    Tabs,        \* joint.dia.Graph objects
    StatusIds,   \* ids of status.Element cells
    LinkIds,     \* ids of rote cells
    None,        \* no such tab or cell
    Point,       \* a link's end that is on the paper and at no cell
    Toolbox,     \* the toolbox.Element of a tab
    Names, NoName,  \* names of tabs; of a new tab
    Numerals,    \* names that are the decimal numeral of an array index: the index
    MaxCode,     \* bound: codes the user types
    MaxCells     \* bound: statuses and links of a project

(* Codes are numbers: of a status 0 is '' and n is "Sn", of a link 0 is '' *)
(* and n is "Ln".                                                          *)
ASSUME EditorAssumption ==
    /\ None \notin Tabs \cup StatusIds
    /\ {Point, Toolbox} \cap StatusIds = {} /\ Point # Toolbox
    /\ NoName \in Names /\ Numerals \subseteq Names \cap Nat
    /\ IsFiniteSet(StatusIds) /\ IsFiniteSet(LinkIds)
    /\ {MaxCode, MaxCells} \subseteq Nat
    /\ Cardinality(StatusIds) <= MaxCode /\ Cardinality(LinkIds) <= MaxCode

VARIABLES
    tabs,        \* graph[]: the tabs in their order
    name,        \* of each tab
    currenttab,  \* the place of the tab that is shown, 0 for the home screen
    status,      \* of each status: its tab, its code, its edit box
    rote         \* of each link: its tab, its code, its two ends and
                 \*   parent: the status it is embedded in
                 \*   opener: the status that listens to it, which it was drawn from

vars == <<tabs, name, currenttab, status, rote>>

-------------------------------------------------------------------------------
(* Cells. An edit box that is "dead" came out of a file: nothing listens   *)
(* to it.                                                                  *)
Ends == StatusIds \cup {Point, Toolbox}

Codes == 0..MaxCode

Status == [on : Tabs, code : Codes, box : {"none", "open", "dead"}]
Rote == [on : Tabs, code : Codes, source : Ends, target : Ends,
         parent : StatusIds \cup {None}, opener : StatusIds \cup {None}]

NoStatus == [on |-> None, code |-> 0, box |-> "none"]
NoRote == [on |-> None, code |-> 0, source |-> Point, target |-> Point,
           parent |-> None, opener |-> None]

Drawn == {s \in StatusIds : status[s].on # None}
Linked == {r \in LinkIds : rote[r].on # None}

Room == Cardinality(Drawn) + Cardinality(Linked) < MaxCells

Current == IF currenttab = 0 THEN None ELSE tabs[currenttab]

StatusCodes(S) == {status[s].code : s \in S}
LinkCodes(R) == {rote[r].code : r \in R}

(* The loops of initstatus and initcode: the first number not yet used.    *)
FirstFree(used) == CHOOSE n \in 1..MaxCode : n \notin used /\ 1..(n - 1) \subseteq used

(* validate: the code is not used by another cell of the type, in any tab. *)
StatusFree(c, s) == c \notin StatusCodes(Drawn \ {s})
LinkFree(c, r) == c \notin LinkCodes(Linked \ {r})

-------------------------------------------------------------------------------
(* Leaving edit mode (closeeditbox): the cells embedded in the statuses S, *)
(* box and links, are removed.                                             *)
Shut(st, S) == [s \in StatusIds |-> IF s \in S THEN [st[s] EXCEPT !.box = "none"] ELSE st[s]]

WithoutEmbedded(rt, S) == [r \in LinkIds |-> IF rt[r].parent \in S THEN NoRote ELSE rt[r]]

CloseEditBox(S) ==
    /\ status' = Shut(status, S)
    /\ rote' = WithoutEmbedded(rote, S)

(* A fault: edit mode is left before the link is taken out of the status.  *)
ChangeClosingFirst(r, l) ==
    IF l.target # Point /\ l.opener # None
    THEN /\ status' = Shut(status, {l.opener})
         /\ rote' = WithoutEmbedded([rote EXCEPT ![r] = l], {l.opener})
    ELSE rote' = [rote EXCEPT ![r] = l] /\ UNCHANGED status

(* A link changes (updateBox): if it leads to a cell, the status that      *)
(* listens to it gives it up and leaves its edit mode.                     *)
Change(r, l) ==
    IF l.target # Point /\ l.opener # None
    THEN /\ status' = Shut(status, {l.opener})
         /\ rote' = WithoutEmbedded([rote EXCEPT ![r] = [l EXCEPT !.parent = None]], {l.opener})
    ELSE rote' = [rote EXCEPT ![r] = l] /\ UNCHANGED status

-------------------------------------------------------------------------------
(* Tabs. *)
Init ==
    /\ tabs = <<>>
    /\ name = [t \in Tabs |-> NoName]
    /\ currenttab = 0
    /\ status = [s \in StatusIds |-> NoStatus]
    /\ rote = [r \in LinkIds |-> NoRote]

(* A fault: a new status is numbered among those of its tab.               *)
AddToNumberedInTab(s, t) ==
    /\ s \notin Drawn /\ Room
    /\ status' = [status EXCEPT ![s] =
                    [on |-> t, box |-> "none",
                     code |-> FirstFree(StatusCodes({z \in Drawn : status[z].on = t}))]]

(* A new status (addBox, Graph_Init) is numbered by its view.              *)
AddTo(s, t) ==
    /\ s \notin Drawn /\ Room
    /\ status' = [status EXCEPT ![s] =
                    [on |-> t, code |-> FirstFree(StatusCodes(Drawn)), box |-> "none"]]

(* Tab_Add, Graph_Init: a tab with a toolbox and one status.               *)
NewTab(t, s) ==
    /\ t \notin {tabs[i] : i \in DOMAIN tabs}
    /\ tabs' = Append(tabs, t)
    /\ name' = [name EXCEPT ![t] = NoName]
    /\ currenttab' = Len(tabs) + 1
    /\ AddTo(s, t)
    /\ UNCHANGED rote

(* Tab_Change, Tab_Home. *)
ChangeTab(i) ==
    /\ currenttab' = i
    /\ UNCHANGED <<tabs, name, status, rote>>

(* A fault: closing a tab leaves the number of the current one.            *)
CloseTabStaying(i) ==
    /\ tabs' = SubSeq(tabs, 1, i - 1) \o SubSeq(tabs, i + 1, Len(tabs))
    /\ name' = [name EXCEPT ![tabs[i]] = NoName]
    /\ status' = [s \in StatusIds |-> IF status[s].on = tabs[i] THEN NoStatus ELSE status[s]]
    /\ rote' = [r \in LinkIds |-> IF rote[r].on = tabs[i] THEN NoRote ELSE rote[r]]
    /\ UNCHANGED currenttab

(* Tab_Close: shows the tab to the left, or the first; Home without tabs.  *)
CloseTab(i) ==
    /\ tabs' = SubSeq(tabs, 1, i - 1) \o SubSeq(tabs, i + 1, Len(tabs))
    /\ name' = [name EXCEPT ![tabs[i]] = NoName]
    /\ status' = [s \in StatusIds |-> IF status[s].on = tabs[i] THEN NoStatus ELSE status[s]]
    /\ rote' = [r \in LinkIds |-> IF rote[r].on = tabs[i] THEN NoRote ELSE rote[r]]
    /\ currenttab' = IF Len(tabs) = 1 THEN 0 ELSE IF i = 1 THEN 1 ELSE i - 1

(* The tab dialog sets the name of the current tab. From the home screen,  *)
(* '#tabs .tab:eq(-1)' is the last tab.                                    *)
RenameTab(n) ==
    /\ tabs # <<>>
    /\ name' = [name EXCEPT ![IF currenttab = 0 THEN tabs[Len(tabs)] ELSE Current] = n]
    /\ UNCHANGED <<tabs, currenttab, status, rote>>

-------------------------------------------------------------------------------
(* Statuses. *)
AddStatus(s) ==
    /\ Current # None
    /\ AddTo(s, Current)
    /\ UNCHANGED <<tabs, name, currenttab, rote>>

(* openeditbox: a box, and a new link from the status to a point of the    *)
(* paper, both embedded; nothing if the status still has embedded cells.   *)
OpenEditBox(s, r) ==
    /\ status[s].on = Current /\ Current # None
    /\ status[s].box = "none" /\ \A q \in LinkIds : rote[q].parent # s
    /\ r \notin Linked /\ Room
    /\ status' = [status EXCEPT ![s].box = "open"]
    /\ rote' = [rote EXCEPT ![r] =
                  [on |-> Current, code |-> FirstFree(LinkCodes(Linked)),
                   source |-> s, target |-> Point, parent |-> s, opener |-> s]]
    /\ UNCHANGED <<tabs, name, currenttab>>

(* OK in an edit box, with the code c: the status takes it and leaves edit *)
(* mode, or, if the code is used, an alert is shown. The box goes either   *)
(* way (its own handler removes it); after the alert the link stays        *)
(* embedded.                                                               *)
UpdateStatus(s, c) ==
    /\ status[s].on = Current /\ status[s].box = "open"
    /\ IF StatusFree(c, s)
       THEN /\ status' = [status EXCEPT ![s].code = c, ![s].box = "none"]
            /\ rote' = WithoutEmbedded(rote, {s})
       ELSE status' = [status EXCEPT ![s].box = "none"] /\ UNCHANGED rote
    /\ UNCHANGED <<tabs, name, currenttab>>

Cancel(s) ==
    /\ status[s].on = Current /\ status[s].box = "open"
    /\ CloseEditBox({s})
    /\ UNCHANGED <<tabs, name, currenttab>>

(* OK or Cancel in a box from a file: the box goes, nobody is told.        *)
DismissDead(s) ==
    /\ status[s].on = Current /\ status[s].box = "dead"
    /\ status' = [status EXCEPT ![s].box = "none"]
    /\ UNCHANGED <<tabs, name, currenttab, rote>>

(* A click beside all cells: every status of the tab leaves edit mode.     *)
BlankClick ==
    /\ Current # None
    /\ CloseEditBox({s \in StatusIds : status[s].on = Current})
    /\ UNCHANGED <<tabs, name, currenttab>>

(* A fault: the links of a deleted status stay.                            *)
DeleteStatusOnly(s) ==
    /\ status[s].on = Current /\ Current # None
    /\ status' = [status EXCEPT ![s] = NoStatus]
    /\ rote' = [r \in LinkIds |->
                  IF rote[r].parent = s THEN NoRote
                  ELSE IF rote[r].opener = s THEN [rote[r] EXCEPT !.opener = None] ELSE rote[r]]
    /\ UNCHANGED <<tabs, name, currenttab>>

(* The x of a status: it goes with what is embedded in it and with its     *)
(* links (joint.dia.Graph). The x shows in edit mode, which a click opens. *)
DeleteStatus(s) ==
    /\ status[s].on = Current /\ Current # None
    /\ status' = [status EXCEPT ![s] = NoStatus]
    /\ rote' = [r \in LinkIds |->
                  IF s \in {rote[r].parent, rote[r].source, rote[r].target} THEN NoRote
                  ELSE IF rote[r].opener = s THEN [rote[r] EXCEPT !.opener = None] ELSE rote[r]]
    /\ UNCHANGED <<tabs, name, currenttab>>

-------------------------------------------------------------------------------
(* Links. *)

(* An arrowhead is dragged to a status or the toolbox of its tab, or       *)
(* dropped on the paper.                                                   *)
MoveSource(r, to) ==
    /\ rote[r].on = Current /\ Current # None
    /\ to \in StatusIds => status[to].on = Current
    /\ Change(r, [rote[r] EXCEPT !.source = to])
    /\ UNCHANGED <<tabs, name, currenttab>>

MoveTarget(r, to) ==
    /\ rote[r].on = Current /\ Current # None
    /\ to \in StatusIds => status[to].on = Current
    /\ Change(r, [rote[r] EXCEPT !.target = to])
    /\ UNCHANGED <<tabs, name, currenttab>>

(* The edit box of a link, opened and ended with OK and the code c; it     *)
(* takes the code, or an alert is shown if the code is used. openedit      *)
(* throws for a link that leads from a point to a cell.                    *)
EditLink(r, c) ==
    /\ rote[r].on = Current /\ Current # None
    /\ ~(rote[r].source = Point /\ rote[r].target # Point)
    /\ LinkFree(c, r)
    /\ Change(r, [rote[r] EXCEPT !.code = c])
    /\ UNCHANGED <<tabs, name, currenttab>>

RemoveLink(r) ==
    /\ rote[r].on = Current /\ Current # None
    /\ rote' = [rote EXCEPT ![r] = NoRote]
    /\ UNCHANGED <<tabs, name, currenttab, status>>

-------------------------------------------------------------------------------
(* The project as JSON. Saving writes '"name":diagram' for each tab;       *)
(* loading parses that into one object, in which a name occurs once, at    *)
(* its first place and with its last diagram, and then builds a tab for    *)
(* each name, in the order of 'for in': numerals by their value, before    *)
(* all others. What happens to a project between saving and loading is     *)
(* lost, so the two are one action here.                                   *)
FirstOfName == {i \in DOMAIN tabs : \A j \in 1..(i - 1) : name[tabs[j]] # name[tabs[i]]}

LastOfName(n) == CHOOSE i \in DOMAIN tabs :
    /\ name[tabs[i]] = n
    /\ \A j \in (i + 1)..Len(tabs) : name[tabs[j]] # n

Precedes(j, i) ==
    LET m == name[tabs[j]]
        n == name[tabs[i]]
    IN  \/ m \in Numerals /\ (n \in Numerals => m <= n)
        \/ m \notin Numerals /\ n \notin Numerals /\ j <= i

Merged ==
    [k \in 1..Cardinality(FirstOfName) |->
        LET i == CHOOSE i \in FirstOfName : Cardinality({j \in FirstOfName : Precedes(j, i)}) = k
        IN  tabs[LastOfName(name[tabs[i]])]]

(* Of the loaded tabs L: the place of a tab, 0 if it is lost.              *)
Place(L, t) == IF \E k \in DOMAIN L : L[k] = t THEN CHOOSE k \in DOMAIN L : L[k] = t ELSE 0

(* A status without a code is numbered when its view is made: its own tab  *)
(* and those before it are there, later ones are not. A link is numbered   *)
(* in its constructor, where not even its own tab is there. validate lets  *)
(* one status and one link at most be without a code.                      *)
LoadedStatus(s, place) ==
    [status[s] EXCEPT
        !.code = IF @ # 0 THEN @
                 ELSE FirstFree(StatusCodes({z \in Drawn \ {s} :
                                    place[status[z].on] \in 1..place[status[s].on]})),
        !.box = IF @ = "none" THEN "none" ELSE "dead"]

(* A fault: every link is numbered when it is loaded.                      *)
LoadedLinkRenumbered(r, place) ==
    [rote[r] EXCEPT !.code = FirstFree(LinkCodes({q \in Linked :
                                 place[rote[q].on] \in 1..(place[rote[r].on] - 1)})),
                    !.opener = None]

LoadedLink(r, place) ==
    [rote[r] EXCEPT
        !.code = IF @ # 0 THEN @
                 ELSE FirstFree(LinkCodes({q \in Linked :
                                    place[rote[q].on] \in 1..(place[rote[r].on] - 1)})),
        !.opener = None]

Load(L) ==
    LET place == [t \in Tabs \cup {None} |-> Place(L, t)]
    IN  /\ tabs' = L
        /\ currenttab' = Len(L)
        /\ name' = [t \in Tabs |-> IF place[t] # 0 THEN name[t] ELSE NoName]
        /\ status' = [s \in StatusIds |->
                         IF place[status[s].on] # 0 THEN LoadedStatus(s, place) ELSE NoStatus]
        /\ rote' = [r \in LinkIds |->
                       IF place[rote[r].on] # 0 THEN LoadedLink(r, place) ELSE NoRote]

(* Without tabs, '}' is saved, which loading cannot parse.                 *)
SaveAndLoad == tabs # <<>> /\ Load(Merged)

Next ==
    \/ \E t \in Tabs, s \in StatusIds : NewTab(t, s)
    \/ \E i \in 0..Len(tabs) : ChangeTab(i)
    \/ \E i \in DOMAIN tabs : CloseTab(i)
    \/ \E n \in Names : RenameTab(n)
    \/ \E s \in StatusIds : AddStatus(s)
    \/ \E s \in StatusIds, r \in LinkIds : OpenEditBox(s, r)
    \/ \E s \in StatusIds, c \in Codes : UpdateStatus(s, c)
    \/ \E s \in StatusIds : Cancel(s) \/ DismissDead(s)
    \/ BlankClick
    \/ \E s \in StatusIds : DeleteStatus(s)
    \/ \E r \in LinkIds, to \in Ends : MoveSource(r, to) \/ MoveTarget(r, to)
    \/ \E r \in LinkIds, c \in Codes : EditLink(r, c)
    \/ \E r \in LinkIds : RemoveLink(r)
    \/ SaveAndLoad

Spec == Init /\ [][Next]_vars

-------------------------------------------------------------------------------
(* Properties. *)

(* Every variable keeps its type, and the tab that is shown is one of the  *)
(* tabs (Tab_Close, Tab_Home).                                             *)
TypeOK ==
    /\ tabs \in Seq(Tabs)
    /\ \A i, j \in DOMAIN tabs : tabs[i] = tabs[j] => i = j
    /\ name \in [Tabs -> Names]
    /\ currenttab \in 0..Len(tabs)
    /\ status \in [StatusIds -> Status \cup {NoStatus}]
    /\ rote \in [LinkIds -> Rote \cup {NoRote}]

UniqueCodes ==
    /\ \A s, z \in Drawn : status[s].code = status[z].code => s = z
    /\ \A r, q \in Linked : rote[r].code = rote[q].code => r = q

BlankCode == 0 \in StatusCodes(Drawn) \cup LinkCodes(Linked)

(* No two statuses and no two links of a project get the same code ("not   *)
(* allowed to repeat in the whole project", usage/index.html), in whatever *)
(* tab they are drawn, renamed or loaded. Only a code that was cleared     *)
(* before saving may be numbered like another when it is loaded.           *)
CodesStayUnique ==
    [][UniqueCodes /\ ~(BlankCode /\ SaveAndLoad) => UniqueCodes']_vars

(* A link dragged to a cell is connected to it. From then on it is only    *)
(* taken away or changed by its user: the link is removed or dragged, a    *)
(* status it is connected to is deleted, its tab is closed. Leaving an     *)
(* edit mode takes a link that is embedded and leads nowhere ("the link    *)
(* vanishes with it", usage/index.html), or one that was embedded when the *)
(* project was saved, which is never released.                             *)
LinkKept ==
    [][\A r \in Linked :
         rote'[r].source # rote[r].source \/ rote'[r].target # rote[r].target =>
           \/ RemoveLink(r)
           \/ \E e \in {rote[r].source, rote[r].target} \cap StatusIds : status'[e].on = None
           \/ rote[r].on \notin {tabs'[i] : i \in DOMAIN tabs'}
           \/ \E to \in Ends : \/ MoveSource(r, to) /\ rote'[r].source = to
                               \/ MoveTarget(r, to) /\ rote'[r].target = to
           \/ /\ rote[r].parent # None
              /\ rote[r].opener = None \/ rote[r].target = Point
              /\ ~\E to \in Ends : MoveTarget(r, to)]_vars

NamesInOrder ==
    \A i, j \in DOMAIN tabs : i < j => name[tabs[i]] # name[tabs[j]] /\ Precedes(i, j)

(* If the tabs have different names, numerals only first and ascending,    *)
(* and no code is empty, a project that was saved and is opened again is   *)
(* the same: its tabs, the codes, and what each link leads from and to.    *)
LoadedAsSaved ==
    [][NamesInOrder /\ ~BlankCode /\ SaveAndLoad =>
       /\ tabs' = tabs /\ name' = name
       /\ \A s \in StatusIds : status'[s].on = status[s].on /\ status'[s].code = status[s].code
       /\ \A r \in LinkIds : rote'[r] = [rote[r] EXCEPT !.opener = None]]_vars

(* The CSV: a row for each status that has a code and one for each link;   *)
(* writing it throws if an end of a link is at no cell.                    *)
Exportable == \A r \in Linked : rote[r].source # Point /\ rote[r].target # Point

ExportedStatuses == StatusCodes(Drawn) \ {0}

ExportedCode(e) == IF e \in StatusIds THEN status[e].code ELSE Toolbox

ExportedRows == {[code |-> rote[r].code, pre |-> ExportedCode(rote[r].source),
                  post |-> ExportedCode(rote[r].target)] : r \in Linked}

(* What is exported are masters as the engine needs them (Workflow,        *)
(* MastersAssumption): one row for an action code, before and after it     *)
(* statuses that are exported too. Provided that the codes are unique, none*)
(* is empty and no link was connected to the toolbox.                      *)
ExportIsMasters ==
    Exportable /\ UniqueCodes /\ ~BlankCode
      /\ (\A r \in Linked : Toolbox \notin {rote[r].source, rote[r].target}) =>
    \A x, y \in ExportedRows :
        /\ {x.pre, x.post} \subseteq ExportedStatuses
        /\ x.code = y.code => x = y
================================================================================
