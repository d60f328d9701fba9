--------------------------- MODULE BinaryStoreProofs ---------------------------
(***************************************************************************)
(* What TLAPS proves about BinaryStore, for any number of requests, any    *)
(* size of a part and of a file, and any limit of at least two parts.      *)
(***************************************************************************)
EXTENDS BinaryStore, FiniteSetTheorems, TLAPS

-------------------------------------------------------------------------------
(* Sizes. *)

LEMMA TimesPart ==
    ASSUME NEW i \in Int, NEW j \in Int
    PROVE  /\ Part * i \in Int
           /\ i <= j => Part * i <= Part * j
           /\ Part * i < Part * j => i < j
           /\ Part * (i + 1) = Part * i + Part
<1>1. Part \in Nat /\ Part > 0
  BY SizesAssumption
<1>2. Part * i \in Int /\ Part * j \in Int
  BY <1>1
<1>3. i <= j => Part * i <= Part * j
  <2>1. ASSUME i <= j PROVE Part * i <= Part * j
    <3>1. j - i \in Nat
      BY <2>1
    <3>2. Part * (j - i) >= 0
      BY <1>1, <3>1
    <3>3. Part * (j - i) = Part * j - Part * i
      BY <1>1
    <3>4. QED
      BY <1>2, <3>2, <3>3
  <2>2. QED
    BY <2>1
<1>4. Part * i < Part * j => i < j
  <2>1. ASSUME ~(i < j) PROVE ~(Part * i < Part * j)
    <3>1. i - j \in Nat
      BY <2>1
    <3>2. Part * (i - j) >= 0
      BY <1>1, <3>1
    <3>3. Part * (i - j) = Part * i - Part * j
      BY <1>1
    <3>4. QED
      BY <1>2, <3>2, <3>3
  <2>2. QED
    BY <2>1
<1>5. Part * (i + 1) = Part * i + Part
  BY <1>1
<1>6. QED
  BY <1>2, <1>3, <1>4, <1>5

(* n parts hold a file if and only if it has no more than n pieces.        *)
LEMMA PiecesProp ==
    ASSUME NEW u, size[u] \in Nat
    PROVE  /\ Pieces(u) \in Nat
           /\ \A n \in Nat : size[u] <= Part * n <=> Pieces(u) <= n
<1> DEFINE q == Pieces(u)
           m == size[u] + Part - 1
<1>1. Part \in Nat /\ Part > 0 /\ m \in Nat
  BY SizesAssumption
<1>2. q \in Nat /\ Part * q <= m /\ m < Part * (q + 1)
  <2>1. ASSUME NEW n \in Nat
        PROVE  /\ n \div Part \in Nat
               /\ Part * (n \div Part) <= n
               /\ n < Part * (n \div Part) + Part
    BY <1>1
  <2>2. q = m \div Part
    BY DEF Pieces
  <2>3. q \in Nat /\ Part * q <= m /\ m < Part * q + Part
    BY <1>1, <2>1, <2>2
  <2>4. Part * (q + 1) = Part * q + Part
    BY <2>3, TimesPart
  <2>5. QED
    BY <2>3, <2>4
<1> HIDE DEF q
<1>3. ASSUME NEW n \in Nat PROVE size[u] <= Part * n <=> q <= n
  <2>1. /\ Part * n \in Int /\ Part * q \in Int /\ Part * (q - 1) \in Int
        /\ Part * (q + 1) = Part * q + Part /\ Part * q = Part * (q - 1) + Part
    <3>1. q - 1 \in Int /\ (q - 1) + 1 = q
      BY <1>2
    <3>2. Part * ((q - 1) + 1) = Part * (q - 1) + Part
      BY <3>1, TimesPart
    <3>3. QED
      BY <1>2, <3>1, <3>2, TimesPart
  <2>2. CASE q <= n
    <3>1. Part * q <= Part * n
      BY <1>2, <2>2, TimesPart
    <3>2. QED
      BY <1>1, <1>2, <2>1, <2>2, <3>1
  <2>3. CASE ~(q <= n)
    <3>1. Part * n <= Part * (q - 1)
      BY <1>2, <2>3, TimesPart
    <3>2. QED
      BY <1>1, <1>2, <2>1, <2>3, <3>1
  <2>4. QED
    BY <2>2, <2>3
<1>4. QED
  BY <1>2, <1>3 DEF q

(* What the loop asks: there is another part, it would be one too many.    *)
LEMMA PartsSent ==
    ASSUME NEW u, size[u] \in Nat, sent[u] \in Nat
    PROVE  /\ More(u) => sent[u] < Pieces(u)
           /\ More(u) /\ ~OverSize(u) => sent[u] + 1 < Limit
           /\ ~More(u) /\ sent[u] > 0 => Pieces(u) <= sent[u]
           /\ ~More(u) /\ sent[u] = 0 => size[u] <= Part
           /\ OverSize(u) => TooLarge(u)
<1> DEFINE n == sent[u]
           end == Part * (n + 1)
<1>1. Part \in Nat /\ Part > 0 /\ Limit \in Nat
  BY SizesAssumption
<1>2. /\ Part * n \in Int /\ Part * 0 \in Int /\ Part * 1 \in Int
      /\ end = Part * n + Part /\ Part * 0 = 0 /\ Part * 1 = Part
  BY <1>1, TimesPart
<1>3. Pieces(u) \in Nat /\ (size[u] <= Part * n <=> Pieces(u) <= n)
  BY PiecesProp
<1>4. /\ More(u) => size[u] > Part * n
      /\ ~More(u) => size[u] <= Part * (IF n = 0 THEN 1 ELSE n)
  <2>1. More(u) <=> size[u] > Part * (IF n = 0 THEN 1 ELSE n)
    BY DEF More
  <2>2. CASE n = 0
    BY <1>1, <1>2, <2>1, <2>2
  <2>3. CASE n # 0
    BY <1>2, <2>1, <2>3
  <2>4. QED
    BY <2>2, <2>3
<1> DEFINE read == IF size[u] < end THEN size[u] ELSE end
<1>5. OverSize(u) <=> Part + read > Part * Limit
  BY DEF OverSize
<1>6. More(u) /\ ~OverSize(u) => n + 1 < Limit
  <2>1. SUFFICES ASSUME More(u), Part + read <= Part * Limit PROVE n + 1 < Limit
    BY <1>1, <1>2, <1>5, TimesPart
  <2>2. read > Part * n
    BY <1>1, <1>2, <1>4, <2>1
  <2>3. Part * Limit \in Int
    BY <1>1, TimesPart
  <2>4. end < Part * Limit
    BY <1>1, <1>2, <2>1, <2>2, <2>3
  <2>5. QED
    BY <1>1, <2>4, TimesPart
<1>7. OverSize(u) => TooLarge(u)
  <2>1. Part * Limit \in Int /\ Part * (Limit - 1) \in Int /\ Part * Limit = Part * (Limit - 1) + Part
    <3>1. (Limit - 1) + 1 = Limit /\ Limit - 1 \in Int
      BY <1>1
    <3>2. Part * ((Limit - 1) + 1) = Part * (Limit - 1) + Part
      BY <3>1, TimesPart
    <3>3. QED
      BY <1>1, <3>1, <3>2, TimesPart
  <2>2. read <= size[u]
    BY <1>1, <1>2
  <2>3. QED
    BY <1>1, <1>2, <1>5, <2>1, <2>2 DEF TooLarge
<1>8. More(u) => n < Pieces(u)
  BY <1>1, <1>2, <1>3, <1>4
<1>9. ~More(u) /\ n > 0 => Pieces(u) <= n
  BY <1>1, <1>2, <1>3, <1>4
<1>10. ~More(u) /\ n = 0 => size[u] <= Part
  BY <1>1, <1>2, <1>4
<1>11. QED
  BY <1>6, <1>7, <1>8, <1>9, <1>10

(* A small file has one piece at most, and is not too large.               *)
LEMMA SmallProp ==
    ASSUME NEW u, size[u] \in Nat, Small(u)
    PROVE  Pieces(u) <= 1 /\ ~TooLarge(u)
<1>1. Part \in Nat /\ Limit \in Nat /\ 1 <= Limit - 1 /\ Part * 1 = Part
  BY SizesAssumption
<1>2. size[u] <= Part * 1
  BY <1>1 DEF Small
<1>3. Pieces(u) <= 1
  BY <1>2, PiecesProp
<1>4. /\ Part * 1 <= Part * (Limit - 1)
      /\ Part * (Limit - 1) \in Int
  BY <1>1, TimesPart
<1>5. QED
  BY <1>1, <1>2, <1>3, <1>4 DEF TooLarge

(* What S3 is asked to complete is the whole file and not too large; so is *)
(* the list of blocks that Azure is asked to commit, unless the file was   *)
(* too large or just one part.                                             *)
LEMMA LastPartSent ==
    ASSUME NEW u, size[u] \in Nat, sent[u] \in 0..(Limit - 1), sent[u] <= Pieces(u),
           sent[u] > 0, ~More(u)
    PROVE  sent[u] = Pieces(u) /\ ~TooLarge(u)
<1>1. Limit \in Nat /\ Part \in Nat
  BY SizesAssumption
<1>2. Pieces(u) \in Nat /\ Pieces(u) <= sent[u]
  BY <1>1, PiecesProp, PartsSent
<1>3. size[u] <= Part * (Limit - 1)
  BY <1>1, <1>2, PiecesProp
<1>4. Part * (Limit - 1) \in Int
  BY <1>1, TimesPart
<1>5. QED
  BY <1>1, <1>2, <1>3, <1>4 DEF TooLarge

-------------------------------------------------------------------------------
(* Types. *)

LEMMA PrefixType ==
    ASSUME NEW u \in Uploads, NEW n \in 0..Limit
    PROVE  /\ DOMAIN Prefix(u, n) = 1..n
           /\ \A k \in 1..n : Prefix(u, n)[k] \in Piece
  BY SizesAssumption DEF Prefix, Piece

TInv == TypeOK /\ (vendor # "S3" => pending = {})

LEMMA InitTInv == Init => TInv
<1> SUFFICES ASSUME Init PROVE TInv
  OBVIOUS
<1>1. 0 \in 0..(Limit - 1) /\ MaxIter \in 0..MaxIter
  BY SizesAssumption
<1>2. \A u \in Uploads : size[u] \in Nat
  BY SizesAssumption DEF Init
<1>3. \A u \in Uploads : 0 <= Pieces(u)
  BY <1>2, PiecesProp
<1>4. QED
  BY <1>1, <1>3 DEF Init, TInv, TypeOK

(* A step of u changes its own variables only.                             *)
Own(u) ==
    /\ UNCHANGED <<vendor, size>>
    /\ \A v \in Uploads \ {u} : UNCHANGED <<pc[v], sent[v], rounds[v], result[v]>>
    /\ pending' \ {u} = pending \ {u}

LEMMA Frame ==
    ASSUME TInv, NEW u \in Uploads, Step(u)
    PROVE  Own(u)
<1> USE DEF TInv, TypeOK, Own, Goto, Answer, Failed, AbortAndFail
<1>1. CASE Begin(u)
  BY <1>1 DEF Begin
<1>2. CASE ReadFirst(u) \/ ReadFails(u)
  BY <1>2 DEF ReadFirst, ReadFails
<1>3. CASE PutSmall(u)
  BY <1>3 DEF PutSmall
<1>4. CASE SendPart(u) \/ SendFails(u)
  BY <1>4 DEF SendPart, SendFails
<1>5. CASE Complete(u)
  BY <1>5 DEF Complete
<1>6. CASE CommitBlockList(u) \/ WriteChannel(u)
  BY <1>6 DEF CommitBlockList, WriteChannel
<1>7. CASE GiveUp(u) \/ AbortRound(u) \/ Refuse(u) \/ Info(u)
  BY <1>7 DEF GiveUp, AbortRound, Refuse, Info
<1>8. QED
  BY <1>1, <1>2, <1>3, <1>4, <1>5, <1>6, <1>7 DEF Step

(* What the answers are.                                                   *)
Answers == {"none", "ok", "fail", "ioFail", "getFail", "tooLarge", "runtime"}

(* What a step of u does to the request itself, and to the blocks.         *)
LEMMA Locals ==
    ASSUME TInv, NEW u \in Uploads, Step(u)
    PROVE  /\ pc'[u] \in {"first", "put", "loop", "abort", "info", "done"}
           /\ pc' \in [Uploads -> {"idle", "first", "put", "loop", "abort", "info", "done"}]
           /\ result' \in [Uploads -> Answers]
           /\ pending' \subseteq pending \cup {u}
           /\ vendor # "S3" => pending' = {}
           /\ rounds' \in [Uploads -> 0..MaxIter]
           /\ sent' = sent \/ SendPart(u)
           /\ blocks' = blocks \/ SendPart(u) \/ blocks' = [k \in DOMAIN blocks |-> Absent]
<1> USE DEF TInv, TypeOK, Goto, Answer, Failed, AbortAndFail, Answers, Stored
<1>1. CASE Begin(u)
  BY <1>1 DEF Begin
<1>2. CASE ReadFirst(u) \/ ReadFails(u)
  BY <1>2 DEF ReadFirst, ReadFails
<1>3. CASE PutSmall(u)
  BY <1>3 DEF PutSmall
<1>4. CASE SendPart(u) \/ SendFails(u)
  BY <1>4 DEF SendPart, SendFails
<1>5. CASE Complete(u)
  BY <1>5 DEF Complete
<1>6. CASE CommitBlockList(u) \/ WriteChannel(u)
  BY <1>6 DEF CommitBlockList, WriteChannel
<1>7. CASE GiveUp(u) \/ Refuse(u) \/ Info(u)
  BY <1>7 DEF GiveUp, Refuse, Info
<1>8. CASE AbortRound(u)
  <2>1. rounds[u] > 0 => rounds[u] - 1 \in 0..MaxIter
    BY SizesAssumption
  <2>2. QED
    BY <1>8, <2>1 DEF AbortRound
<1>9. QED
  BY <1>1, <1>2, <1>3, <1>4, <1>5, <1>6, <1>7, <1>8 DEF Step

(* What the object may become: nothing, the whole of a small file, the     *)
(* parts sent of a large one, or the blocks that the list finds.           *)
LEMMA Objects ==
    ASSUME NEW u \in Uploads, Step(u)
    PROVE  \/ UNCHANGED <<object, blocks>>
           \/ object' = object /\ SendPart(u)
           \/ /\ blocks' = [k \in DOMAIN blocks |-> Absent]
              /\ \/ PutSmall(u) /\ object' = Whole(u)
                 \/ /\ Complete(u) /\ vendor = "S3"
                    /\ ~More(u) /\ sent[u] > 0 /\ object' = Prefix(u, sent[u])
                 \/ /\ CommitBlockList(u) /\ vendor = "ABS" /\ (~More(u) \/ OverSize(u))
                    /\ \A k \in 1..sent[u] : Found(k)
                    /\ object' = [k \in 1..sent[u] |-> Latest(k)]
<1>1. CASE Begin(u) \/ ReadFirst(u) \/ ReadFails(u)
  BY <1>1 DEF Begin, ReadFirst, ReadFails
<1>2. CASE PutSmall(u)
  BY <1>2 DEF PutSmall, Stored
<1>3. CASE SendPart(u) \/ SendFails(u)
  BY <1>3 DEF SendPart, SendFails
<1>4. CASE Complete(u)
  BY <1>4 DEF Complete, Stored, LoopLeft
<1>5. CASE CommitBlockList(u)
  BY <1>5 DEF CommitBlockList, Stored, LoopLeft
<1>6. CASE WriteChannel(u) \/ GiveUp(u) \/ AbortRound(u) \/ Refuse(u) \/ Info(u)
  BY <1>6 DEF WriteChannel, GiveUp, AbortRound, Refuse, Info
<1>7. QED
  BY <1>1, <1>2, <1>3, <1>4, <1>5, <1>6 DEF Step

(* At the call that stores a file whole the file is a small one.           *)
AtPut(u) == pc[u] = "put" => Small(u)

Typed(o) ==
    \/ o = Absent
    \/ \E n \in 0..Limit : DOMAIN o = 1..n /\ \A k \in 1..n : o[k] \in Piece

LEMMA StepTInv ==
    ASSUME TInv, NEW u \in Uploads, Step(u), AtPut(u)
    PROVE  TInv'
<1>1. TypeOK /\ Limit \in Nat /\ Limit > 1 /\ MaxSize \in Nat
  BY SizesAssumption DEF TInv
<1>2. /\ size' = size /\ vendor' = vendor
      /\ \A v \in Uploads : size[v] \in Nat /\ sent[v] \in 0..(Limit - 1) /\ sent[v] \in Nat
  BY <1>1, Frame DEF Own, TypeOK
<1>3. \A v \in Uploads : Pieces(v)' = Pieces(v)
  BY <1>2 DEF Pieces
<1>4. /\ sent' \in [Uploads -> 0..(Limit - 1)]
      /\ \A v \in Uploads : sent'[v] <= Pieces(v)
  <2>1. CASE sent' = sent
    BY <1>1, <2>1 DEF TypeOK
  <2>2. CASE SendPart(u)
    <3>1. sent[u] + 1 < Limit /\ sent[u] < Pieces(u) /\ Pieces(u) \in Nat
      BY <1>2, <2>2, PartsSent, PiecesProp DEF SendPart
    <3>2. sent[u] + 1 \in 0..(Limit - 1) /\ sent[u] + 1 <= Pieces(u)
      BY <1>1, <1>2, <3>1
    <3>3. sent' = [sent EXCEPT ![u] = sent[u] + 1] /\ sent \in [Uploads -> 0..(Limit - 1)]
      BY <1>1, <2>2 DEF SendPart, TypeOK
    <3>4. QED
      BY <1>1, <3>2, <3>3 DEF TypeOK
  <2>3. QED
    BY <2>1, <2>2, Locals
<1>5. blocks' \in [1..Limit -> Uploads \cup {Absent}]
  <2>1. CASE SendPart(u)
    BY <1>1, <2>1 DEF SendPart, TypeOK
  <2>2. CASE blocks' = blocks \/ blocks' = [k \in DOMAIN blocks |-> Absent]
    BY <1>1, <2>2 DEF TypeOK
  <2>3. QED
    BY <2>1, <2>2, Locals
<1>6. Typed(object')
  <2>1. Typed(object)
    BY <1>1 DEF TypeOK, Typed
  <2>2. CASE object' = Whole(u) /\ PutSmall(u)
    <3>1. Pieces(u) \in Nat /\ Pieces(u) <= 1
      BY <1>2, <2>2, PiecesProp, SmallProp DEF PutSmall, AtPut
    <3>2. Pieces(u) \in 0..Limit
      BY <1>1, <3>1
    <3>3. QED
      BY <2>2, <3>2, PrefixType DEF Typed, Whole
  <2>3. CASE object' = Prefix(u, sent[u])
    <3>1. sent[u] \in 0..Limit
      BY <1>1, <1>2
    <3>2. QED
      BY <2>3, <3>1, PrefixType DEF Typed
  <2>4. CASE /\ \A k \in 1..sent[u] : Found(k)
             /\ object' = [k \in 1..sent[u] |-> Latest(k)]
    <3>1. sent[u] \in 0..Limit
      BY <1>1, <1>2
    <3>2. ASSUME NEW k \in 1..sent[u] PROVE Latest(k) \in Piece
      <4>1. k \in 1..Limit
        BY <1>1, <1>2
      <4>2. CASE blocks[k] # Absent
        <5>1. blocks[k] \in Uploads
          BY <1>1, <4>1, <4>2 DEF TypeOK
        <5>2. QED
          BY <4>1, <4>2, <5>1 DEF Latest, Piece
      <4>3. CASE blocks[k] = Absent
        <5>1. Committed(k)
          BY <2>4, <4>3 DEF Found
        <5>2. object[k] \in Piece
          BY <2>1, <5>1 DEF Committed, Typed
        <5>3. QED
          BY <4>3, <5>2 DEF Latest
      <4>4. QED
        BY <4>2, <4>3
    <3>3. QED
      BY <2>4, <3>1, <3>2 DEF Typed
  <2>5. QED
    BY <2>1, <2>2, <2>3, <2>4, Objects
<1>7. pending' \subseteq Uploads \cup {Old}
  BY <1>1, Locals DEF TypeOK
<1>8. QED
  BY <1>1, <1>2, <1>3, <1>4, <1>5, <1>6, <1>7, Locals DEF TInv, TypeOK, Typed, Answers

LEMMA DeleteTInv ==
    ASSUME TInv, Delete \/ UNCHANGED vars
    PROVE  TInv'
<1>1. UNCHANGED <<vendor, size, pending, blocks, pc, sent, rounds, result>>
  BY DEF Delete, vars
<1>2. object' = Absent \/ object' = object
  BY DEF Delete, vars
<1>3. \A u \in Uploads : Pieces(u)' = Pieces(u)
  BY <1>1 DEF Pieces
<1>4. QED
  BY <1>1, <1>2, <1>3 DEF TInv, TypeOK

-------------------------------------------------------------------------------
(* What a request has left behind, step by step. The last conjunct is the  *)
(* property; the fifth is why refusing leaves nothing: the upload's own    *)
(* abort is made in the first round, and refusing comes after it.          *)
Tidy(u) ==
    /\ pc[u] = "idle" => u \notin pending
    /\ AtPut(u)
    /\ pc[u] = "loop" => ~Small(u)
    /\ pc[u] = "info" /\ u \in pending => Small(u)
    /\ pc[u] = "abort" /\ rounds[u] < MaxIter => u \notin pending
    /\ pc[u] \notin {"abort", "done"} => rounds[u] = MaxIter
    /\ pc[u] = "done" /\ u \in pending
         => \/ result[u] \in {"ioFail", "runtime"}
            \/ Small(u) /\ result[u] \in {"ok", "getFail"}

PInv == TInv /\ \A u \in Uploads : Tidy(u)

LEMMA InitPInv == Init => PInv
<1> SUFFICES ASSUME Init PROVE PInv
  OBVIOUS
<1>1. \A u \in Uploads : u \notin pending
  BY SizesAssumption DEF Init
<1>2. QED
  BY <1>1, InitTInv DEF Init, PInv, Tidy, AtPut

(* The acting request keeps its own part.                                  *)
LEMMA OwnTidy ==
    ASSUME PInv, NEW u \in Uploads, Step(u)
    PROVE  Tidy(u)'
<1>1. TInv /\ TypeOK /\ Tidy(u) /\ MaxIter \in Nat /\ MaxIter > 0
  BY SizesAssumption DEF PInv, TInv
<1>2. Small(u)' = Small(u)
  BY <1>1, Frame DEF Own, Small
<1> USE <1>1, <1>2 DEF TInv, TypeOK, Tidy, AtPut, Goto, Answer
<1>3. CASE Begin(u)
  BY <1>3 DEF Begin
<1>4. CASE ReadFirst(u)
  BY <1>4 DEF ReadFirst
<1>5. CASE ReadFails(u)
  BY <1>5 DEF ReadFails
<1>6. CASE PutSmall(u)
  <2>1. CASE Goto(u, "info") /\ UNCHANGED <<pending, result>>
    BY <1>6, <2>1 DEF PutSmall
  <2>2. CASE Failed(u)
    BY <1>6, <2>2 DEF PutSmall, Failed, AbortAndFail
  <2>3. QED
    BY <1>6, <2>1, <2>2 DEF PutSmall
<1>7. CASE SendPart(u)
  BY <1>7 DEF SendPart
<1>8. CASE SendFails(u)
  BY <1>8 DEF SendFails, Failed, AbortAndFail
<1>9. CASE Complete(u)
  BY <1>9 DEF Complete, LoopLeft, AbortAndFail
<1>10. CASE CommitBlockList(u)
  BY <1>10 DEF CommitBlockList, LoopLeft
<1>11. CASE WriteChannel(u)
  BY <1>11 DEF WriteChannel, LoopLeft
<1>12. CASE GiveUp(u)
  BY <1>12 DEF GiveUp
<1>13. CASE AbortRound(u)
  BY <1>13 DEF AbortRound, AbortAndFail
<1>14. CASE Refuse(u)
  BY <1>14 DEF Refuse
<1>15. CASE Info(u)
  BY <1>15 DEF Info
<1>16. QED
  BY <1>3, <1>4, <1>5, <1>6, <1>7, <1>8, <1>9, <1>10, <1>11, <1>12, <1>13, <1>14, <1>15
     DEF Step

LEMMA PInvariance == PInv /\ [Next]_vars => PInv'
<1> SUFFICES ASSUME PInv, [Next]_vars PROVE PInv'
  OBVIOUS
<1>1. TInv /\ \A u \in Uploads : Tidy(u)
  BY DEF PInv
<1>2. CASE Delete \/ UNCHANGED vars
  <2>1. UNCHANGED <<vendor, size, pending, pc, rounds, result>>
    BY <1>2 DEF Delete, vars
  <2>2. \A u \in Uploads : Tidy(u)'
    BY <1>1, <2>1 DEF Tidy, AtPut, Small
  <2>3. QED
    BY <1>1, <1>2, <2>2, DeleteTInv DEF PInv
<1>3. ASSUME NEW u \in Uploads, Step(u) PROVE PInv'
  <2>1. ASSUME NEW v \in Uploads, v # u PROVE Tidy(v)'
    <3>1. /\ size' = size /\ (v \in pending' <=> v \in pending)
          /\ UNCHANGED <<pc[v], rounds[v], result[v]>>
      BY <1>1, <1>3, <2>1, Frame DEF Own
    <3>2. QED
      BY <1>1, <3>1 DEF Tidy, AtPut, Small
  <2>2. TInv'
    BY <1>1, <1>3, StepTInv DEF Tidy
  <2>3. QED
    BY <1>3, <2>1, <2>2, OwnTidy DEF PInv
<1>4. QED
  BY <1>2, <1>3 DEF Next

LEMMA PInvAlways == Spec => []PInv
  BY InitPInv, PInvariance, PTL DEF Spec

(* Types; no request sends more parts than its file has, and what is sent  *)
(* stays one part short of the limit.                                      *)
THEOREM TypeCorrect == Spec => []TypeOK
<1>1. PInv => TypeOK
  BY DEF PInv, TInv
<1>2. QED
  BY <1>1, PInvAlways, PTL

(* S3: a multipart upload is left behind only when reading failed or the   *)
(* abort threw, and, with no part in it, by every small file.              *)
THEOREM NothingElseLeft == Spec => []LeftPending
<1>1. PInv => LeftPending
  BY DEF PInv, Tidy, LeftPending
<1>2. QED
  BY <1>1, PInvAlways, PTL

(* S3: what the store has accepted is the request's whole file, and not    *)
(* one that should have been refused, whatever the others do.              *)
THEOREM AcceptedFilesAreStored == Spec => AcceptedIsStored
<1> DEFINE Stores == \A u \in Uploads :
                        vendor = "S3" /\ pc[u] # "info" /\ pc'[u] = "info"
                          => object' = Whole(u) /\ ~TooLarge(u)
<1>1. ASSUME PInv, [Next]_vars PROVE [Stores]_vars
  <2>1. SUFFICES ASSUME NEW v \in Uploads, NEW u \in Uploads, Step(v), vendor = "S3",
                        pc[u] # "info", pc'[u] = "info"
                 PROVE  object' = Whole(u) /\ ~TooLarge(u)
    BY <1>1 DEF Next, Delete
  <2>2. TInv /\ TypeOK /\ Tidy(u)
    BY <1>1 DEF PInv, TInv
  <2>3. v = u
    BY <2>1, <2>2, Frame DEF Own
  <2>4. size[u] \in Nat /\ sent[u] \in 0..(Limit - 1) /\ sent[u] <= Pieces(u)
    BY <2>2, SizesAssumption DEF TypeOK
  <2>5. CASE PutSmall(u)
    <3>1. object' = Whole(u)
      BY <2>1, <2>2, <2>5 DEF PutSmall, Stored, Failed, AbortAndFail, Answer, Goto, TypeOK
    <3>2. Small(u)
      BY <2>2, <2>5 DEF PutSmall, Tidy, AtPut
    <3>3. QED
      BY <2>4, <3>1, <3>2, SmallProp
  <2>6. CASE Complete(u)
    <3>1. object' = Prefix(u, sent[u]) /\ sent[u] > 0 /\ ~More(u)
      BY <2>1, <2>2, <2>6
         DEF Complete, Stored, LoopLeft, AbortAndFail, Answer, Goto, TypeOK
    <3>2. QED
      BY <2>4, <3>1, LastPartSent DEF Whole
  <2>7. PutSmall(u) \/ Complete(u)
    <3>1. pc \in [Uploads -> {"idle", "first", "put", "loop", "abort", "info", "done"}]
      BY <2>2 DEF TypeOK
    <3>2. ~Begin(u) /\ ~ReadFirst(u) /\ ~ReadFails(u)
      BY <2>1, <3>1 DEF Begin, ReadFirst, ReadFails, Goto, Answer
    <3>3. ~SendPart(u) /\ ~SendFails(u) /\ ~CommitBlockList(u) /\ ~WriteChannel(u)
      BY <2>1, <3>1
         DEF SendPart, SendFails, CommitBlockList, WriteChannel, LoopLeft, Failed,
             AbortAndFail, Answer, Goto
    <3>4. ~GiveUp(u) /\ ~AbortRound(u) /\ ~Refuse(u) /\ ~Info(u)
      BY <2>1, <3>1 DEF GiveUp, AbortRound, Refuse, Info, AbortAndFail, Answer, Goto
    <3>5. QED
      BY <2>1, <2>3, <3>2, <3>3, <3>4 DEF Step
  <2>8. QED
    BY <2>5, <2>6, <2>7
<1>2. QED
  BY <1>1, PInvAlways, PTL DEF Spec, AcceptedIsStored, Stores

-------------------------------------------------------------------------------
(* The object is whole. Where it is not, two requests have sent blocks;    *)
(* so every block, and every piece of the object that is not a small file, *)
(* must be of a request that has sent one, and with its number.            *)

Sending == {u \in Uploads : sent[u] > 0}

Numbered == \A k \in 1..Limit : blocks[k] # Absent => sent[blocks[k]] >= k

Sent == object # Absent =>
            \A k \in DOMAIN object :
                /\ object[k].no = k
                /\ Small(object[k].by) \/ sent[object[k].by] > 0

WInv ==
    /\ PInv
    /\ IsFiniteSet(Sending)
    /\ Numbered
    /\ Sent
    /\ ObjectIsWhole

LEMMA InitWInv == Init => WInv
<1> SUFFICES ASSUME Init PROVE WInv
  OBVIOUS
<1>1. Sending = {}
  BY DEF Init, Sending
<1>2. IsFiniteSet(Sending)
  BY <1>1, FS_EmptySet
<1>3. Numbered /\ Sent /\ ObjectIsWhole
  BY DEF Init, Numbered, Sent, ObjectIsWhole
<1>4. QED
  BY <1>2, <1>3, InitPInv DEF WInv

(* Two requests that have sent a block make the exception of ObjectIsWhole. *)
LEMMA TwoSending ==
    ASSUME IsFiniteSet(Sending), NEW u \in Sending, NEW v \in Sending, u # v
    PROVE  Cardinality(Sending) > 1
<1>1. IsFiniteSet({u}) /\ Cardinality({u}) = 1
  BY FS_Singleton
<1>2. {u} \subseteq Sending /\ {u} # Sending
  OBVIOUS
<1>3. Cardinality({u}) <= Cardinality(Sending) /\ Cardinality({u}) # Cardinality(Sending)
  BY <1>2, FS_Subset
<1>4. Cardinality(Sending) \in Nat
  BY FS_CardinalityType
<1>5. QED
  BY <1>1, <1>3, <1>4

(* What is sent only grows, by a request at a time.                        *)
LEMMA SendingGrows ==
    ASSUME TInv, IsFiniteSet(Sending), NEW u \in Uploads, Step(u)
    PROVE  /\ \A v \in Uploads : sent[v] \in Nat /\ sent'[v] \in Nat /\ sent'[v] >= sent[v]
           /\ IsFiniteSet(Sending')
           /\ Cardinality(Sending) > 1 => Cardinality(Sending') > 1
<1>1. sent \in [Uploads -> 0..(Limit - 1)] /\ Limit \in Nat
  BY SizesAssumption DEF TInv, TypeOK
<1>2. CASE sent' = sent
  BY <1>1, <1>2 DEF Sending
<1>3. CASE SendPart(u)
  <2>1. \A v \in Uploads : sent[v] \in Nat /\ sent'[v] = IF v = u THEN sent[u] + 1 ELSE sent[v]
    BY <1>1, <1>3 DEF SendPart
  <2>2. Sending' = Sending \cup {u}
    BY <2>1 DEF Sending
  <2>3. IsFiniteSet(Sending')
    BY <2>2, FS_AddElement
  <2>4. Cardinality(Sending) <= Cardinality(Sending')
    BY <2>2, <2>3, FS_Subset
  <2>5. Cardinality(Sending) \in Nat /\ Cardinality(Sending') \in Nat
    BY <2>3, FS_CardinalityType
  <2>6. QED
    BY <2>1, <2>3, <2>4, <2>5
<1>4. QED
  BY <1>2, <1>3, Locals

LEMMA StepNumbered ==
    ASSUME WInv, NEW u \in Uploads, Step(u)
    PROVE  Numbered'
<1>1. TInv /\ IsFiniteSet(Sending) /\ Numbered /\ Limit \in Nat
  BY SizesAssumption DEF WInv, PInv
<1>2. /\ blocks \in [1..Limit -> Uploads \cup {Absent}]
      /\ sent \in [Uploads -> 0..(Limit - 1)]
  BY <1>1 DEF TInv, TypeOK
<1>3. \A v \in Uploads : sent[v] \in Nat /\ sent'[v] \in Nat /\ sent'[v] >= sent[v]
  BY <1>1, SendingGrows
<1>4. CASE blocks' = blocks
  <2>1. ASSUME NEW k \in 1..Limit, blocks[k] # Absent PROVE sent'[blocks[k]] >= k
    <3>1. blocks[k] \in Uploads /\ sent[blocks[k]] >= k
      BY <1>1, <1>2, <2>1 DEF Numbered
    <3>2. QED
      BY <1>3, <3>1
  <2>2. QED
    BY <1>4, <2>1 DEF Numbered
<1>5. CASE blocks' = [k \in DOMAIN blocks |-> Absent]
  BY <1>2, <1>5 DEF Numbered
<1>6. CASE SendPart(u)
  <2>1. ASSUME NEW k \in 1..Limit, blocks'[k] # Absent PROVE sent'[blocks'[k]] >= k
    <3>1. CASE blocks'[k] = u /\ k = sent[u] + 1
      BY <1>2, <1>6, <3>1 DEF SendPart
    <3>2. CASE blocks'[k] = blocks[k]
      <4>1. blocks[k] \in Uploads /\ sent[blocks[k]] >= k
        BY <1>1, <1>2, <2>1, <3>2 DEF Numbered
      <4>2. QED
        BY <1>3, <3>2, <4>1
    <3>3. QED
      BY <1>2, <1>6, <3>1, <3>2 DEF SendPart
  <2>2. QED
    BY <2>1 DEF Numbered
<1>7. QED
  BY <1>1, <1>4, <1>5, <1>6, Locals

(* A block that a list finds is of a request that has sent one.            *)
LEMMA LatestIsSent ==
    ASSUME WInv, NEW k \in 1..Limit, Found(k)
    PROVE  Latest(k) \in Piece /\ Latest(k).no = k /\ Latest(k).by \in Sending
<1>1. TypeOK /\ Numbered /\ Sent /\ Limit \in Nat
  BY SizesAssumption DEF WInv, PInv, TInv
<1>2. sent \in [Uploads -> 0..(Limit - 1)]
  BY <1>1 DEF TypeOK
<1>3. CASE blocks[k] # Absent
  <2>1. blocks[k] \in Uploads /\ sent[blocks[k]] >= k
    BY <1>1, <1>3 DEF TypeOK, Numbered
  <2>2. Latest(k) = [by |-> blocks[k], no |-> k]
    BY <1>3 DEF Latest
  <2>3. QED
    BY <1>2, <2>1, <2>2 DEF Piece, Sending
<1>4. CASE blocks[k] = Absent
  <2>1. Committed(k)
    BY <1>4 DEF Found
  <2>2. object # Absent /\ k \in DOMAIN object /\ ~Small(object[k].by)
    BY <2>1 DEF Committed
  <2>3. object[k] \in Piece
    BY <1>1, <2>2 DEF TypeOK
  <2>4. object[k].no = k /\ sent[object[k].by] > 0
    BY <1>1, <2>2 DEF Sent
  <2>5. Latest(k) = object[k]
    BY <1>4 DEF Latest
  <2>6. QED
    BY <2>3, <2>4, <2>5 DEF Piece, Sending
<1>5. QED
  BY <1>3, <1>4

LEMMA StepSent ==
    ASSUME WInv, NEW u \in Uploads, Step(u)
    PROVE  Sent'
<1>1. PInv /\ TInv /\ TypeOK /\ IsFiniteSet(Sending) /\ Sent /\ Tidy(u) /\ Limit \in Nat
  BY SizesAssumption DEF WInv, PInv, TInv
<1>2. /\ size' = size /\ size[u] \in Nat
      /\ sent[u] \in 0..(Limit - 1)
      /\ \A v \in Uploads : sent[v] \in Nat /\ sent'[v] \in Nat /\ sent'[v] >= sent[v]
  BY <1>1, SizesAssumption, SendingGrows, Frame DEF Own, TypeOK
<1>3. CASE object' = object
  <2>1. ASSUME NEW k \in DOMAIN object, object # Absent
        PROVE  object[k].by \in Uploads
    BY <1>1, <2>1 DEF TypeOK, Piece
  <2>2. ASSUME NEW k \in DOMAIN object, object # Absent
        PROVE  object[k].no = k /\ (Small(object[k].by)' \/ sent'[object[k].by] > 0)
    <3>1. object[k].no = k /\ (Small(object[k].by) \/ sent[object[k].by] > 0)
      BY <1>1, <2>2 DEF Sent
    <3>2. object[k].by \in Uploads
      BY <2>1, <2>2
    <3>3. QED
      BY <1>2, <1>3, <3>1, <3>2 DEF Small
  <2>3. QED
    BY <1>3, <2>2 DEF Sent, Small
<1>4. CASE PutSmall(u) /\ object' = Whole(u)
  <2>1. Small(u)
    BY <1>1, <1>4 DEF PutSmall, Tidy, AtPut
  <2>2. QED
    BY <1>2, <1>4, <2>1 DEF Sent, Small, Whole, Prefix
<1>5. CASE sent[u] > 0 /\ object' = Prefix(u, sent[u])
  BY <1>2, <1>5 DEF Sent, Prefix
<1>6. CASE (\A k \in 1..sent[u] : Found(k)) /\ object' = [k \in 1..sent[u] |-> Latest(k)]
  <2>1. ASSUME NEW k \in 1..sent[u]
        PROVE  Latest(k).no = k /\ sent'[Latest(k).by] > 0
    <3>1. k \in 1..Limit /\ Found(k)
      BY <1>1, <1>2, <1>6
    <3>2. Latest(k).no = k /\ Latest(k).by \in Sending
      BY <3>1, LatestIsSent
    <3>3. QED
      BY <1>2, <3>2 DEF Sending
  <2>2. QED
    BY <1>6, <2>1 DEF Sent
<1>7. QED
  BY <1>3, <1>4, <1>5, <1>6, Objects

(* A list that finds its blocks holds the whole file, or blocks of others. *)
LEMMA CommitIsWhole ==
    ASSUME WInv, NEW u \in Uploads, pc[u] = "loop", vendor = "ABS",
           ~More(u) \/ OverSize(u), \A k \in 1..sent[u] : Found(k)
    PROVE  \/ [k \in 1..sent[u] |-> Latest(k)] = Whole(u)
           \/ size[u] = Part \/ TooLarge(u)
           \/ Cardinality(Sending) > 1
<1>1. TypeOK /\ IsFiniteSet(Sending) /\ Tidy(u) /\ Limit \in Nat /\ Part \in Nat
  BY SizesAssumption DEF WInv, PInv, TInv
<1>2. size[u] \in Nat /\ sent[u] \in 0..(Limit - 1) /\ sent[u] \in Nat /\ sent[u] <= Pieces(u)
  BY <1>1, SizesAssumption DEF TypeOK
<1>3. SUFFICES ASSUME size[u] # Part, ~TooLarge(u), ~(Cardinality(Sending) > 1)
               PROVE  [k \in 1..sent[u] |-> Latest(k)] = Whole(u)
  OBVIOUS
<1>4. ~More(u)
  BY <1>2, <1>3, PartsSent
<1>5. sent[u] > 0
  <2>1. ~(size[u] < Part)
    BY <1>1 DEF Tidy, Small
  <2>2. ~(size[u] <= Part)
    BY <1>1, <1>2, <1>3, <2>1
  <2>3. QED
    BY <1>2, <1>4, <2>2, PartsSent
<1>6. sent[u] = Pieces(u)
  BY <1>2, <1>4, <1>5, LastPartSent
<1>7. ASSUME NEW k \in 1..sent[u] PROVE Latest(k) = [by |-> u, no |-> k]
  <2>1. k \in 1..Limit
    BY <1>1, <1>2
  <2>2. Latest(k) \in Piece /\ Latest(k).no = k /\ Latest(k).by \in Sending
    BY <2>1, LatestIsSent
  <2>3. u \in Sending
    BY <1>5 DEF Sending
  <2>4. Latest(k).by = u
    BY <1>1, <1>3, <2>2, <2>3, TwoSending
  <2>5. QED
    BY <2>2, <2>4 DEF Piece
<1>8. QED
  BY <1>6, <1>7 DEF Whole, Prefix

LEMMA StepWhole ==
    ASSUME WInv, NEW u \in Uploads, Step(u)
    PROVE  ObjectIsWhole'
<1>1. TInv /\ TypeOK /\ IsFiniteSet(Sending) /\ ObjectIsWhole /\ Tidy(u) /\ Limit \in Nat
  BY SizesAssumption DEF WInv, PInv, TInv
<1>2. /\ UNCHANGED <<size, vendor>>
      /\ pc'[u] # "idle"
      /\ \A v \in Uploads : v # u => pc'[v] = pc[v]
  BY <1>1, Frame, Locals DEF Own
<1>3. \A v \in Uploads : Whole(v)' = Whole(v) /\ (TooLarge(v)' <=> TooLarge(v))
  BY <1>2 DEF Whole, Prefix, Pieces, TooLarge
<1>4. Cardinality(Sending) > 1 => Cardinality(Sending') > 1
  BY <1>1, SendingGrows
<1>5. size[u] \in Nat /\ sent[u] \in 0..(Limit - 1) /\ sent[u] <= Pieces(u)
  BY <1>1, SizesAssumption DEF TypeOK
<1> DEFINE Excused == /\ vendor = "ABS"
                      /\ \/ \E v \in Uploads : pc[v] # "idle" /\ (size[v] = Part \/ TooLarge(v))
                         \/ Cardinality(Sending) > 1
<1>6. ObjectIsWhole' <=> (object' = Absent \/ (\E v \in Uploads : object' = Whole(v)) \/ Excused')
  BY <1>3 DEF ObjectIsWhole, Sending
<1>7. Excused => Excused'
  BY <1>2, <1>3, <1>4
<1>8. CASE object' = object
  <2>1. object = Absent \/ (\E v \in Uploads : object = Whole(v)) \/ Excused
    BY <1>1 DEF ObjectIsWhole, Sending
  <2>2. QED
    BY <1>6, <1>7, <1>8, <2>1
<1>9. CASE object' = Whole(u)
  BY <1>6, <1>9
<1>10. CASE Complete(u) /\ ~More(u) /\ sent[u] > 0 /\ object' = Prefix(u, sent[u])
  <2>1. sent[u] = Pieces(u)
    BY <1>5, <1>10, LastPartSent
  <2>2. QED
    BY <1>6, <1>10, <2>1 DEF Whole
<1>11. CASE /\ CommitBlockList(u) /\ vendor = "ABS" /\ (~More(u) \/ OverSize(u))
            /\ \A k \in 1..sent[u] : Found(k)
            /\ object' = [k \in 1..sent[u] |-> Latest(k)]
  <2>1. pc[u] = "loop"
    BY <1>11 DEF CommitBlockList, LoopLeft
  <2>2. object' = Whole(u) \/ Excused
    BY <1>11, <2>1, CommitIsWhole
  <2>3. QED
    BY <1>6, <1>7, <2>2
<1>12. QED
  BY <1>8, <1>9, <1>10, <1>11, Objects

LEMMA WInvariance == WInv /\ [Next]_vars => WInv'
<1> SUFFICES ASSUME WInv, [Next]_vars PROVE WInv'
  OBVIOUS
<1>1. PInv /\ PInv' /\ TInv
  BY PInvariance DEF WInv, PInv
<1>2. CASE Delete \/ UNCHANGED vars
  <2>1. UNCHANGED <<vendor, size, blocks, pc, sent>> /\ (object' = Absent \/ object' = object)
    BY <1>2 DEF Delete, vars
  <2>2. Numbered' /\ IsFiniteSet(Sending')
    BY <2>1 DEF WInv, Numbered, Sending
  <2>3. Sent'
    BY <2>1 DEF WInv, Sent, Small
  <2>4. ObjectIsWhole'
    BY <2>1 DEF WInv, ObjectIsWhole, Whole, Prefix, Pieces, TooLarge
  <2>5. QED
    BY <1>1, <2>2, <2>3, <2>4 DEF WInv
<1>3. ASSUME NEW u \in Uploads, Step(u) PROVE WInv'
  <2>1. Numbered' /\ Sent' /\ ObjectIsWhole'
    BY <1>3, StepNumbered, StepSent, StepWhole
  <2>2. IsFiniteSet(Sending')
    BY <1>1, <1>3, SendingGrows DEF WInv
  <2>3. QED
    BY <1>1, <2>1, <2>2 DEF WInv
<1>4. QED
  BY <1>2, <1>3 DEF Next

(* Whoever writes the key, and whichever call fails, the object is one     *)
(* request's whole file, except in Azure's three cases.                    *)
THEOREM ObjectsAreWhole == Spec => []ObjectIsWhole
<1>1. WInv => ObjectIsWhole
  BY DEF WInv
<1>2. QED
  BY <1>1, InitWInv, WInvariance, PTL DEF Spec
===============================================================================
