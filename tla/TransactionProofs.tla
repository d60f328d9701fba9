--------------------------- MODULE TransactionProofs ---------------------------
(***************************************************************************)
(* What TLAPS proves about Transaction, for any number of requests and     *)
(* connections, any depth of nesting and any number of writes.             *)
(***************************************************************************)
EXTENDS Transaction, SequenceTheorems, TLAPS

-------------------------------------------------------------------------------
(* The invariant. *)

(* The frame at which the transaction of r began.                          *)
Start(r) == Len(stack[r]) - layer[r] + 1

(* In a transaction only the frame that began it has a connection, the one *)
(* in field; outside none has.                                             *)
Frames(r) ==
    /\ Len(stack[r]) <= MaxDepth
    /\ layer[r] <= Len(stack[r])
    /\ layer[r] >= 1 =>
        /\ field[r] \in Conns
        /\ stack[r][Start(r)].con = field[r]
        /\ stack[r][Start(r)].type = work[r].type
        /\ \A i \in 1..Len(stack[r]) : i # Start(r) => stack[r][i].con = NoCon
    /\ layer[r] <= 0 => \A i \in 1..Len(stack[r]) : stack[r][i].con = NoCon

Phase(r) ==
    /\ flow[r] = "idle" => stack[r] = <<>>
    /\ flow[r] = "connect" => layer[r] = 0 /\ Len(stack[r]) < MaxDepth

(* In a transaction the connection is set up for it and holds all that was *)
(* written, unless it is broken; outside, a connection that is left in     *)
(* field is a broken one.                                                  *)
Holds(r) ==
    /\ layer[r] >= 1 =>
        /\ mode[field[r]] = ModeOf(work[r].type)
        /\ work[r].type = "REQUIRED" =>
            /\ work[r].kept = 0
            /\ field[r] \notin broken => pending[field[r]] = work[r].done
    /\ layer[r] <= 0 =>
        /\ field[r] \in broken \cup {NoCon}
        /\ work[r].type = "REQUIRED" =>
            /\ work[r].kept \in {0, work[r].done}
            /\ work[r].ended \in {"returned", "excepted"} => work[r].kept = work[r].done
            /\ work[r].ended = "threw" => work[r].kept = 0

Local(r) == Frames(r) /\ Phase(r) /\ Holds(r)

(* No connection is in field of two requests, or there and in the pool,    *)
(* and only a broken one in neither.                                       *)
Pool ==
    /\ \A r \in Requests : field[r] \notin free
    /\ \A r, q \in Requests : field[r] = field[q] /\ field[r] # NoCon => r = q
    /\ \A c \in free \cup broken : pending[c] = 0
    /\ \A c \in Conns \ (free \cup broken) :
           \E r \in Requests : layer[r] >= 1 /\ field[r] = c

IInv ==
    /\ TypeOK
    /\ \A r \in Requests : Local(r)
    /\ Pool

-------------------------------------------------------------------------------
(* Stacks. *)

LEMMA PushProp ==
    ASSUME NEW s \in Seq(Frame), NEW f \in Frame
    PROVE  /\ Append(s, f) \in Seq(Frame)
           /\ Len(s) \in Nat
           /\ Len(Append(s, f)) = Len(s) + 1
           /\ Append(s, f)[Len(s) + 1] = f
           /\ \A i \in 1..Len(s) : Append(s, f)[i] = s[i]
<1>1. QED
  OBVIOUS

LEMMA PopProp ==
    ASSUME NEW s \in Seq(Frame), s # <<>>
    PROVE  /\ SubSeq(s, 1, Len(s) - 1) \in Seq(Frame)
           /\ Len(s) \in Nat \ {0}
           /\ Len(SubSeq(s, 1, Len(s) - 1)) = Len(s) - 1
           /\ \A i \in 1..(Len(s) - 1) : SubSeq(s, 1, Len(s) - 1)[i] = s[i]
<1>1. Len(s) \in Nat \ {0}
  BY EmptySeq
<1>2. \A i \in 1..(Len(s) - 1) : s[i] \in Frame
  BY <1>1, ElementOfSeq
<1>3. /\ SubSeq(s, 1, Len(s) - 1) \in Seq(Frame)
      /\ Len(SubSeq(s, 1, Len(s) - 1))
            = IF 1 <= Len(s) - 1 THEN (Len(s) - 1) - 1 + 1 ELSE 0
      /\ \A i \in 1..((Len(s) - 1) - 1 + 1) : SubSeq(s, 1, Len(s) - 1)[i] = s[1 + i - 1]
  <2>1. 1 \in Int /\ Len(s) - 1 \in Int
    BY <1>1
  <2>2. QED
    BY <1>2, <2>1, SubSeqProperties
<1> DEFINE t == SubSeq(s, 1, Len(s) - 1)
           n == Len(s)
<1>4. Len(t) = IF 1 <= n - 1 THEN (n - 1) - 1 + 1 ELSE 0
  BY <1>3
<1>5. \A i \in 1..((n - 1) - 1 + 1) : t[i] = s[1 + i - 1]
  BY <1>3
<1>6. n \in Nat \ {0} /\ t \in Seq(Frame)
  BY <1>1, <1>3
<1> HIDE DEF t, n
<1>7. Len(t) = n - 1 /\ \A i \in 1..(n - 1) : t[i] = s[i]
  BY <1>4, <1>5, <1>6
<1>8. QED
  BY <1>6, <1>7 DEF t, n

(* A method that is not REQUIRED runs with autoCommit.                     *)
LEMMA AutoMode ==
    ASSUME NEW t, NEW m, m = ModeOf(t)
    PROVE  m.auto <=> t # "REQUIRED"
<1>1. ModeOf(t).auto = (t # "REQUIRED")
  BY DEF ModeOf
<1>2. QED
  BY <1>1, Zenon

-------------------------------------------------------------------------------
(* The initial states. *)
LEMMA InitIInv == Init => IInv
<1> SUFFICES ASSUME Init PROVE IInv
  OBVIOUS
<1>1. TypeOK
  BY DEF Init, TypeOK, NoWork, TxTypes, Ends, ModeOf
<1>2. ASSUME NEW r \in Requests PROVE Local(r)
  BY TransactionAssumption DEF Init, Local, Frames, Phase, Holds, NoWork
<1>3. Pool
  BY TransactionAssumption DEF Init, Pool
<1>4. QED
  BY <1>1, <1>2, <1>3 DEF IInv

-------------------------------------------------------------------------------
(* What a step of r leaves alone: the other requests, and the connections  *)
(* in their fields.                                                        *)
Others(r) ==
    \A q \in Requests \ {r} :
        /\ UNCHANGED <<flow[q], stack[q], layer[q], field[q], work[q]>>
        /\ field[q] # NoCon =>
            /\ UNCHANGED <<mode[field[q]], pending[field[q]]>>
            /\ field[q] \in broken' <=> field[q] \in broken

LEMMA OthersKeep ==
    ASSUME IInv, NEW r \in Requests, Others(r), NEW q \in Requests, q # r
    PROVE  Local(q)'
<1>1. /\ UNCHANGED <<flow[q], stack[q], layer[q], field[q], work[q]>>
      /\ field[q] # NoCon =>
            /\ UNCHANGED <<mode[field[q]], pending[field[q]]>>
            /\ field[q] \in broken' <=> field[q] \in broken
  BY DEF Others
<1>2. Local(q) /\ layer[q] \in Int
  BY DEF IInv, TypeOK
<1>3. Frames(q)' /\ Phase(q)'
  BY <1>1, <1>2 DEF Local, Frames, Phase, Start
<1>4. layer[q] >= 1 => field[q] # NoCon
  BY <1>2, TransactionAssumption DEF Local, Frames
<1>5. Holds(q)'
  BY <1>1, <1>2, <1>4 DEF Local, Holds
<1>6. QED
  BY <1>3, <1>5 DEF Local

(* So a step of r is checked at r and the pool alone.                      *)
LEMMA StepOf ==
    ASSUME IInv, NEW r \in Requests, Others(r), TypeOK', Local(r)', Pool'
    PROVE  IInv'
<1>1. QED
  BY OthersKeep DEF IInv

-------------------------------------------------------------------------------
(* One lemma for each action. *)
LEMMA RequestSteps ==
    ASSUME IInv, NEW r \in Requests, BeginRequest(r) \/ EndRequest(r)
    PROVE  IInv'
<1>1. CASE BeginRequest(r)
  <2>1. TypeOK'
    BY <1>1 DEF BeginRequest, IInv, TypeOK, NoWork, TxTypes, Ends
  <2>2. Others(r)
    BY <1>1 DEF BeginRequest, Others, IInv, TypeOK
  <2>3. stack[r] = <<>> /\ stack'[r] = <<>> /\ layer'[r] = 0 /\ field'[r] = NoCon
        /\ work'[r] = NoWork /\ flow'[r] = "app"
    BY <1>1 DEF BeginRequest, IInv, TypeOK, Local, Phase
  <2>4. Local(r)'
    BY <2>3, TransactionAssumption DEF Local, Frames, Phase, Holds, NoWork
  <2>5. layer[r] <= 0
    <3>1. Len(stack[r]) = 0 /\ layer[r] <= Len(stack[r])
      BY <2>3 DEF IInv, Local, Frames
    <3>2. QED
      BY <3>1
  <2>6. Pool'
    <3>1. ASSUME NEW c \in Conns \ (free \cup broken)
          PROVE  \E q \in Requests : layer'[q] >= 1 /\ field'[q] = c
      <4>1. PICK q \in Requests : layer[q] >= 1 /\ field[q] = c
        BY DEF IInv, Pool
      <4>2. q # r /\ layer[q] \in Int
        BY <2>5, <4>1 DEF IInv, TypeOK
      <4>3. QED
        BY <2>2, <4>1, <4>2 DEF Others
    <3>2. /\ \A q \in Requests : field'[q] = field[q] \/ field'[q] = NoCon
          /\ UNCHANGED <<free, broken, pending>>
      BY <1>1 DEF BeginRequest, IInv, TypeOK
    <3>3. NoCon \notin free
      BY TransactionAssumption DEF IInv, TypeOK
    <3>4. QED
      BY <3>1, <3>2, <3>3 DEF IInv, Pool
  <2>7. QED
    BY <2>1, <2>2, <2>4, <2>6, StepOf
<1>2. CASE EndRequest(r)
  <2>1. TypeOK'
    BY <1>2 DEF EndRequest, IInv, TypeOK
  <2>2. Others(r)
    BY <1>2 DEF EndRequest, Others, IInv, TypeOK
  <2>3. Local(r)'
    BY <1>2 DEF EndRequest, IInv, TypeOK, Local, Frames, Phase, Holds, Start
  <2>4. Pool'
    BY <1>2 DEF EndRequest, IInv, Pool
  <2>5. QED
    BY <2>1, <2>2, <2>3, <2>4, StepOf
<1>3. QED
  BY <1>1, <1>2

LEMMA BreakStep ==
    ASSUME IInv, NEW c \in Conns, Break(c)
    PROVE  IInv'
<1>1. TypeOK'
  BY DEF Break, IInv, TypeOK
<1>2. /\ UNCHANGED <<flow, stack, layer, field, free, mode, work>>
      /\ broken' = broken \cup {c}
      /\ \A d \in Conns : pending'[d] = IF d = c THEN 0 ELSE pending[d]
  BY DEF Break, IInv, TypeOK
<1>3. ASSUME NEW r \in Requests PROVE Local(r)'
  <2>1. Local(r)
    BY DEF IInv
  <2>2. Frames(r)' /\ Phase(r)'
    BY <1>2, <2>1 DEF Local, Frames, Phase, Start
  <2>3. field[r] \in Conns \cup {NoCon}
    BY DEF IInv, TypeOK
  <2>4. layer[r] >= 1 => field[r] \in Conns
    BY <2>1 DEF Local, Frames
  <2>5. Holds(r)'
    BY <1>2, <2>1, <2>4 DEF Local, Holds
  <2>6. QED
    BY <2>2, <2>5 DEF Local
<1>4. Pool'
  BY <1>2 DEF IInv, TypeOK, Pool
<1>5. QED
  BY <1>1, <1>3, <1>4 DEF IInv

LEMMA CallSteps ==
    ASSUME IInv, NEW r \in Requests, Call(r) \/ NoConnection(r)
    PROVE  IInv'
<1>1. /\ UNCHANGED <<stack, layer, field, free, broken, mode, pending, work>>
      /\ flow' = [flow EXCEPT ![r] = flow'[r]]
      /\ flow'[r] \in {"app", "connect"}
      /\ flow'[r] = "connect" => layer[r] = 0 /\ Len(stack[r]) < MaxDepth
  BY DEF Call, NoConnection, IInv, TypeOK
<1>2. TypeOK'
  BY <1>1 DEF IInv, TypeOK
<1>3. Others(r)
  BY <1>1 DEF Others, IInv, TypeOK
<1>4. Local(r)'
  BY <1>1 DEF IInv, Local, Frames, Phase, Holds, Start
<1>5. Pool'
  BY <1>1 DEF IInv, Pool
<1>6. QED
  BY <1>2, <1>3, <1>4, <1>5, StepOf

LEMMA ConnectStep ==
    ASSUME IInv, NEW r \in Requests, Connect(r)
    PROVE  IInv'
<1>1. PICK c \in free, type \in Types :
        /\ free' = free \ {c}
        /\ field' = [field EXCEPT ![r] = c]
        /\ mode' = [mode EXCEPT ![c] = ModeOf(type)]
        /\ stack' = [stack EXCEPT ![r] = Append(@, [type |-> type, con |-> c])]
        /\ work' = [work EXCEPT ![r] = [NoWork EXCEPT !.type = type]]
  BY DEF Connect, SetUp
<1>2. /\ flow[r] = "connect" /\ flow' = [flow EXCEPT ![r] = "app"]
      /\ layer' = [layer EXCEPT ![r] = @ + 1]
      /\ UNCHANGED <<broken, pending>>
  BY DEF Connect
<1>3. /\ layer[r] = 0 /\ Len(stack[r]) < MaxDepth
      /\ \A i \in 1..Len(stack[r]) : stack[r][i].con = NoCon
      /\ field[r] \in broken \cup {NoCon}
  BY <1>2 DEF IInv, Local, Frames, Phase, Holds
<1> DEFINE f == [type |-> type, con |-> c]
<1>4. c \in Conns /\ type \in TxTypes /\ stack[r] \in Seq(Frame) /\ f \in Frame
  BY TransactionAssumption DEF IInv, TypeOK, Frame
<1>5. /\ Append(stack[r], f) \in Seq(Frame)
      /\ Len(stack[r]) \in Nat
      /\ Len(Append(stack[r], f)) = Len(stack[r]) + 1
      /\ Append(stack[r], f)[Len(stack[r]) + 1] = f
      /\ \A i \in 1..Len(stack[r]) : Append(stack[r], f)[i] = stack[r][i]
  BY <1>4, PushProp
<1>6. /\ flow'[r] = "app" /\ layer'[r] = 1 /\ field'[r] = c
      /\ stack'[r] = Append(stack[r], f)
      /\ work'[r] = [NoWork EXCEPT !.type = type]
      /\ mode'[c] = ModeOf(type) /\ pending'[c] = 0
  BY <1>1, <1>2, <1>3, <1>4 DEF IInv, TypeOK, Pool
<1>7. TypeOK'
  <2>1. [NoWork EXCEPT !.type = type] \in
            [type : TxTypes, done : Nat, kept : Nat, ended : Ends]
    BY <1>4 DEF NoWork, Ends
  <2>2. ModeOf(type) \in [auto : BOOLEAN, ro : BOOLEAN]
    BY DEF ModeOf
  <2>3. stack' \in [Requests -> Seq(Frame)]
    BY <1>1, <1>5 DEF IInv, TypeOK
  <2>4. QED
    BY <1>1, <1>2, <1>4, <2>1, <2>2, <2>3 DEF IInv, TypeOK
<1>8. Others(r)
  <2>1. \A q \in Requests \ {r} : UNCHANGED <<flow[q], stack[q], layer[q], field[q], work[q]>>
    BY <1>1, <1>2 DEF IInv, TypeOK
  <2>2. \A q \in Requests : field[q] # c /\ field[q] \in Conns \cup {NoCon}
    BY DEF IInv, TypeOK, Pool
  <2>3. \A d \in Conns : d # c => mode'[d] = mode[d]
    BY <1>1 DEF IInv, TypeOK
  <2>4. QED
    BY <1>2, <2>1, <2>2, <2>3 DEF Others
<1>9. Local(r)'
  <2>1. Start(r)' = Len(stack[r]) + 1
    BY <1>5, <1>6 DEF Start
  <2>2. Frames(r)'
    <3>1. \A i \in 1..Len(stack'[r]) : i # Len(stack[r]) + 1 => stack'[r][i].con = NoCon
      BY <1>3, <1>5, <1>6
    <3>2. Len(stack'[r]) = Len(stack[r]) + 1 /\ stack'[r][Len(stack[r]) + 1] = f
      BY <1>5, <1>6
    <3>3. work'[r].type = type
      BY <1>6 DEF NoWork
    <3>4. QED
      BY <1>3, <1>4, <1>5, <1>6, <2>1, <3>1, <3>2, <3>3, TransactionAssumption DEF Frames
  <2>3. Phase(r)'
    BY <1>6 DEF Phase
  <2>4. Holds(r)'
    BY <1>6 DEF Holds, NoWork
  <2>5. QED
    BY <2>2, <2>3, <2>4 DEF Local
<1>10. Pool'
  <2>1. \A q \in Requests : field'[q] = IF q = r THEN c ELSE field[q]
    BY <1>1 DEF IInv, TypeOK
  <2>2. \A q \in Requests : field[q] \notin free
    BY DEF IInv, Pool
  <2>3. ASSUME NEW d \in Conns \ (free' \cup broken')
        PROVE  \E q \in Requests : layer'[q] >= 1 /\ field'[q] = d
    <3>1. CASE d = c
      BY <1>6, <3>1
    <3>2. CASE d # c
      <4>1. PICK q \in Requests : layer[q] >= 1 /\ field[q] = d
        BY <1>1, <1>2, <3>2 DEF IInv, Pool
      <4>2. q # r
        BY <1>3, <4>1
      <4>3. QED
        BY <1>8, <4>1, <4>2 DEF Others
    <3>3. QED
      BY <3>1, <3>2
  <2>4. QED
    BY <1>1, <1>2, <2>1, <2>2, <2>3 DEF IInv, Pool
<1>11. QED
  BY <1>7, <1>8, <1>9, <1>10, StepOf

LEMMA SetUpFailsStep ==
    ASSUME IInv, NEW r \in Requests, SetUpFails(r)
    PROVE  IInv'
<1>1. PICK c \in free \cap broken :
        /\ free' = free \ {c}
        /\ field' = [field EXCEPT ![r] = c]
  BY DEF SetUpFails
<1>2. /\ flow[r] = "connect" /\ flow' = [flow EXCEPT ![r] = "app"]
      /\ UNCHANGED <<stack, layer, broken, mode, pending, work>>
  BY DEF SetUpFails
<1>3. TypeOK'
  BY <1>1, <1>2 DEF IInv, TypeOK
<1>4. Others(r)
  BY <1>1, <1>2 DEF IInv, TypeOK, Others
<1>5. layer[r] = 0 /\ flow'[r] = "app" /\ field'[r] = c
  BY <1>1, <1>2 DEF IInv, TypeOK, Local, Phase
<1>6. Local(r)'
  BY <1>2, <1>5 DEF IInv, Local, Frames, Phase, Holds, Start
<1>7. Pool'
  <2>1. \A q \in Requests : field'[q] = IF q = r THEN c ELSE field[q]
    BY <1>1 DEF IInv, TypeOK
  <2>2. ASSUME NEW d \in Conns \ (free' \cup broken')
        PROVE  \E q \in Requests : layer'[q] >= 1 /\ field'[q] = d
    <3>1. d \in Conns \ (free \cup broken)
      BY <1>1, <1>2
    <3>2. PICK q \in Requests : layer[q] >= 1 /\ field[q] = d
      BY <3>1 DEF IInv, Pool
    <3>3. q # r
      BY <1>5, <3>2
    <3>4. QED
      BY <1>4, <3>2, <3>3 DEF Others
  <2>3. QED
    BY <1>1, <1>2, <2>1, <2>2 DEF IInv, Pool
<1>8. QED
  BY <1>3, <1>4, <1>6, <1>7, StepOf

LEMMA JoinStep ==
    ASSUME IInv, NEW r \in Requests, Join(r)
    PROVE  IInv'
<1>1. PICK type \in Types :
        stack' = [stack EXCEPT ![r] = Append(@, [type |-> type, con |-> NoCon])]
  BY DEF Join
<1>2. /\ flow[r] = "app" /\ layer[r] # 0 /\ Len(stack[r]) < MaxDepth
      /\ layer' = [layer EXCEPT ![r] = @ + 1]
      /\ UNCHANGED <<flow, field, free, broken, mode, pending, work>>
  BY DEF Join
<1> DEFINE f == [type |-> type, con |-> NoCon]
<1>3. stack[r] \in Seq(Frame) /\ f \in Frame /\ layer[r] \in Int
  BY TransactionAssumption DEF IInv, TypeOK, Frame
<1>4. /\ Append(stack[r], f) \in Seq(Frame)
      /\ Len(stack[r]) \in Nat
      /\ Len(Append(stack[r], f)) = Len(stack[r]) + 1
      /\ Append(stack[r], f)[Len(stack[r]) + 1] = f
      /\ \A i \in 1..Len(stack[r]) : Append(stack[r], f)[i] = stack[r][i]
  BY <1>3, PushProp
<1>5. stack'[r] = Append(stack[r], f) /\ layer'[r] = layer[r] + 1
  BY <1>1, <1>2 DEF IInv, TypeOK
<1>6. TypeOK'
  BY <1>1, <1>2, <1>3, <1>4 DEF IInv, TypeOK
<1>7. Others(r)
  BY <1>1, <1>2 DEF IInv, TypeOK, Others
<1>8. Local(r)'
  <2>1. Start(r)' = Start(r)
    BY <1>3, <1>4, <1>5 DEF Start
  <2>2. stack'[r][Len(stack[r]) + 1].con = NoCon
    BY <1>4, <1>5
  <2>3. \A i \in 1..Len(stack[r]) : stack'[r][i] = stack[r][i]
    BY <1>4, <1>5
  <2>4. Len(stack'[r]) = Len(stack[r]) + 1
    BY <1>4, <1>5
  <2>5. Frames(r) /\ Holds(r)
    BY DEF IInv, Local
  <2>6. layer'[r] >= 1 => layer[r] >= 1 /\ Start(r) \in 1..Len(stack[r])
    BY <1>2, <1>3, <1>4, <1>5, <2>5 DEF Start, Frames
  <2>7. layer'[r] <= 0 => layer[r] <= 0
    BY <1>3, <1>5
  <2>8. \A i \in 1..Len(stack'[r]) : i \in 1..Len(stack[r]) \/ i = Len(stack[r]) + 1
    BY <1>4, <2>4
  <2>9. Frames(r)'
    <3>1. \A i \in 1..Len(stack'[r]) : i \in 1..Len(stack[r]) \/ stack'[r][i].con = NoCon
      BY <2>2, <2>8
    <3>2. CASE layer'[r] >= 1
      <4>1. \A i \in 1..Len(stack'[r]) : i # Start(r)' => stack'[r][i].con = NoCon
        BY <2>1, <2>3, <2>5, <2>6, <3>1, <3>2 DEF Frames
      <4>2. /\ stack'[r][Start(r)'].con = field'[r]
            /\ stack'[r][Start(r)'].type = work'[r].type
            /\ field'[r] \in Conns
        BY <1>2, <2>1, <2>3, <2>5, <2>6, <3>2 DEF Frames
      <4>3. Len(stack'[r]) <= MaxDepth /\ layer'[r] <= Len(stack'[r])
        BY <1>2, <1>3, <1>4, <1>5, <2>4, <2>5, TransactionAssumption DEF Frames
      <4>4. ~ (layer'[r] <= 0)
        BY <1>3, <1>5, <3>2
      <4>5. QED
        BY <4>1, <4>2, <4>3, <4>4 DEF Frames
    <3>3. CASE ~ (layer'[r] >= 1)
      <4>1. \A i \in 1..Len(stack'[r]) : stack'[r][i].con = NoCon
        BY <1>3, <1>5, <2>3, <2>5, <2>7, <3>1, <3>3 DEF Frames
      <4>2. Len(stack'[r]) <= MaxDepth /\ layer'[r] <= Len(stack'[r])
        BY <1>2, <1>3, <1>4, <1>5, <2>4, <2>5, TransactionAssumption DEF Frames
      <4>3. QED
        BY <3>3, <4>1, <4>2 DEF Frames
    <3>4. QED
      BY <3>2, <3>3
  <2>10. Phase(r)'
    BY <1>2 DEF Phase
  <2>11. Holds(r)'
    BY <1>2, <2>5, <2>6, <2>7 DEF Holds
  <2>12. QED
    BY <2>9, <2>10, <2>11 DEF Local
<1>9. Pool'
  <2>1. \A q \in Requests : layer[q] >= 1 => layer'[q] >= 1
    BY <1>2 DEF IInv, TypeOK
  <2>2. QED
    BY <1>2, <2>1 DEF IInv, Pool
<1>10. QED
  BY <1>6, <1>7, <1>8, <1>9, StepOf

LEMMA WriteStep ==
    ASSUME IInv, NEW r \in Requests, Write(r)
    PROVE  IInv'
<1> DEFINE c == field[r]
<1>1. /\ flow[r] = "app" /\ stack[r] # <<>> /\ c \notin broken \cup {NoCon}
      /\ UNCHANGED <<flow, stack, layer, field, free, broken, mode>>
  BY DEF Write
<1>2. c \in Conns /\ layer[r] \in Int /\ layer[r] >= 1
  <2>1. c \in Conns \cup {NoCon} /\ layer[r] \in Int
    BY DEF IInv, TypeOK
  <2>2. ~ (layer[r] <= 0)
    BY <1>1 DEF IInv, Local, Holds
  <2>3. QED
    BY <1>1, <2>1, <2>2
<1>3. Frames(r) /\ Holds(r)
  BY DEF IInv, Local
<1>4. work[r] \in [type : TxTypes, done : Nat, kept : Nat, ended : Ends]
  BY DEF IInv, TypeOK
<1>5. \A q \in Requests \ {r} : field[q] # c
  BY <1>1 DEF IInv, Pool
<1>6. Pool' /\ Phase(r)'
  <2>1. c \notin free
    BY DEF IInv, Pool
  <2>2. \A d \in Conns : d # c => pending'[d] = pending[d]
    BY DEF Write, IInv, TypeOK
  <2>3. \A d \in free \cup broken : pending'[d] = 0
    BY <1>1, <2>1, <2>2 DEF IInv, TypeOK, Pool
  <2>4. Pool'
    BY <1>1, <2>3 DEF IInv, Pool
  <2>5. QED
    BY <1>1, <2>4 DEF Phase
<1>7. CASE mode[c].auto
  <2>1. /\ work' = [work EXCEPT ![r].done = @ + 1, ![r].kept = @ + 1]
        /\ UNCHANGED pending
    BY <1>7 DEF Write
  <2>2. TypeOK'
    <3>1. work' \in [Requests -> [type : TxTypes, done : Nat, kept : Nat, ended : Ends]]
      BY <1>4, <2>1 DEF IInv, TypeOK
    <3>2. QED
      BY <1>1, <2>1, <3>1 DEF IInv, TypeOK
  <2>3. Others(r)
    BY <1>1, <2>1 DEF IInv, TypeOK, Others
  <2>4. work'[r].type = work[r].type /\ work[r].type # "REQUIRED"
    <3>1. mode[c] = ModeOf(work[r].type)
      BY <1>2, <1>3 DEF Holds
    <3>2. work[r].type # "REQUIRED"
      BY <1>7, <3>1, AutoMode
    <3>3. QED
      BY <1>4, <2>1, <3>2 DEF IInv, TypeOK
  <2>5. Frames(r)'
    BY <1>1, <1>3, <2>4 DEF Frames, Start
  <2>6. Holds(r)'
    BY <1>1, <1>2, <1>3, <2>4 DEF Holds
  <2>7. QED
    BY <1>6, <2>2, <2>3, <2>5, <2>6, StepOf DEF Local
<1>8. CASE ~mode[c].auto
  <2>1. /\ work' = [work EXCEPT ![r].done = @ + 1]
        /\ pending' = [pending EXCEPT ![c] = @ + 1]
    BY <1>8 DEF Write
  <2>2. TypeOK'
    <3>1. work' \in [Requests -> [type : TxTypes, done : Nat, kept : Nat, ended : Ends]]
      <4>1. [work[r] EXCEPT !.done = @ + 1] \in
                [type : TxTypes, done : Nat, kept : Nat, ended : Ends]
        BY <1>4
      <4>2. work' = [work EXCEPT ![r] = [work[r] EXCEPT !.done = @ + 1]]
        BY <2>1
      <4>3. QED
        BY <4>1, <4>2 DEF IInv, TypeOK
    <3>2. QED
      BY <1>1, <2>1, <3>1 DEF IInv, TypeOK
  <2>3. Others(r)
    BY <1>1, <1>5, <2>1 DEF IInv, TypeOK, Others
  <2>4. /\ work'[r].type = work[r].type /\ work'[r].kept = work[r].kept
        /\ work'[r].done = work[r].done + 1 /\ pending'[c] = pending[c] + 1
    BY <1>2, <1>4, <2>1 DEF IInv, TypeOK
  <2>5. Frames(r)'
    BY <1>1, <1>3, <2>1, <2>4 DEF Frames, Start
  <2>6. Holds(r)'
    BY <1>1, <1>2, <1>3, <2>4 DEF Holds
  <2>7. QED
    BY <1>6, <2>2, <2>3, <2>5, <2>6, StepOf DEF Local
<1>9. QED
  BY <1>7, <1>8

-------------------------------------------------------------------------------
(* The ends of methods. *)

(* The frame below the one that ends is the innermost next.                *)
LEMMA PopStep ==
    ASSUME IInv, NEW r \in Requests, stack[r] # <<>>, Pop(r)
    PROVE  /\ stack' \in [Requests -> Seq(Frame)]
           /\ \A q \in Requests \ {r} : UNCHANGED stack[q]
           /\ Len(stack[r]) \in Nat \ {0}
           /\ Len(stack'[r]) = Len(stack[r]) - 1
           /\ \A i \in 1..(Len(stack[r]) - 1) : stack'[r][i] = stack[r][i]
<1>1. stack[r] \in Seq(Frame)
  BY DEF IInv, TypeOK
<1>2. /\ SubSeq(stack[r], 1, Len(stack[r]) - 1) \in Seq(Frame)
      /\ Len(stack[r]) \in Nat \ {0}
      /\ Len(SubSeq(stack[r], 1, Len(stack[r]) - 1)) = Len(stack[r]) - 1
      /\ \A i \in 1..(Len(stack[r]) - 1) :
             SubSeq(stack[r], 1, Len(stack[r]) - 1)[i] = stack[r][i]
  BY <1>1, PopProp
<1>3. stack'[r] = SubSeq(stack[r], 1, Len(stack[r]) - 1)
  BY DEF Pop, IInv, TypeOK
<1>4. stack' \in [Requests -> Seq(Frame)] /\ \A q \in Requests \ {r} : UNCHANGED stack[q]
  BY <1>2 DEF Pop, IInv, TypeOK
<1>5. QED
  BY <1>2, <1>3, <1>4

LEMMA EndInnerStep ==
    ASSUME IInv, NEW r \in Requests, NEW h \in Ends, EndInner(r, h)
    PROVE  IInv'
<1>1. /\ flow[r] = "app" /\ stack[r] # <<>> /\ layer[r] # 1 /\ Pop(r)
      /\ layer' = [layer EXCEPT ![r] = @ - 1]
      /\ work' = IF layer[r] > 1 THEN [work EXCEPT ![r].ended = h] ELSE work
      /\ UNCHANGED <<flow, field, free, broken, mode, pending>>
  BY DEF EndInner, Ending
<1>2. /\ stack' \in [Requests -> Seq(Frame)]
      /\ \A q \in Requests \ {r} : UNCHANGED stack[q]
      /\ Len(stack[r]) \in Nat \ {0}
      /\ Len(stack'[r]) = Len(stack[r]) - 1
      /\ \A i \in 1..(Len(stack[r]) - 1) : stack'[r][i] = stack[r][i]
  BY <1>1, PopStep
<1>3. layer[r] \in Int /\ layer'[r] = layer[r] - 1
  BY <1>1 DEF IInv, TypeOK
<1>4. /\ work' \in [Requests -> [type : TxTypes, done : Nat, kept : Nat, ended : Ends]]
      /\ \A q \in Requests \ {r} : UNCHANGED work[q]
      /\ work'[r].type = work[r].type /\ work'[r].kept = work[r].kept
      /\ work'[r].done = work[r].done
      /\ layer[r] <= 1 => work'[r] = work[r]
  <2>1. [work[r] EXCEPT !.ended = h] \in
            [type : TxTypes, done : Nat, kept : Nat, ended : Ends]
    BY DEF IInv, TypeOK
  <2>2. work' = work \/ work' = [work EXCEPT ![r] = [work[r] EXCEPT !.ended = h]]
    BY <1>1
  <2>3. layer[r] <= 1 => work' = work
    BY <1>1, <1>3
  <2>4. work \in [Requests -> [type : TxTypes, done : Nat, kept : Nat, ended : Ends]]
    BY DEF IInv, TypeOK
  <2>5. CASE work' = work
    BY <2>4, <2>5
  <2>6. CASE work' = [work EXCEPT ![r] = [work[r] EXCEPT !.ended = h]]
    BY <2>1, <2>3, <2>4, <2>6
  <2>7. QED
    BY <2>2, <2>5, <2>6
<1>5. TypeOK'
  <2>1. layer' \in [Requests -> Int]
    BY <1>1 DEF IInv, TypeOK
  <2>2. QED
    BY <1>1, <1>2, <1>4, <2>1 DEF IInv, TypeOK
<1>6. Others(r)
  BY <1>1, <1>2, <1>4 DEF IInv, TypeOK, Others
<1>7. Frames(r) /\ Holds(r)
  BY DEF IInv, Local
<1>8. Frames(r)'
  <2>1. Start(r)' = Start(r)
    BY <1>2, <1>3 DEF Start
  <2>2. Len(stack'[r]) <= MaxDepth /\ layer'[r] <= Len(stack'[r])
    BY <1>2, <1>3, <1>7, TransactionAssumption DEF Frames
  <2>3. CASE layer[r] > 1
    <3>1. Start(r) \in 1..(Len(stack[r]) - 1) /\ layer[r] >= 1
      BY <1>2, <1>3, <1>7, <2>3 DEF Frames, Start
    <3>2. /\ stack'[r][Start(r)'].con = field'[r]
          /\ stack'[r][Start(r)'].type = work'[r].type
          /\ field'[r] \in Conns
      BY <1>1, <1>2, <1>4, <1>7, <2>1, <3>1 DEF Frames
    <3>3. \A i \in 1..Len(stack'[r]) : i # Start(r)' => stack'[r][i].con = NoCon
      BY <1>2, <1>7, <2>1, <3>1 DEF Frames
    <3>4. ~ (layer'[r] <= 0)
      BY <1>3, <2>3
    <3>5. QED
      BY <2>2, <3>2, <3>3, <3>4 DEF Frames
  <2>4. CASE ~ (layer[r] > 1)
    <3>1. layer[r] <= 0 /\ ~ (layer'[r] >= 1)
      BY <1>1, <1>3, <2>4
    <3>2. \A i \in 1..Len(stack'[r]) : stack'[r][i].con = NoCon
      BY <1>2, <1>7, <3>1 DEF Frames
    <3>3. QED
      BY <2>2, <3>1, <3>2 DEF Frames
  <2>5. QED
    BY <2>3, <2>4
<1>9. Holds(r)'
  <2>1. layer'[r] >= 1 => layer[r] >= 1
    BY <1>3
  <2>2. layer'[r] <= 0 => layer[r] <= 0 /\ work'[r] = work[r]
    BY <1>1, <1>3, <1>4
  <2>3. QED
    BY <1>1, <1>4, <1>7, <2>1, <2>2 DEF Holds
<1>10. Phase(r)'
  BY <1>1 DEF Phase
<1>11. Pool'
  <2>1. \A q \in Requests : layer[q] >= 1 => layer'[q] >= 1
    BY <1>1, <1>3 DEF IInv, TypeOK
  <2>2. QED
    BY <1>1, <2>1 DEF IInv, Pool
<1>12. QED
  BY <1>5, <1>6, <1>8, <1>9, <1>10, <1>11, StepOf DEF Local

(* The outermost method ends on the connection it took.                    *)
LEMMA OutermostProp ==
    ASSUME IInv, NEW r \in Requests, OutermostEnding(r)
    PROVE  /\ flow[r] = "app" /\ stack[r] # <<>> /\ layer[r] = 1
           /\ field[r] \in Conns
           /\ Innermost(r).con = field[r]
           /\ \A i \in 1..(Len(stack[r]) - 1) : stack[r][i].con = NoCon
           /\ Holds(r)
<1>1. flow[r] = "app" /\ stack[r] # <<>> /\ layer[r] = 1
  BY DEF OutermostEnding, Ending
<1>2. Len(stack[r]) \in Nat \ {0}
  BY <1>1, EmptySeq DEF IInv, TypeOK
<1>3. Frames(r) /\ Holds(r)
  BY DEF IInv, Local
<1>4. Start(r) = Len(stack[r])
  BY <1>1, <1>2 DEF Start
<1>5. \A i \in 1..(Len(stack[r]) - 1) : i \in 1..Len(stack[r]) /\ i # Start(r)
  BY <1>2, <1>4
<1>6. QED
  BY <1>1, <1>3, <1>4, <1>5 DEF Frames, Innermost

LEMMA SettledProp ==
    ASSUME NEW w \in [type : TxTypes, done : Nat, kept : Nat, ended : Ends],
           NEW n \in Nat, NEW h \in Ends
    PROVE  LET s == [w EXCEPT !.ended = h, !.kept = @ + n] IN
           /\ s \in [type : TxTypes, done : Nat, kept : Nat, ended : Ends]
           /\ s.type = w.type /\ s.done = w.done
           /\ s.kept = w.kept + n /\ s.ended = h
<1> DEFINE e == [w EXCEPT !.ended = h]
           s == [e EXCEPT !.kept = w.kept + n]
<1>1. /\ e \in [type : TxTypes, done : Nat, kept : Nat, ended : Ends]
      /\ e.type = w.type /\ e.done = w.done /\ e.kept = w.kept /\ e.ended = h
  OBVIOUS
<1>2. w.kept + n \in Nat
  OBVIOUS
<1>3. [w EXCEPT !.ended = h, !.kept = @ + n] = s
  BY <1>1
<1> HIDE DEF e
<1>4. /\ s \in [type : TxTypes, done : Nat, kept : Nat, ended : Ends]
      /\ s.type = e.type /\ s.done = e.done /\ s.kept = w.kept + n /\ s.ended = e.ended
  BY <1>1, <1>2
<1>5. QED
  BY <1>1, <1>3, <1>4

(* It settles its writes as its end demands, and gives the connection back.*)
LEMMA SettleStep ==
    ASSUME IInv, NEW r \in Requests, NEW n \in Nat, NEW h \in Ends,
           OutermostEnding(r), Settle(r, n, h),
           work[r].type = "REQUIRED" =>
                /\ n \in {0, work[r].done}
                /\ h \in {"returned", "excepted"} => n = work[r].done
                /\ h = "threw" => n = 0
    PROVE  IInv'
<1> DEFINE c == field[r]
<1>1. /\ flow[r] = "app" /\ stack[r] # <<>> /\ layer[r] = 1
      /\ c \in Conns
      /\ Innermost(r).con = c
      /\ \A i \in 1..(Len(stack[r]) - 1) : stack[r][i].con = NoCon
      /\ Holds(r)
  BY OutermostProp
<1>2. /\ layer' = [layer EXCEPT ![r] = 0]
      /\ Pop(r)
      /\ pending' = [pending EXCEPT ![c] = 0]
      /\ work' = [work EXCEPT ![r].ended = h, ![r].kept = @ + n]
      /\ free' = free \cup {c}
      /\ broken' = broken \ {c}
      /\ field' = [field EXCEPT ![r] = NoCon]
      /\ UNCHANGED <<flow, mode>>
  BY <1>1 DEF Settle, Release
<1>3. /\ stack' \in [Requests -> Seq(Frame)]
      /\ \A q \in Requests \ {r} : UNCHANGED stack[q]
      /\ Len(stack[r]) \in Nat \ {0}
      /\ Len(stack'[r]) = Len(stack[r]) - 1
      /\ \A i \in 1..(Len(stack[r]) - 1) : stack'[r][i] = stack[r][i]
  BY <1>1, <1>2, PopStep
<1>4. /\ work' \in [Requests -> [type : TxTypes, done : Nat, kept : Nat, ended : Ends]]
      /\ \A q \in Requests \ {r} : UNCHANGED work[q]
      /\ work'[r].type = work[r].type /\ work'[r].done = work[r].done
      /\ work'[r].kept = work[r].kept + n /\ work'[r].ended = h
  <2>1. work[r] \in [type : TxTypes, done : Nat, kept : Nat, ended : Ends]
    BY DEF IInv, TypeOK
  <2> DEFINE w == [work[r] EXCEPT !.ended = h, !.kept = @ + n]
  <2>2. /\ w \in [type : TxTypes, done : Nat, kept : Nat, ended : Ends]
        /\ w.type = work[r].type /\ w.done = work[r].done
        /\ w.kept = work[r].kept + n /\ w.ended = h
    BY <2>1, SettledProp
  <2>3. work' = [work EXCEPT ![r] = w]
    BY <1>2 DEF IInv, TypeOK
  <2> HIDE DEF w
  <2>4. QED
    BY <2>2, <2>3 DEF IInv, TypeOK
<1>5. TypeOK'
  BY <1>1, <1>2, <1>3, <1>4 DEF IInv, TypeOK
<1>6. Others(r)
  <2>1. \A q \in Requests \ {r} : UNCHANGED <<flow[q], stack[q], layer[q], field[q], work[q]>>
    BY <1>2, <1>3, <1>4 DEF IInv, TypeOK
  <2>2. \A q \in Requests \ {r} : field[q] # c /\ field[q] \in Conns \cup {NoCon}
    BY <1>1, TransactionAssumption DEF IInv, TypeOK, Pool
  <2>3. QED
    BY <1>2, <2>1, <2>2 DEF Others, IInv, TypeOK
<1>7. layer'[r] = 0 /\ field'[r] = NoCon
  BY <1>2 DEF IInv, TypeOK
<1>8. Frames(r)'
  <2>1. Len(stack'[r]) <= MaxDepth /\ layer'[r] <= Len(stack'[r])
    BY <1>3, <1>7, TransactionAssumption DEF IInv, Local, Frames
  <2>2. \A i \in 1..Len(stack'[r]) : stack'[r][i].con = NoCon
    BY <1>1, <1>3
  <2>3. QED
    BY <1>7, <2>1, <2>2 DEF Frames
<1>9. Holds(r)' /\ Phase(r)'
  <2>1. work[r].type = "REQUIRED" => work[r].kept = 0
    BY <1>1 DEF Holds
  <2>2. work[r].type = "REQUIRED" => work'[r].kept = n
    BY <1>4, <2>1
  <2>3. QED
    BY <1>1, <1>2, <1>4, <1>7, <2>2 DEF Holds, Phase
<1>10. Pool'
  <2>1. \A q \in Requests : field'[q] = IF q = r THEN NoCon ELSE field[q]
    BY <1>2 DEF IInv, TypeOK
  <2>2. \A q \in Requests : field'[q] \notin free'
    BY <1>1, <1>2, <2>1, TransactionAssumption DEF IInv, TypeOK, Pool
  <2>3. \A p, q \in Requests : field'[p] = field'[q] /\ field'[p] # NoCon => p = q
    BY <2>1 DEF IInv, Pool
  <2>4. \A d \in free' \cup broken' : pending'[d] = 0
    BY <1>1, <1>2 DEF IInv, TypeOK, Pool
  <2>5. ASSUME NEW d \in Conns \ (free' \cup broken')
        PROVE  \E q \in Requests : layer'[q] >= 1 /\ field'[q] = d
    <3>1. d \in Conns \ (free \cup broken) /\ d # c
      BY <1>2
    <3>2. PICK q \in Requests : layer[q] >= 1 /\ field[q] = d
      BY <3>1 DEF IInv, Pool
    <3>3. QED
      BY <1>6, <3>1, <3>2 DEF Others
  <2>6. QED
    BY <2>2, <2>3, <2>4, <2>5 DEF Pool
<1>11. QED
  BY <1>5, <1>6, <1>8, <1>9, <1>10, StepOf DEF Local

LEMMA CheckFailsStep ==
    ASSUME IInv, NEW r \in Requests, CheckFails(r)
    PROVE  IInv'
<1>1. /\ OutermostEnding(r) /\ Innermost(r).con \in broken /\ Pop(r)
      /\ layer' = [layer EXCEPT ![r] = @ - 2]
      /\ work' = [work EXCEPT ![r].ended = "failed"]
      /\ UNCHANGED <<flow, field, free, broken, mode, pending>>
  BY DEF CheckFails
<1>2. /\ flow[r] = "app" /\ stack[r] # <<>> /\ layer[r] = 1
      /\ field[r] \in Conns
      /\ Innermost(r).con = field[r]
      /\ \A i \in 1..(Len(stack[r]) - 1) : stack[r][i].con = NoCon
      /\ Holds(r)
  BY <1>1, OutermostProp
<1>3. /\ stack' \in [Requests -> Seq(Frame)]
      /\ \A q \in Requests \ {r} : UNCHANGED stack[q]
      /\ Len(stack[r]) \in Nat \ {0}
      /\ Len(stack'[r]) = Len(stack[r]) - 1
      /\ \A i \in 1..(Len(stack[r]) - 1) : stack'[r][i] = stack[r][i]
  BY <1>1, <1>2, PopStep
<1>4. /\ work' \in [Requests -> [type : TxTypes, done : Nat, kept : Nat, ended : Ends]]
      /\ \A q \in Requests \ {r} : UNCHANGED work[q]
      /\ work'[r].type = work[r].type /\ work'[r].done = work[r].done
      /\ work'[r].kept = work[r].kept /\ work'[r].ended = "failed"
  <2>1. "failed" \in Ends
    BY DEF Ends
  <2>2. [work[r] EXCEPT !.ended = "failed"] \in
            [type : TxTypes, done : Nat, kept : Nat, ended : Ends]
    BY <2>1 DEF IInv, TypeOK
  <2>3. work' = [work EXCEPT ![r] = [work[r] EXCEPT !.ended = "failed"]]
    BY <1>1
  <2>4. QED
    BY <2>2, <2>3 DEF IInv, TypeOK
<1>5. TypeOK'
  BY <1>1, <1>3, <1>4 DEF IInv, TypeOK
<1>6. Others(r)
  BY <1>1, <1>3, <1>4 DEF IInv, TypeOK, Others
<1>7. layer'[r] = -1 /\ field[r] \in broken
  BY <1>1, <1>2 DEF IInv, TypeOK
<1>8. Frames(r)'
  <2>1. Len(stack'[r]) <= MaxDepth /\ layer'[r] <= Len(stack'[r])
    BY <1>3, <1>7, TransactionAssumption DEF IInv, Local, Frames
  <2>2. \A i \in 1..Len(stack'[r]) : stack'[r][i].con = NoCon
    BY <1>2, <1>3
  <2>3. QED
    BY <1>7, <2>1, <2>2 DEF Frames
<1>9. Holds(r)' /\ Phase(r)'
  <2>1. work[r].type = "REQUIRED" => work'[r].kept = 0
    BY <1>2, <1>4 DEF Holds
  <2>2. QED
    BY <1>1, <1>2, <1>4, <1>7, <2>1 DEF Holds, Phase
<1>10. Pool'
  <2>1. ASSUME NEW d \in Conns \ (free' \cup broken')
        PROVE  \E q \in Requests : layer'[q] >= 1 /\ field'[q] = d
    <3>1. PICK q \in Requests : layer[q] >= 1 /\ field[q] = d
      BY <1>1 DEF IInv, Pool
    <3>2. q # r
      BY <1>1, <1>7, <3>1
    <3>3. QED
      BY <1>6, <3>1, <3>2 DEF Others
  <2>2. QED
    BY <1>1, <2>1 DEF IInv, Pool
<1>11. QED
  BY <1>5, <1>6, <1>8, <1>9, <1>10, StepOf DEF Local

LEMMA EndStep ==
    ASSUME IInv, NEW r \in Requests, End(r)
    PROVE  IInv'
<1>1. CASE ReturnInner(r) \/ ThrowInner(r)
  <2>1. "returned" \in Ends /\ "threw" \in Ends
    BY DEF Ends
  <2>2. QED
    BY <1>1, <2>1, EndInnerStep DEF ReturnInner, ThrowInner
<1>2. CASE CheckFails(r)
  BY <1>2, CheckFailsStep
<1>3. ASSUME OutermostEnding(r)
      PROVE  /\ Pending(r) \in Nat /\ 0 \in Nat
             /\ {"returned", "threw", "excepted", "failed"} \subseteq Ends
             /\ work[r].type = "REQUIRED" =>
                  /\ Pending(r) \in {0, work[r].done}
                  /\ ~Broken(r) => Pending(r) = work[r].done
  <2>1. /\ layer[r] = 1 /\ field[r] \in Conns
        /\ Innermost(r).con = field[r]
        /\ Holds(r)
    BY <1>3, OutermostProp
  <2>2. Pending(r) = pending[field[r]] /\ Pending(r) \in Nat
    BY <2>1 DEF Pending, IInv, TypeOK
  <2>3. field[r] \in broken => Pending(r) = 0
    BY <2>2 DEF IInv, Pool
  <2>4. mode[field[r]] = ModeOf(work[r].type)
    BY <2>1 DEF Holds
  <2>5. work[r].type = "REQUIRED" => ~mode[field[r]].auto
    BY <2>4, AutoMode, Zenon
  <2>6. work[r].type = "REQUIRED" /\ ~Broken(r) => field[r] \notin broken
    BY <2>1, <2>5, Zenon DEF Broken
  <2>7. work[r].type = "REQUIRED" /\ field[r] \notin broken => Pending(r) = work[r].done
    BY <2>1, <2>2 DEF Holds
  <2>8. QED
    BY <2>2, <2>3, <2>6, <2>7 DEF Ends
<1>4. CASE ReturnTop(r)
  <2>1. OutermostEnding(r) /\ ~Broken(r) /\ Settle(r, Pending(r), "returned")
    BY <1>4 DEF ReturnTop
  <2>2. QED
    BY <1>3, <2>1, SettleStep
<1>5. CASE CommitFails(r) \/ ThrowTopFails(r)
  <2>1. OutermostEnding(r)
    BY <1>5 DEF CommitFails, ThrowTopFails
  <2>2. PICK n \in {0, Pending(r)} : Settle(r, n, "failed")
    BY <1>5 DEF CommitFails, ThrowTopFails
  <2>3. /\ n \in Nat /\ "failed" \in Ends
        /\ work[r].type = "REQUIRED" => n \in {0, work[r].done}
    BY <1>3, <2>1
  <2>4. QED
    BY <2>1, <2>2, <2>3, SettleStep
<1>6. CASE ThrowTop(r)
  <2>1. OutermostEnding(r) /\ ~Broken(r)
    BY <1>6 DEF ThrowTop
  <2>2. CASE Settle(r, 0, "threw")
    BY <1>3, <2>1, <2>2, SettleStep
  <2>3. CASE Settle(r, Pending(r), "excepted")
    BY <1>3, <2>1, <2>3, SettleStep
  <2>4. QED
    BY <1>6, <2>2, <2>3 DEF ThrowTop
<1>7. QED
  BY <1>1, <1>2, <1>4, <1>5, <1>6 DEF End

-------------------------------------------------------------------------------
(* Every step keeps the invariant. *)
LEMMA NextIInv == IInv /\ [Next]_vars => IInv'
<1> SUFFICES ASSUME IInv, [Next]_vars PROVE IInv'
  OBVIOUS
<1>1. CASE UNCHANGED vars
  BY <1>1 DEF vars, IInv, TypeOK, Local, Frames, Phase, Holds, Start, Pool
<1>2. ASSUME NEW c \in Conns, Break(c) PROVE IInv'
  BY <1>2, BreakStep
<1>3. ASSUME NEW r \in Requests,
             \/ BeginRequest(r) \/ EndRequest(r) \/ Call(r) \/ NoConnection(r)
             \/ Connect(r) \/ SetUpFails(r) \/ Join(r) \/ Write(r) \/ End(r)
      PROVE  IInv'
  BY <1>3, RequestSteps, CallSteps, ConnectStep, SetUpFailsStep, JoinStep, WriteStep, EndStep
<1>4. QED
  BY <1>1, <1>2, <1>3 DEF Next

LEMMA Invariance == Spec => []IInv
<1>1. QED
  BY InitIInv, NextIInv, PTL DEF Spec

(* The owners of a connection are the frames at which a transaction began. *)
LEMMA OwnersProp ==
    ASSUME IInv, NEW c \in Conns
    PROVE  /\ \A o \in Owners(c) :
                 /\ o[1] \in Requests /\ layer[o[1]] >= 1 /\ field[o[1]] = c
                 /\ o = <<o[1], Start(o[1])>>
                 /\ stack[o[1]][o[2]].type = work[o[1]].type
           /\ \A r \in Requests :
                 layer[r] >= 1 /\ field[r] = c => <<r, Start(r)>> \in Owners(c)
<1>1. ASSUME NEW o \in Owners(c)
      PROVE  /\ o[1] \in Requests /\ layer[o[1]] >= 1 /\ field[o[1]] = c
             /\ o = <<o[1], Start(o[1])>>
             /\ stack[o[1]][o[2]].type = work[o[1]].type
  <2>1. PICK r \in Requests, i \in 1..MaxDepth :
           o = <<r, i>> /\ i <= Len(stack[r]) /\ stack[r][i].con = c
    BY DEF Owners
  <2>2. Frames(r) /\ layer[r] \in Int /\ Len(stack[r]) \in Nat
    BY LenProperties DEF IInv, Local, TypeOK
  <2>3. i \in 1..Len(stack[r]) /\ c # NoCon
    BY <2>1, <2>2, TransactionAssumption
  <2>4. layer[r] >= 1
    <3>1. ~ (layer[r] <= 0)
      BY <2>1, <2>2, <2>3 DEF Frames
    <3>2. QED
      BY <2>2, <3>1
  <2>5. i = Start(r)
    BY <2>1, <2>2, <2>3, <2>4 DEF Frames
  <2>6. QED
    BY <2>1, <2>2, <2>4, <2>5 DEF Frames
<1>2. ASSUME NEW r \in Requests, layer[r] >= 1, field[r] = c
      PROVE  <<r, Start(r)>> \in Owners(c)
  <2>1. Frames(r) /\ layer[r] \in Int /\ Len(stack[r]) \in Nat
    BY LenProperties DEF IInv, Local, TypeOK
  <2>2. Start(r) \in 1..MaxDepth /\ Start(r) <= Len(stack[r])
    BY <1>2, <2>1, TransactionAssumption DEF Frames, Start
  <2>3. stack[r][Start(r)].con = c
    BY <1>2, <2>1 DEF Frames
  <2>4. QED
    BY <2>2, <2>3 DEF Owners
<1>3. QED
  BY <1>1, <1>2

-------------------------------------------------------------------------------
(* The variables of every request and connection have their types: layer   *)
(* is an integer that may well fall below zero.                            *)
THEOREM TypeCorrect == Spec => []TypeOK
<1>1. IInv => TypeOK
  BY DEF IInv
<1>2. QED
  BY <1>1, Invariance, PTL

(* Whatever is thrown, fails or breaks, a connection is in the pool or has *)
(* one owner, and none is lost but a broken one.                           *)
THEOREM NoLeak == Spec => []ConnectionsAccounted
<1>1. ASSUME IInv PROVE ConnectionsAccounted
  <2>1. ASSUME NEW c \in Conns
        PROVE  /\ c \in free => Owners(c) = {}
               /\ c \notin free \cup broken => Owners(c) # {}
               /\ \A o, p \in Owners(c) : o = p
    <3>1. c # NoCon
      BY TransactionAssumption
    <3>2. c \in free => Owners(c) = {}
      BY <1>1, OwnersProp DEF IInv, Pool
    <3>3. c \notin free \cup broken => Owners(c) # {}
      BY <1>1, OwnersProp DEF IInv, Pool
    <3>4. ASSUME NEW o \in Owners(c), NEW p \in Owners(c) PROVE o = p
      <4>1. o[1] = p[1]
        BY <1>1, <3>1, OwnersProp DEF IInv, Pool
      <4>2. o = <<o[1], Start(o[1])>> /\ p = <<p[1], Start(p[1])>>
        BY <1>1, OwnersProp
      <4>3. QED
        BY <4>1, <4>2
    <3>5. QED
      BY <3>2, <3>3, <3>4
  <2>2. QED
    BY <2>1 DEF ConnectionsAccounted
<1>2. QED
  BY <1>1, Invariance, PTL

(* A connection carries nothing over from one transaction to the next: no  *)
(* open writes, no mode that its new owner did not ask for.                *)
THEOREM CleanConnections == Spec => []NothingLeftOver
<1>1. ASSUME IInv PROVE NothingLeftOver
  <2>1. ASSUME NEW c \in Conns
        PROVE  /\ c \in free => pending[c] = 0
               /\ \A o \in Owners(c) : mode[c] = ModeOf(stack[o[1]][o[2]].type)
    <3>1. c \in free => pending[c] = 0
      BY <1>1 DEF IInv, Pool
    <3>2. ASSUME NEW o \in Owners(c) PROVE mode[c] = ModeOf(stack[o[1]][o[2]].type)
      <4>1. /\ o[1] \in Requests /\ layer[o[1]] >= 1 /\ field[o[1]] = c
            /\ stack[o[1]][o[2]].type = work[o[1]].type
        BY <1>1, OwnersProp
      <4>2. mode[c] = ModeOf(work[o[1]].type)
        BY <1>1, <4>1 DEF IInv, Local, Holds
      <4>3. QED
        BY <4>1, <4>2
    <3>3. QED
      BY <3>1, <3>2
  <2>2. QED
    BY <2>1 DEF NothingLeftOver
<1>2. QED
  BY <1>1, Invariance, PTL

(* All writes of a REQUIRED method and of those that joined it are kept,   *)
(* or none, whatever was thrown and caught in between.                     *)
THEOREM WritesAreOne == Spec => []AllOrNothing
<1>1. ASSUME IInv PROVE AllOrNothing
  <2>1. \A r \in Requests : Holds(r) /\ layer[r] \in Int
    BY <1>1 DEF IInv, Local, TypeOK
  <2>2. QED
    BY <2>1 DEF AllOrNothing, Holds
<1>2. QED
  BY <1>1, Invariance, PTL
===============================================================================
