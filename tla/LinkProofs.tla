---------------------------- MODULE LinkProofs ----------------------------
(***************************************************************************)
(* Proofs about Link, for every value of its constants.                    *)
(***************************************************************************)
EXTENDS Link, SequenceTheorems, TLAPS

CallType ==
    /\ requestId \in Nat /\ want \in Nat
    /\ pc \in Hearing \cup {"idle", "say"}
    /\ stack \in Seq(Nat) /\ todo \in Nat
    /\ mode \in {"query", "getmore", "oneway"}
    /\ phase \in {"first", "ping", "again"} /\ pings \in Nat

SocketType ==
    /\ connected \in BOOLEAN /\ eof \in BOOLEAN
    /\ queue \in Seq(Nat) /\ pos \in 0..7 /\ avail \in Nat

GotType == got \in [asked : Nat, answered : Nat, whole : BOOLEAN]

(* The type invariant, split by the part of the state it is about. *)
LEMMA TypeParts == StateOK <=> CallType /\ SocketType /\ GotType
BY DEF StateOK, CallType, SocketType, GotType

(* An exception ends every call, or starts a ping with a new id that       *)
(* suspends the outermost request.                                         *)
LEMMA CroakEffect ==
    ASSUME CallType, Croak
    PROVE  /\ CallType'
           /\ \/ /\ pc' = "idle" /\ stack' = <<>>
                 /\ want' = want /\ requestId' = requestId
              \/ /\ pc' = "say"
                 /\ want' = requestId + 1 /\ requestId' = requestId + 1
                 /\ stack' = <<IF stack = <<>> THEN want ELSE stack[1]>>
<1>1. CASE GiveUp
  BY <1>1 DEF CallType, GiveUp, Hearing, Reading
<1>2. CASE Ping
  <2>1. (IF stack = <<>> THEN want ELSE stack[1]) \in Nat
    BY DEF CallType
  <2> QED
    BY <1>2, <2>1 DEF CallType, Ping, Command
<1> QED
  BY <1>1, <1>2 DEF Croak

(* What Return leaves of the stack: a prefix keeps its elements. *)
LEMMA PrefixProperties ==
    ASSUME NEW s \in Seq(Nat), NEW n \in Nat, n <= Len(s)
    PROVE  /\ SubSeq(s, 1, n) \in Seq(Nat) /\ Len(SubSeq(s, 1, n)) = n
           /\ \A i \in 1..n : SubSeq(s, 1, n)[i] = s[i]
<1>1. \A i \in 1..n : s[i] \in Nat
  OBVIOUS
<1>2. /\ SubSeq(s, 1, n) \in Seq(Nat)
      /\ Len(SubSeq(s, 1, n)) = IF 1 <= n THEN n - 1 + 1 ELSE 0
      /\ \A i \in 1..(n - 1 + 1) : SubSeq(s, 1, n)[i] = s[1 + i - 1]
  BY <1>1, SubSeqProperties
<1>3. (IF 1 <= n THEN n - 1 + 1 ELSE 0) = n /\ n - 1 + 1 = n
  OBVIOUS
<1>4. ASSUME NEW i \in 1..n PROVE SubSeq(s, 1, n)[i] = s[i]
  <2>1. i \in 1..(n - 1 + 1) /\ 1 + i - 1 = i
    OBVIOUS
  <2> QED
    BY ONLY <1>2, <2>1
<1>5. Len(SubSeq(s, 1, n)) = n
  BY ONLY <1>2, <1>3
<1> QED
  BY <1>2, <1>4, <1>5

(* A return starts the next setup command, or resumes the youngest         *)
(* suspended request, or ends the call.                                    *)
LEMMA ReturnEffect ==
    ASSUME CallType, Return
    PROVE  /\ CallType'
           /\ \/ /\ pc' = "say" /\ stack' = stack
                 /\ want' = requestId + 1 /\ requestId' = requestId + 1
              \/ /\ pc' = "say" /\ Len(stack) > 0 /\ Len(stack') = Len(stack) - 1
                 /\ want' = stack[Len(stack)] /\ requestId' = requestId
                 /\ \A i \in 1..(Len(stack) - 1) : stack'[i] = stack[i]
              \/ /\ pc' = "idle" /\ stack = <<>> /\ stack' = <<>>
                 /\ want' = want /\ requestId' = requestId
<1>1. CASE todo > 0 /\ Command(stack) /\ todo' = todo - 1
           /\ UNCHANGED <<mode, phase, pings>>
  BY <1>1 DEF CallType, Command
<1>2. CASE /\ todo = 0 /\ stack # <<>>
           /\ want' = stack[Len(stack)]
           /\ stack' = SubSeq(stack, 1, Len(stack) - 1)
           /\ pc' = "say"
           /\ phase' = IF phase = "ping" /\ Len(stack) = 1 THEN "again" ELSE phase
           /\ UNCHANGED <<requestId, todo, mode, pings>>
  <2>1. Len(stack) \in Nat /\ Len(stack) > 0
    BY <1>2 DEF CallType
  <2>2. /\ stack' \in Seq(Nat) /\ Len(stack') = Len(stack) - 1
        /\ \A i \in 1..(Len(stack) - 1) : stack'[i] = stack[i]
    <3>1. /\ stack \in Seq(Nat) /\ Len(stack) - 1 \in Nat
          /\ Len(stack) - 1 <= Len(stack)
      BY <2>1 DEF CallType
    <3>2. /\ SubSeq(stack, 1, Len(stack) - 1) \in Seq(Nat)
          /\ Len(SubSeq(stack, 1, Len(stack) - 1)) = Len(stack) - 1
          /\ \A i \in 1..(Len(stack) - 1) :
                SubSeq(stack, 1, Len(stack) - 1)[i] = stack[i]
      BY ONLY <3>1, PrefixProperties, Zenon
    <3>3. stack' = SubSeq(stack, 1, Len(stack) - 1)
      BY <1>2
    <3> QED
      BY ONLY <3>2, <3>3, Zenon
  <2>3. want' \in Nat
    BY <1>2, <2>1 DEF CallType
  <2> QED
    BY <1>2, <2>1, <2>2, <2>3 DEF CallType
<1>3. CASE todo = 0 /\ stack = <<>> /\ GiveUp
  BY <1>3 DEF CallType, GiveUp
<1> QED
  BY <1>1, <1>2, <1>3 DEF Return

(* The sound part of the socket's invariant, without the call's position *)
Framed ==
    /\ avail <= 8 * Len(queue) - pos
    /\ pos > 0 => Len(queue) > 0
    /\ ~connected => queue = <<>> /\ pos = 0 /\ avail = 0 /\ ~eof

(* Reading moves on by what is read, over the message's end if it reaches  *)
(* it.                                                                     *)
LEMMA TakeEffect ==
    ASSUME SocketType, Framed, NEW n \in 0..2, Take(n)
    PROVE  /\ SocketType' /\ Framed'
           /\ n <= avail /\ avail' = avail - n
           /\ connected' = connected /\ eof' = eof
           /\ \/ /\ pos + n >= 8 /\ pos' = pos + n - 8
                 /\ queue' = Tail(queue) /\ Len(queue') = Len(queue) - 1
                 /\ \A i \in 1..Len(queue') : queue'[i] = queue[i + 1]
              \/ pos + n < 8 /\ pos' = pos + n /\ queue' = queue
<1>1. /\ n <= avail /\ avail' = avail - n /\ connected' = connected /\ eof' = eof
      /\ IF pos + n < 8 THEN pos' = pos + n /\ UNCHANGED queue
                        ELSE pos' = pos + n - 8 /\ queue' = Tail(queue)
  BY DEF Take
<1>2. /\ queue \in Seq(Nat) /\ Len(queue) \in Nat /\ pos \in 0..7
      /\ avail \in Nat /\ avail' \in Nat /\ avail <= 8 * Len(queue) - pos
  BY <1>1 DEF SocketType, Framed
<1>3. CASE pos + n < 8
  <2>1. pos' = pos + n /\ queue' = queue
    BY <1>1, <1>3
  <2>2. SocketType'
    BY <1>1, <1>2, <1>3, <2>1 DEF SocketType
  <2>3. avail' <= 8 * Len(queue') - pos' /\ (pos' > 0 => Len(queue') > 0)
    BY <1>1, <1>2, <1>3, <2>1 DEF Framed
  <2>4. ~connected' => queue' = <<>> /\ pos' = 0 /\ avail' = 0 /\ ~eof'
    BY <1>1, <1>2, <2>1 DEF Framed
  <2> QED
    BY <1>1, <1>3, <2>1, <2>2, <2>3, <2>4 DEF Framed
<1>4. CASE ~(pos + n < 8)
  <2>1. pos' = pos + n - 8 /\ queue' = Tail(queue) /\ pos + n >= 8 /\ pos > 0
    BY <1>1, <1>2, <1>4
  <2>2. Len(queue) > 0
    BY <2>1 DEF Framed
  <2>3. /\ Tail(queue) \in Seq(Nat) /\ Len(Tail(queue)) = Len(queue) - 1
        /\ \A i \in 1..Len(Tail(queue)) : Tail(queue)[i] = queue[i + 1]
    BY <1>2, <2>2, HeadTailProperties
  <2>0. Len(queue') = Len(queue) - 1 /\ queue' \in Seq(Nat) /\ Len(queue') \in Nat
    BY <2>1, <2>3
  <2>4. avail' <= 8 * Len(queue') - pos' /\ pos' \in 0..1
    <3>1. n \in Nat /\ n <= 2 /\ pos \in Nat /\ pos <= 7
      BY <1>2
    <3>2. pos' \in 0..1
      BY ONLY <2>1, <3>1
    <3>3. avail - n <= 8 * (Len(queue) - 1) - (pos + n - 8)
      BY ONLY <1>2, <3>1
    <3> QED
      BY ONLY <1>1, <2>0, <2>1, <3>2, <3>3
  <2>5. pos' > 0 => Len(queue') > 0
    BY <1>2, <2>1, <2>2, <2>3, <2>4
  <2>6. connected /\ connected'
    BY <1>1, <2>1 DEF Framed
  <2>7. SocketType'
    <3>1. connected' \in BOOLEAN /\ eof' \in BOOLEAN
      BY <1>1, Zenon DEF SocketType
    <3> QED
      BY <1>2, <2>0, <2>4, <3>1 DEF SocketType
  <2> QED
    BY <1>1, <2>0, <2>1, <2>3, <2>4, <2>5, <2>6, <2>7 DEF Framed
<1> QED
  BY <1>3, <1>4

LEMMA ReceiveEffect ==
    ASSUME SocketType, Framed, Receive
    PROVE  /\ SocketType' /\ Framed' /\ avail > 0 /\ Len(queue) > 0
           /\ connected' = connected /\ eof' = eof
           /\ \/ /\ pos \in {6, 7} /\ pos' = pos - 6
                 /\ queue' = Tail(queue) /\ Len(queue') = Len(queue) - 1
                 /\ \A i \in 1..Len(queue') : queue'[i] = queue[i + 1]
              \/ pos < 6 /\ pos' = pos + 2 /\ queue' = queue
<1>1. Take(2) /\ 2 \in 0..2
  BY DEF Receive
<1>2. /\ SocketType' /\ Framed' /\ 2 <= avail
      /\ connected' = connected /\ eof' = eof
      /\ \/ /\ pos + 2 >= 8 /\ pos' = pos + 2 - 8
            /\ queue' = Tail(queue) /\ Len(queue') = Len(queue) - 1
            /\ \A i \in 1..Len(queue') : queue'[i] = queue[i + 1]
         \/ pos + 2 < 8 /\ pos' = pos + 2 /\ queue' = queue
  BY <1>1, TakeEffect
<1>3. pos \in 0..7 /\ avail \in Nat /\ Len(queue) \in Nat
  BY DEF SocketType
<1>4. Len(queue) > 0
  BY <1>2, <1>3 DEF Framed
<1> QED
  BY <1>2, <1>3, <1>4

(* Whatever croaks, the invariant survives if what is left of the socket   *)
(* is at a message boundary or has run dry.                                *)
LEMMA CroakInv ==
    ASSUME IInv, pc # "idle", Croak,
           SocketType', Framed', Exhausted' \/ pos' = 0,
           Below(queue', requestId + 1),
           \/ got' = got
           \/ got' = [asked |-> want, answered |-> want, whole |-> FALSE] /\ stack # <<>>
    PROVE  IInv'
<1>1. CallType /\ CallType' /\ GotType /\ GotType'
  <2>1. CallType /\ GotType
    BY TypeParts DEF IInv
  <2>2. CallType'
    BY <2>1, CroakEffect
  <2>3. want \in Nat
    BY <2>1 DEF CallType
  <2>4. GotType'
    <3>1. CASE got' = got
      BY <2>1, <3>1 DEF GotType
    <3>2. CASE got' = [asked |-> want, answered |-> want, whole |-> FALSE]
      BY <2>3, <3>2 DEF GotType
    <3> QED
      BY <3>1, <3>2
  <2> QED
    BY <2>1, <2>2, <2>4
<1>2. \/ /\ pc' = "idle" /\ stack' = <<>>
         /\ want' = want /\ requestId' = requestId
      \/ /\ pc' = "say"
         /\ want' = requestId + 1 /\ requestId' = requestId + 1
         /\ stack' = <<IF stack = <<>> THEN want ELSE stack[1]>>
  BY <1>1, CroakEffect
<1>3. StateOK'
  BY <1>1 DEF StateOK, CallType, SocketType, GotType
<1>4. SocketInv' /\ BoundaryInv'
  BY <1>2 DEF SocketInv, Framed, BoundaryInv, Aligned, Exhausted, Expected, Hearing, Reading
<1>5. Below(queue', requestId' + 1) /\ requestId' >= requestId
  <2>1. requestId \in Nat /\ requestId' \in {requestId, requestId + 1}
    BY <1>1, <1>2 DEF CallType
  <2>2. \A i \in 1..Len(queue') : queue'[i] \in Nat
    BY DEF SocketType
  <2> QED
    BY <2>1, <2>2 DEF Below
<1>6. IdsInv'
  <2>1. CASE pc' = "idle" /\ stack' = <<>> /\ want' = want /\ requestId' = requestId
    BY <1>5, <2>1 DEF IInv, IdsInv, Below
  <2>2. CASE /\ pc' = "say"
             /\ want' = requestId + 1 /\ requestId' = requestId + 1
             /\ stack' = <<IF stack = <<>> THEN want ELSE stack[1]>>
    <3> DEFINE q == IF stack = <<>> THEN want ELSE stack[1]
    <3>1. requestId \in Nat /\ want \in Nat /\ want <= requestId /\ stack \in Seq(Nat)
      BY <1>1 DEF IInv, IdsInv, CallType
    <3>2. q \in Nat /\ q < requestId + 1
      <4>1. CASE stack = <<>>
        BY <3>1, <4>1
      <4>2. CASE stack # <<>>
        BY <3>1, <4>2 DEF IInv, IdsInv, Below
      <4> QED
        BY <4>1, <4>2
    <3>3. stack' = <<q>>
      BY <2>2
    <3> HIDE DEF q
    <3>4. Len(stack') = 1 /\ stack'[1] = q
      BY <3>3
    <3>5. Below(stack', want')
      BY <2>2, <3>2, <3>4 DEF Below
    <3>6. \A i, j \in 1..Len(stack') : i < j => stack'[i] < stack'[j]
      BY <3>4
    <3> QED
      BY <1>5, <2>2, <3>1, <3>5, <3>6 DEF IdsInv
  <2> QED
    BY <1>2, <2>1, <2>2
<1>7. OrderInv'
  BY <1>1, <1>2 DEF OrderInv, Hearing, Reading, CallType
<1>8. HistoryInv'
  <2>1. /\ got'.answered = got'.asked /\ got'.asked \in Nat
        /\ got'.asked <= requestId
    BY <1>1 DEF IInv, HistoryInv, IdsInv, CallType, GotType
  <2>2. CASE pc' = "idle"
    <3>1. got'.asked # want' \/ got'.whole = FALSE
      BY <1>2, <2>2 DEF IInv, HistoryInv
    <3> QED
      BY <1>1, <1>2, <2>1, <2>2, <3>1 DEF HistoryInv, Drained, CallType
  <2>3. CASE pc' = "say"
    <3> DEFINE q == IF stack = <<>> THEN want ELSE stack[1]
    <3>1. q # got'.asked
      BY <1>1 DEF IInv, HistoryInv, IdsInv, Below, CallType
    <3>2. \A i \in 1..Len(stack') : stack'[i] # got'.asked
      <4>1. stack' = <<q>>
        BY <1>2, <2>3
      <4> HIDE DEF q
      <4> QED
        BY <3>1, <4>1
    <3> QED
      BY <1>1, <1>2, <2>1, <2>3, <3>2 DEF HistoryInv, Drained, CallType
  <2> QED
    BY <1>2, <2>2, <2>3
<1> QED
  BY <1>3, <1>4, <1>6, <1>7, <1>8 DEF IInv

(* A call that returns leaves a connection that owes nothing, or a dry one. *)
LEMMA ReturnInv ==
    ASSUME IInv, pc \in {"flds", "docs"}, Return,
           NEW whole \in BOOLEAN,
           got' = [asked |-> want, answered |-> want, whole |-> whole],
           SocketType', Framed',
           Below(queue', requestId + 1),
           Exhausted' \/ (pos' = 0 /\ queue' = <<>>),
           whole => queue' = <<>>
    PROVE  IInv'
<1>1. CallType /\ CallType' /\ GotType'
  BY ReturnEffect, TypeParts DEF IInv, CallType, GotType
<1>2. \/ /\ pc' = "say" /\ stack' = stack
         /\ want' = requestId + 1 /\ requestId' = requestId + 1
      \/ /\ pc' = "say" /\ Len(stack) > 0 /\ Len(stack') = Len(stack) - 1
         /\ want' = stack[Len(stack)] /\ requestId' = requestId
         /\ \A i \in 1..(Len(stack) - 1) : stack'[i] = stack[i]
      \/ /\ pc' = "idle" /\ stack = <<>> /\ stack' = <<>>
         /\ want' = want /\ requestId' = requestId
  BY <1>1, ReturnEffect
<1>3. StateOK'
  BY <1>1 DEF StateOK, CallType, SocketType, GotType
<1>4. SocketInv' /\ BoundaryInv'
  BY <1>2 DEF SocketInv, Framed, BoundaryInv, Aligned, Exhausted, Expected, Hearing, Reading
<1>5. Below(queue', requestId' + 1) /\ requestId' >= requestId
  <2>1. requestId \in Nat /\ requestId' \in {requestId, requestId + 1}
    BY <1>1, <1>2 DEF CallType
  <2>2. \A i \in 1..Len(queue') : queue'[i] \in Nat
    BY DEF SocketType
  <2> QED
    BY <2>1, <2>2 DEF Below
<1>6. IdsInv'
  <2>1. CASE pc' = "say" /\ want' = requestId + 1 /\ stack' = stack
             /\ requestId' = requestId + 1
    BY <1>1, <1>5, <2>1 DEF IInv, IdsInv, Below, CallType
  <2>2. CASE /\ pc' = "say" /\ Len(stack) > 0 /\ Len(stack') = Len(stack) - 1
             /\ want' = stack[Len(stack)] /\ requestId' = requestId
             /\ \A i \in 1..(Len(stack) - 1) : stack'[i] = stack[i]
    <3>1. \A i, j \in 1..Len(stack) : i < j => stack[i] < stack[j]
      BY DEF IInv, IdsInv
    <3>2. Len(stack) \in Nat /\ stack[Len(stack)] < want /\ want <= requestId
      BY <1>1, <2>2 DEF IInv, IdsInv, Below, CallType
    <3>3. \A i \in 1..Len(stack') : stack'[i] < want'
      BY <2>2, <3>1, <3>2
    <3>4. want' <= requestId'
      BY <1>1, <2>2, <3>2 DEF CallType
    <3> QED
      BY <1>5, <2>2, <3>1, <3>2, <3>3, <3>4 DEF IdsInv, Below
  <2>3. CASE pc' = "idle" /\ stack' = <<>> /\ want' = want /\ requestId' = requestId
    BY <1>1, <1>5, <2>3 DEF IInv, IdsInv, Below, CallType
  <2> QED
    BY <1>2, <2>1, <2>2, <2>3
<1>7. OrderInv'
  BY <1>1, <1>2 DEF OrderInv, Hearing, Reading, CallType, Below
<1>8. HistoryInv'
  <2>1. /\ got'.answered = got'.asked /\ got'.asked = want
        /\ want <= requestId /\ got'.whole = whole
    BY DEF IInv, IdsInv
  <2>2. CASE pc' = "idle"
    BY <1>1, <1>2, <2>1, <2>2 DEF HistoryInv, Drained, CallType
  <2>3. CASE pc' = "say"
    <3>1. /\ \A i \in 1..Len(stack) : stack[i] # want
          /\ \A i \in 1..Len(stack) : stack[i] \in Nat
      BY <1>1 DEF IInv, IdsInv, Below, CallType
    <3>2. want' # want /\ \A i \in 1..Len(stack') : stack'[i] # want
      <4>1. CASE stack' = stack /\ want' = requestId + 1
        BY <1>1, <2>1, <3>1, <4>1 DEF CallType
      <4>2. CASE /\ Len(stack) > 0 /\ Len(stack') = Len(stack) - 1
                 /\ want' = stack[Len(stack)]
                 /\ \A i \in 1..(Len(stack) - 1) : stack'[i] = stack[i]
        <5>1. Len(stack) \in Nat
          BY <1>1 DEF CallType
        <5> QED
          BY <3>1, <4>2, <5>1
      <4> QED
        BY <1>2, <2>3, <4>1, <4>2
    <3> QED
      BY <1>1, <1>2, <2>1, <2>3, <3>2 DEF HistoryInv, Drained, CallType
  <2> QED
    BY <1>2, <2>2, <2>3
<1> QED
  BY <1>3, <1>4, <1>6, <1>7, <1>8 DEF IInv

(* The connection's part of the invariant is what Framed says of it. *)
LEMMA FramedParts ==
    ASSUME IInv
    PROVE  CallType /\ SocketType /\ GotType /\ Framed
BY TypeParts DEF IInv, SocketInv, Framed

(* A closed connection satisfies everything asked of a socket. *)
LEMMA DisconnectEffect ==
    ASSUME set_disconnected, requestId \in Nat
    PROVE  SocketType' /\ Framed' /\ pos' = 0 /\ Below(queue', requestId + 1)
<1>1. SocketType' /\ pos' = 0
  <2>1. connected' \in BOOLEAN /\ eof' \in BOOLEAN
    BY Zenon DEF set_disconnected
  <2>2. queue' \in Seq(Nat) /\ pos' = 0 /\ avail' = 0
    BY DEF set_disconnected
  <2> QED
    BY <2>1, <2>2 DEF SocketType
<1>2. Framed'
  BY DEF set_disconnected, Framed
<1>3. Below(queue', requestId + 1)
  BY DEF set_disconnected, Below
<1> QED
  BY <1>1, <1>2, <1>3

(* A failure that closes the connection *)
LEMMA DisconnectCroak ==
    ASSUME IInv, pc # "idle", set_disconnected, Croak, UNCHANGED got
    PROVE  IInv'
<1>1. requestId \in Nat
  BY DEF IInv, StateOK
<1> QED
  BY <1>1, DisconnectEffect, CroakInv

(* A failure that leaves the connection as it is, where that is harmless *)
LEMMA KeepCroak ==
    ASSUME IInv, pc # "idle", Exhausted \/ pos = 0, Croak, UNCHANGED <<socket, got>>
    PROVE  IInv'
<1>1. SocketType' /\ Framed'
  BY FramedParts DEF SocketType, Framed, socket
<1>2. Exhausted' \/ pos' = 0
  BY DEF Exhausted, socket
<1>3. Below(queue', requestId + 1)
  BY DEF IInv, IdsInv, socket
<1> QED
  BY <1>1, <1>2, <1>3, CroakInv DEF socket

(* A new client, not yet connected, satisfies the invariant. *)
LEMMA InitInv == Init => IInv
<1> SUFFICES ASSUME Init PROVE IInv
  OBVIOUS
<1>1. StateOK
  <2>1. connected \in BOOLEAN /\ eof \in BOOLEAN
    BY Zenon DEF Init
  <2>2. got \in [asked : Nat, answered : Nat, whole : BOOLEAN]
    BY DEF Init
  <2>3. /\ queue \in Seq(Nat) /\ stack \in Seq(Nat)
        /\ pos = 0 /\ avail = 0 /\ requestId = 0 /\ want = 0 /\ todo = 0 /\ pings = 0
    BY DEF Init
  <2> QED
    BY <2>1, <2>2, <2>3 DEF Init, StateOK
<1>2. SocketInv /\ BoundaryInv
  BY DEF Init, SocketInv, BoundaryInv, Exhausted, Aligned, Expected, Hearing, Reading
<1>3. IdsInv /\ OrderInv
  BY DEF Init, IdsInv, OrderInv, Below, Hearing, Reading
<1>4. HistoryInv
  BY DEF Init, HistoryInv, Drained
<1> QED
  BY <1>1, <1>2, <1>3, <1>4 DEF IInv

(* A new request has the newest id, so everything owed is older. *)
LEMMA AskInv == ASSUME IInv, Ask PROVE IInv'
<1>1. StateOK'
  BY DEF IInv, StateOK, Ask, socket
<1>2. SocketInv' /\ BoundaryInv'
  BY DEF IInv, SocketInv, BoundaryInv, Ask, socket, Exhausted, Aligned, Expected,
         Hearing, Reading
<1>3. IdsInv'
  BY DEF IInv, StateOK, IdsInv, Below, Ask, socket
<1>4. OrderInv'
  BY DEF IInv, StateOK, IdsInv, OrderInv, Below, Ask, socket, Hearing, Reading
<1>5. HistoryInv'
  BY DEF IInv, StateOK, IdsInv, HistoryInv, Drained, Ask, socket
<1> QED
  BY <1>1, <1>2, <1>3, <1>4, <1>5 DEF IInv

(* Closing the connection after "not master" leaves it empty. *)
LEMMA NotMasterInv == ASSUME IInv, NotMaster PROVE IInv'
<1>1. /\ connected' = FALSE /\ eof' = FALSE
      /\ queue' = <<>> /\ pos' = 0 /\ avail' = 0
      /\ pc = "idle" /\ UNCHANGED <<call, got>>
  BY DEF NotMaster, set_disconnected
<1>2. StateOK'
  <2>1. SocketType'
    BY FramedParts, DisconnectEffect DEF NotMaster, CallType
  <2>2. CallType' /\ GotType'
    BY <1>1, FramedParts DEF CallType, GotType, call
  <2> QED
    BY <2>1, <2>2 DEF StateOK, SocketType, CallType, GotType
<1>3. SocketInv' /\ BoundaryInv'
  BY <1>1 DEF SocketInv, BoundaryInv, call, Exhausted, Aligned, Expected, Hearing, Reading
<1>4. IdsInv' /\ OrderInv'
  BY <1>1 DEF IInv, IdsInv, OrderInv, Below, call, Hearing, Reading
<1>5. HistoryInv'
  BY <1>1 DEF IInv, HistoryInv, Drained, call
<1> QED
  BY <1>2, <1>3, <1>4, <1>5 DEF IInv

(* Bytes that arrive belong to replies that are owed. *)
LEMMA DeliverInv == ASSUME IInv, Deliver PROVE IInv'
<1>1. StateOK' /\ SocketInv'
  BY DEF IInv, StateOK, SocketInv, Deliver, call
<1>2. ~Exhausted /\ ~Exhausted'
  BY DEF Deliver, Exhausted
<1>3. BoundaryInv' /\ IdsInv' /\ OrderInv' /\ HistoryInv'
  BY <1>2 DEF IInv, BoundaryInv, IdsInv, OrderInv, HistoryInv, Drained, Below,
       Deliver, call, Aligned, Expected
<1> QED
  BY <1>1, <1>3 DEF IInv

(* The peer may close at any moment. *)
LEMMA PeerCloseInv == ASSUME IInv, PeerClose PROVE IInv'
<1>1. StateOK' /\ SocketInv'
  BY DEF IInv, StateOK, SocketInv, PeerClose, call
<1>2. ~Exhausted
  BY DEF PeerClose, Exhausted
<1>3. BoundaryInv' /\ IdsInv' /\ OrderInv' /\ HistoryInv'
  BY <1>2 DEF IInv, BoundaryInv, IdsInv, OrderInv, HistoryInv, Drained, Below,
       PeerClose, call, Aligned, Expected
<1> QED
  BY <1>1, <1>3 DEF IInv

(* An unacknowledged write is over once it is sent. *)
LEMMA SaidOneWayInv ==
    ASSUME IInv, pc = "say", GiveUp, UNCHANGED <<socket, got>>
    PROVE  IInv'
<1>1. StateOK'
  BY DEF IInv, StateOK, GiveUp, socket
<1>2. SocketInv' /\ BoundaryInv'
  BY DEF IInv, SocketInv, BoundaryInv, GiveUp, socket, Exhausted, Aligned, Expected,
         Hearing, Reading
<1>3. IdsInv' /\ OrderInv'
  BY DEF IInv, IdsInv, OrderInv, Below, GiveUp, socket, Hearing, Reading
<1>4. HistoryInv'
  BY DEF IInv, HistoryInv, Drained, GiveUp, socket
<1> QED
  BY <1>1, <1>2, <1>3, <1>4 DEF IInv

(* Sending appends the newest id on the wire to what is owed. *)
LEMMA SaySentInv == ASSUME IInv, SaySent PROVE IInv'
<1>1. CASE OneWay
  BY <1>1, SaidOneWayInv DEF SaySent, Said, socket
<1>2. CASE ~OneWay
  <2>1. /\ pc = "say" /\ pc' = "select" /\ connected /\ ~eof /\ queue' = Append(queue, want)
        /\ UNCHANGED <<requestId, want, stack, todo, mode, phase, pings, connected,
                       eof, pos, avail, got>>
    BY <1>2 DEF SaySent, Said
  <2>2. /\ queue \in Seq(Nat) /\ want \in Nat /\ requestId \in Nat
        /\ avail \in Nat /\ pos \in 0..7
    BY DEF IInv, StateOK
  <2>3. /\ queue' \in Seq(Nat) /\ Len(queue') = Len(queue) + 1
        /\ \A i \in 1..Len(queue) : queue'[i] = queue[i]
        /\ queue'[Len(queue) + 1] = want
        /\ Len(queue) \in Nat
    <3>1. queue \in Seq(Nat) /\ want \in Nat
      BY <2>2
    <3>2. /\ Append(queue, want) \in Seq(Nat)
          /\ Len(Append(queue, want)) = Len(queue) + 1
          /\ \A i \in 1..Len(queue) : Append(queue, want)[i] = queue[i]
          /\ Append(queue, want)[Len(queue) + 1] = want
          /\ Len(queue) \in Nat
      BY ONLY <3>1, AppendProperties
    <3>3. queue' = Append(queue, want)
      BY <2>1
    <3> QED
      BY ONLY <3>2, <3>3, Zenon
  <2>4. StateOK'
    BY <2>1, <2>3 DEF IInv, StateOK, Hearing
  <2>5. SocketInv'
    BY <2>1, <2>2, <2>3 DEF IInv, SocketInv
  <2>6. BoundaryInv'
    BY <2>1 DEF IInv, BoundaryInv, Exhausted, Aligned, Expected
  <2>7. Below(queue, want) /\ Below(queue, requestId + 1) /\ want <= requestId
    BY <2>1 DEF IInv, OrderInv, IdsInv, Exhausted
  <2>8. \A i \in 1..Len(queue) : queue[i] < want /\ queue[i] \in Nat
    BY <2>2, <2>7 DEF Below
  <2>9. Below(queue', requestId + 1) /\ Below(queue', want + 1)
        /\ \A i \in 1..(Len(queue') - 1) : queue'[i] < want
    <3>1. ASSUME NEW i \in 1..Len(queue')
          PROVE  queue'[i] <= want /\ (i # Len(queue') => queue'[i] < want)
                 /\ queue'[i] \in Nat
      <4>1. CASE i \in 1..Len(queue)
        <5>1. queue'[i] = queue[i] /\ queue[i] < want /\ queue[i] \in Nat /\ want \in Nat
          BY <2>2, <2>3, <2>8, <4>1, Zenon
        <5> QED
          BY ONLY <5>1
      <4>2. CASE i = Len(queue) + 1
        BY <2>2, <2>3, <4>2
      <4> QED
        BY <2>3, <4>1, <4>2
    <3>2. \A i \in 1..(Len(queue') - 1) : i \in 1..Len(queue') /\ i # Len(queue')
      BY <2>3
    <3>3. \A i \in 1..Len(queue') : queue'[i] < requestId + 1 /\ queue'[i] < want + 1
      <4>1. requestId \in Nat /\ want \in Nat /\ want <= requestId
        BY <2>2, <2>7
      <4> QED
        BY ONLY <3>1, <4>1
    <3>4. \A i \in 1..(Len(queue') - 1) : queue'[i] < want
      BY <3>1, <3>2
    <3> QED
      BY <3>3, <3>4 DEF Below
  <2>10. IdsInv'
    BY <2>1, <2>9 DEF IInv, IdsInv, Below
  <2>11. OrderInv'
    BY <2>1, <2>9 DEF OrderInv, Below
  <2>12. HistoryInv'
    BY <2>1 DEF IInv, HistoryInv, Drained
  <2> QED
    BY <2>4, <2>5, <2>6, <2>10, <2>11, <2>12 DEF IInv
<1> QED
  BY <1>1, <1>2

(* Sending to a peer that is gone leaves the stream as it was. *)
LEMMA SayLostInv == ASSUME IInv, SayLost PROVE IInv'
<1>1. CASE OneWay
  BY <1>1, SaidOneWayInv DEF SayLost, Said
<1>2. CASE ~OneWay
  <2>1. /\ pc = "say" /\ pc' = "select" /\ connected /\ eof
        /\ UNCHANGED <<requestId, want, stack, todo, mode, phase, pings, connected,
                       eof, queue, pos, avail, got>>
    BY <1>2 DEF SayLost, Said, socket
  <2>2. StateOK' /\ SocketInv'
    BY <2>1 DEF IInv, StateOK, SocketInv, Hearing
  <2>3. BoundaryInv' /\ IdsInv' /\ HistoryInv'
    BY <2>1 DEF IInv, BoundaryInv, IdsInv, HistoryInv, Drained, Below, Exhausted, Aligned, Expected
  <2>4. OrderInv'
    BY <2>1 DEF IInv, StateOK, OrderInv, Below, Exhausted
  <2> QED
    BY <2>2, <2>3, <2>4 DEF IInv
<1> QED
  BY <1>1, <1>2

(* connect starts on an empty stream with a newer id on top. *)
LEMMA SayReconnectInv == ASSUME IInv, SayReconnect PROVE IInv'
<1>1. /\ pc = "say" /\ pc' = "say" /\ ~connected /\ connected'
      /\ requestId' = requestId + 1 /\ want' = requestId + 1
      /\ stack' = Append(stack, want) /\ todo' = SetupCommands - 1
      /\ UNCHANGED <<eof, queue, pos, avail, mode, phase, pings, got>>
  BY DEF SayReconnect, Command
<1>2. queue = <<>> /\ pos = 0 /\ avail = 0 /\ ~eof
  BY <1>1 DEF IInv, SocketInv
<1>3. /\ stack \in Seq(Nat) /\ want \in Nat /\ requestId \in Nat /\ want <= requestId
      /\ todo' \in Nat
  BY <1>1, LinkAssumption DEF IInv, StateOK, IdsInv
<1>4. /\ stack' \in Seq(Nat) /\ Len(stack') = Len(stack) + 1
      /\ \A i \in 1..Len(stack) : stack'[i] = stack[i] /\ stack[i] \in Nat
      /\ stack'[Len(stack) + 1] = want
      /\ Len(stack) \in Nat
  BY <1>1, <1>3
<1>5. StateOK'
  BY <1>1, <1>3, <1>4 DEF IInv, StateOK
<1>6. SocketInv' /\ BoundaryInv'
  BY <1>1, <1>2 DEF SocketInv, BoundaryInv, Exhausted, Aligned, Expected
<1>7. IdsInv'
  <2>1. Below(stack, want) /\ \A i, j \in 1..Len(stack) : i < j => stack[i] < stack[j]
    BY <1>1 DEF IInv, IdsInv
  <2>2. Below(stack', want')
    BY <1>1, <1>3, <1>4, <2>1 DEF Below
  <2>3. ASSUME NEW i \in 1..Len(stack'), NEW j \in 1..Len(stack'), i < j
        PROVE  stack'[i] < stack'[j]
    <3>1. i \in 1..Len(stack) /\ (j \in 1..Len(stack) \/ j = Len(stack) + 1)
      BY <1>4, <2>3
    <3> QED
      BY <1>4, <2>1, <2>3, <3>1 DEF Below
  <2> QED
    BY <1>1, <1>2, <1>3, <2>2, <2>3 DEF IdsInv, Below
<1>8. OrderInv'
  BY <1>1, <1>2 DEF OrderInv, Below, Hearing, Reading
<1>9. HistoryInv'
  <2>1. \A i \in 1..Len(stack') : stack'[i] # got.asked
    BY <1>1, <1>4 DEF IInv, HistoryInv
  <2> QED
    BY <1>1, <1>3, <2>1 DEF IInv, StateOK, HistoryInv, Drained
<1> QED
  BY <1>5, <1>6, <1>7, <1>8, <1>9 DEF IInv

(* Every way mongo_link_say can end. *)
LEMMA SayInv == ASSUME IInv, Say PROVE IInv'
<1>1. CASE SayFailed
  BY <1>1, DisconnectCroak DEF SayFailed
<1>2. CASE SayUnreachable
  <2>1. pos = 0
    BY <1>2 DEF SayUnreachable, IInv, SocketInv
  <2> QED
    BY <1>2, <2>1, KeepCroak DEF SayUnreachable
<1> QED
  BY <1>1, <1>2, SaySentInv, SayLostInv, SayReconnectInv DEF Say

(* While a call waits or reads and the stream is not dry, the code is at   *)
(* the part it expects.                                                    *)
LEMMA AtPart ==
    ASSUME IInv, pc # "idle", ~Exhausted
    PROVE  pos = Expected(pc)
BY DEF IInv, BoundaryInv, Aligned

(* Reading a part of a message and going on inside hear.  What has to be   *)
(* shown of the target is its position and what it knows of the message.   *)
LEMMA ReceiveGoto ==
    ASSUME IInv, pc \in Reading, Receive, NEW p \in Reading, Goto(p), UNCHANGED got,
           pos' = Expected(p),
           p \in {"skip", "skipdocs"} => queue'[1] < want,
           p \in {"flds", "docs"} => queue'[1] = want
    PROVE  IInv'
<1>1. CallType /\ SocketType /\ GotType /\ Framed
  BY FramedParts
<1>2. /\ SocketType' /\ Framed' /\ avail > 0 /\ Len(queue) > 0
      /\ connected' = connected /\ eof' = eof
      /\ \/ /\ Len(queue') = Len(queue) - 1
            /\ \A i \in 1..Len(queue') : queue'[i] = queue[i + 1]
         \/ queue' = queue
  BY <1>1, ReceiveEffect
<1>3. /\ pc' = p
      /\ UNCHANGED <<requestId, want, stack, todo, mode, phase, pings, got>>
  BY DEF Goto
<1>4. StateOK'
  BY <1>1, <1>2, <1>3 DEF StateOK, CallType, SocketType, GotType, Hearing
<1>5. connected /\ connected'
  BY <1>2 DEF IInv, SocketInv, Hearing
<1>6. SocketInv'
  BY <1>2, <1>5 DEF SocketInv, Framed
<1>7. BoundaryInv'
  BY <1>3 DEF BoundaryInv, Aligned, Expected
<1>8. ~Exhausted
  BY <1>1, <1>2 DEF Exhausted, SocketType
<1>9. /\ \A i \in 1..Len(queue) : queue[i] <= want /\ queue[i] \in Nat
      /\ \A i \in 1..(Len(queue) - 1) : queue[i] < want
      /\ Len(queue) \in Nat /\ Len(queue') \in Nat /\ want \in Nat
      /\ requestId \in Nat /\ want <= requestId
  <2>1. /\ queue \in Seq(Nat) /\ Len(queue) \in Nat /\ Len(queue') \in Nat
        /\ want \in Nat /\ requestId \in Nat /\ want <= requestId
    BY <1>1, <1>2 DEF SocketType, CallType, IInv, IdsInv
  <2>2. /\ Below(queue, want + 1)
        /\ \A i \in 1..(Len(queue) - 1) : queue[i] < want
    BY <1>8 DEF IInv, OrderInv, Hearing
  <2>3. \A i \in 1..Len(queue) : queue[i] <= want /\ queue[i] \in Nat
    BY ONLY <2>1, <2>2 DEF Below
  <2> QED
    BY <2>1, <2>2, <2>3
<1>10. ASSUME NEW i \in 1..Len(queue')
       PROVE  queue'[i] <= want /\ queue'[i] \in Nat
              /\ (i # Len(queue') => queue'[i] < want)
  <2>1. CASE queue' = queue
    BY <1>9, <2>1
  <2>2. CASE /\ Len(queue') = Len(queue) - 1
             /\ \A k \in 1..Len(queue') : queue'[k] = queue[k + 1]
    <3>1. i + 1 \in 1..Len(queue) /\ (i # Len(queue') => i + 1 \in 1..(Len(queue) - 1))
      BY <1>9, <2>2
    <3> QED
      BY <1>9, <2>2, <3>1
  <2> QED
    BY <1>2, <2>1, <2>2
<1>11. /\ Below(queue', requestId + 1) /\ Below(queue', want + 1)
       /\ \A i \in 1..(Len(queue') - 1) : queue'[i] < want
  <2>1. \A i \in 1..Len(queue') : queue'[i] < requestId + 1 /\ queue'[i] < want + 1
    BY <1>9, <1>10
  <2>2. \A i \in 1..(Len(queue') - 1) : i \in 1..Len(queue') /\ i # Len(queue')
    BY <1>9
  <2> QED
    BY <1>10, <2>1, <2>2 DEF Below
<1>12. IdsInv'
  BY <1>3, <1>11 DEF IInv, IdsInv, Below, Reading
<1>13. OrderInv'
  BY <1>3, <1>11 DEF OrderInv, Below, Reading
<1>14. HistoryInv'
  BY <1>3 DEF IInv, HistoryInv, Drained, Reading
<1> QED
  BY <1>4, <1>6, <1>7, <1>12, <1>13, <1>14 DEF IInv

(* Going on inside hear without reading anything *)
LEMMA KeepGoto ==
    ASSUME IInv, pc \in Hearing, Goto("len"), UNCHANGED <<socket, got>>,
           Exhausted \/ pos = 0
    PROVE  IInv'
<1>1. /\ pc' = "len"
      /\ UNCHANGED <<requestId, want, stack, todo, mode, phase, pings, connected,
                     eof, queue, pos, avail, got>>
  BY DEF Goto, socket
<1>2. StateOK' /\ SocketInv'
  BY <1>1 DEF IInv, StateOK, SocketInv, Hearing, Reading
<1>3. BoundaryInv'
  BY <1>1 DEF BoundaryInv, Exhausted, Aligned, Expected
<1>4. IdsInv' /\ HistoryInv'
  BY <1>1 DEF IInv, IdsInv, HistoryInv, Drained, Below, Hearing, Reading
<1>5. OrderInv'
  BY <1>1 DEF IInv, OrderInv, Below, Exhausted, Hearing, Reading
<1> QED
  BY <1>2, <1>3, <1>4, <1>5 DEF IInv

(* A peer that has closed: what had arrived is read, and nothing is left.  *)
LEMMA ShortEffect ==
    ASSUME IInv, pc \in Reading, eof, Short
    PROVE  /\ SocketType' /\ Framed' /\ Exhausted'
           /\ connected' = connected /\ connected
           /\ queue' = queue /\ pos' \in {pos, pos + 1}
           /\ Below(queue', requestId + 1)
<1>1. SocketType /\ Framed
  BY FramedParts
<1>2. avail \in {0, 1} /\ Take(avail) /\ avail \in 0..2
  BY <1>1 DEF Short, SocketType
<1>3. /\ SocketType' /\ Framed' /\ avail' = avail - avail
      /\ connected' = connected /\ eof' = eof
      /\ \/ pos + avail >= 8
         \/ pos' = pos + avail /\ queue' = queue
  BY <1>1, <1>2, TakeEffect
<1>4. avail' = 0 /\ Exhausted'
  BY <1>2, <1>3 DEF Exhausted
<1>5. pos + avail < 8
  <2>1. CASE avail = 0
    BY <1>1, <2>1 DEF SocketType
  <2>2. CASE avail = 1
    BY <2>2 DEF IInv, BoundaryInv, Exhausted, Aligned, Expected
  <2> QED
    BY <1>2, <2>1, <2>2
<1>6. pos \in 0..7
  BY <1>1 DEF SocketType
<1>7. pos' = pos + avail /\ queue' = queue
  BY <1>2, <1>3, <1>5, <1>6
<1>8. connected
  BY DEF IInv, SocketInv, Hearing
<1>9. Below(queue', requestId + 1)
  BY <1>7 DEF IInv, IdsInv, Below
<1> QED
  BY <1>2, <1>3, <1>4, <1>6, <1>7, <1>8, <1>9

(* The call dies on a stream that has run dry. *)
LEMMA ShortCroak ==
    ASSUME IInv, pc \in Reading, eof, Short, Croak, UNCHANGED got
    PROVE  IInv'
<1>1. pc # "idle"
  BY DEF Reading
<1> QED
  BY <1>1, ShortEffect, CroakInv

(* The call goes on, on a stream that has run dry. *)
LEMMA ShortGoto ==
    ASSUME IInv, pc \in Reading, eof, Short, UNCHANGED got,
           NEW p \in {"len", "skipdocs", "docs"}, Goto(p),
           p = "docs" => pc = "flds"
    PROVE  IInv'
<1>1. /\ pc' = p
      /\ UNCHANGED <<requestId, want, stack, todo, mode, phase, pings, got>>
  BY DEF Goto
<1>2. /\ SocketType' /\ Framed' /\ Exhausted' /\ connected'
      /\ queue' = queue /\ pos' \in {pos, pos + 1}
  BY ShortEffect
<1>3. StateOK'
  BY <1>1, <1>2, FramedParts DEF StateOK, CallType, SocketType, GotType, Hearing, Reading
<1>4. SocketInv'
  BY <1>2 DEF SocketInv, Framed
<1>5. BoundaryInv'
  BY <1>1, <1>2 DEF IInv, BoundaryInv, Aligned, Expected
<1>6. IdsInv'
  BY <1>1, <1>2 DEF IInv, IdsInv, Below, Reading
<1>7. HistoryInv'
  BY <1>1 DEF IInv, HistoryInv, Drained, Reading
<1>8. OrderInv'
  BY <1>1, <1>2 DEF IInv, OrderInv
<1> QED
  BY <1>3, <1>4, <1>5, <1>6, <1>7, <1>8 DEF IInv

(* Before a call goes astray, a short receive means that the peer closed.  *)
LEMMA ShortAtEof == ASSUME ~Strays, pc \in Reading \ {"len"}, Short PROVE eof /\ ~Silent
BY DEF Strays, Short, Silent

(* A receive that gets its bytes finds them in place. *)
LEMMA ReceiveInPlace ==
    ASSUME IInv, pc # "idle", NEW n \in 1..2, Take(n)
    PROVE  ~Exhausted /\ Aligned /\ pos = Expected(pc)
<1>1. ~Exhausted
  BY DEF IInv, StateOK, Take, Exhausted
<1> QED
  BY <1>1, AtPart DEF IInv, BoundaryInv

(* The wait before the header neither reads nor loses anything. *)
LEMMA SelectInv == ASSUME IInv, SelectReady \/ SelectTimeout PROVE IInv'
<1>1. pc = "select" /\ (Exhausted \/ pos = 0)
  BY AtPart DEF SelectReady, SelectTimeout, Expected
<1>2. CASE SelectReady
  BY <1>1, <1>2, KeepGoto DEF SelectReady, Hearing
<1>3. CASE SelectTimeout
  BY <1>1, <1>3, KeepCroak DEF SelectTimeout
<1> QED
  BY <1>2, <1>3

(* get_header reads a length, or closes the connection. *)
LEMMA ReadLengthInv == ASSUME IInv, ReadLength PROVE IInv'
<1>1. pc = "len" /\ pc \in Reading /\ UNCHANGED got
  BY DEF ReadLength, Reading
<1>2. CASE set_disconnected /\ Croak
  BY <1>1, <1>2, DisconnectCroak
<1>3. CASE Receive /\ Goto("hdr")
  <2>2. pos = 0
    BY <1>1, <1>3, ReceiveInPlace DEF Expected, Receive
  <2>3. pos' = Expected("hdr") /\ "hdr" \in Reading
    BY <1>3, <2>2 DEF Receive, Take, Expected, Reading
  <2> QED
    BY <1>1, <1>3, <2>3, ReceiveGoto
<1> QED
  BY <1>2, <1>3 DEF ReadLength

(* The reply that has arrived is never newer than the request waited for. *)
LEMMA HeadNotNewer ==
    ASSUME IInv, pc = "hdr", avail > 0
    PROVE  queue # <<>> /\ queue[1] <= want /\ Head(queue) = queue[1] /\ queue[1] \in Nat
<1>1. ~Exhausted
  BY DEF Exhausted, IInv, StateOK
<1>2. queue \in Seq(Nat) /\ Len(queue) \in Nat /\ want \in Nat /\ queue # <<>>
      /\ 1 \in 1..Len(queue)
  BY DEF IInv, StateOK, SocketInv
<1>3. queue[1] < want + 1
  BY <1>1, <1>2 DEF IInv, OrderInv, Below, Hearing, Reading
<1> QED
  BY <1>2, <1>3

(* The reply is the awaited one, or an older one to throw out. *)
LEMMA ReadHeaderInv == ASSUME IInv, ~Strays, ReadHeader PROVE IInv'
<1>1. pc = "hdr" /\ pc \in Reading \ {"len"} /\ UNCHANGED got /\ Aligned
  BY DEF ReadHeader, Reading, IInv, BoundaryInv
<1>2. CASE Short /\ Croak
  BY <1>1, <1>2, ShortAtEof, ShortCroak
<1>3. CASE Receive /\ Match(Head(queue))
  <2>0. avail > 0
    BY <1>3 DEF Receive, Take, IInv, StateOK
  <2>1. queue[1] <= want /\ Head(queue) = queue[1] /\ queue[1] \in Nat
    BY <1>1, <2>0, HeadNotNewer
  <2>2. want \in Nat
    BY DEF IInv, StateOK
  <2>3. pos' = 4 /\ queue' = queue
    BY <1>1, <1>3 DEF Receive, Take, Aligned, Expected
  <2>4. CASE Head(queue) = want /\ Goto("flds")
    <3>1. pos' = Expected("flds") /\ "flds" \in Reading
      BY <2>3 DEF Expected, Reading
    <3> QED
      BY <1>1, <1>3, <2>1, <2>3, <2>4, <3>1, ReceiveGoto
  <2>5. CASE Head(queue) < want /\ Goto("skip")
    <3>1. pos' = Expected("skip") /\ "skip" \in Reading
      BY <2>3 DEF Expected, Reading
    <3> QED
      BY <1>1, <1>3, <2>1, <2>3, <2>5, <3>1, ReceiveGoto
  <2> QED
    BY <1>3, <2>1, <2>2, <2>4, <2>5 DEF Match
<1> QED
  BY <1>1, <1>2, <1>3 DEF ReadHeader

(* Throwing out an older reply: its fields. *)
LEMMA SkipFieldsInv == ASSUME IInv, ~Strays, SkipFields PROVE IInv'
<1>1. pc = "skip" /\ pc \in Reading \ {"len"} /\ UNCHANGED got
  BY DEF SkipFields, Reading
<1>2. CASE Receive /\ Goto("skipdocs")
  <2>1. ~Exhausted /\ pos = 4
    BY <1>1, <1>2, ReceiveInPlace DEF Receive, Expected
  <2>2. pos' = 6 /\ queue' = queue
    BY <1>2, <2>1 DEF Receive, Take
  <2>3. pos' = Expected("skipdocs") /\ "skipdocs" \in Reading
    BY <2>2 DEF Expected, Reading
  <2>4. queue'[1] < want
    BY <1>1, <2>1, <2>2 DEF IInv, OrderInv
  <2> QED
    BY <1>1, <1>2, <2>3, <2>4, ReceiveGoto
<1>3. CASE Short /\ Goto("skipdocs")
  BY <1>1, <1>3, ShortAtEof, ShortGoto
<1>4. ~(Silent /\ Short)
  BY <1>1, ShortAtEof
<1> QED
  BY <1>2, <1>3, <1>4 DEF SkipFields

(* Throwing out an older reply: its documents, up to the boundary. *)
LEMMA SkipDocumentsInv == ASSUME IInv, ~Strays, SkipDocuments PROVE IInv'
<1>1. pc = "skipdocs" /\ pc \in Reading \ {"len"} /\ UNCHANGED got
  BY DEF SkipDocuments, Reading
<1>2. CASE Receive /\ Goto("len")
  <2>1. pos = 6
    BY <1>1, <1>2, ReceiveInPlace DEF Receive, Expected
  <2>2. pos' = Expected("len") /\ "len" \in Reading
    BY <1>2, <2>1 DEF Receive, Take, Expected, Reading
  <2> QED
    BY <1>1, <1>2, <2>2, ReceiveGoto
<1>3. CASE Short /\ Goto("len")
  BY <1>1, <1>3, ShortAtEof, ShortGoto
<1>4. ~(~eof /\ Short)
  BY <1>1, ShortAtEof
<1>5. ~(~Aligned /\ Take(1))
  BY <1>1, ReceiveInPlace DEF Reading
<1> QED
  BY <1>2, <1>3, <1>4, <1>5 DEF SkipDocuments

(* The reply hear is about to return answers the request it asked. *)
LEMMA HeadWanted ==
    ASSUME IInv, pc \in {"flds", "docs"}
    PROVE  /\ queue # <<>> /\ queue \in Seq(Nat)
           /\ Head(queue) = want /\ queue[1] = want /\ pos \in 4..6
<1>1. queue[1] = want /\ queue \in Seq(Nat)
  BY DEF IInv, OrderInv, StateOK
<1>2. pos \in 4..6
  BY DEF IInv, BoundaryInv, Aligned, Expected
<1>3. queue # <<>>
  BY <1>1, <1>2 DEF IInv, SocketInv
<1> QED
  BY <1>1, <1>2, <1>3

(* The peer closed in the middle of the reply, and hear returns. *)
LEMMA AcceptDry ==
    ASSUME IInv, pc = "docs", eof, Short, Accept(FALSE)
    PROVE  IInv'
<1>1. got' = [asked |-> want, answered |-> want, whole |-> FALSE]
  <2>1. pos > 3 /\ Head(queue) = want
    BY HeadWanted
  <2> QED
    BY <2>1 DEF Accept
<1>2. SocketType' /\ Framed' /\ Exhausted' /\ Below(queue', requestId + 1)
  BY ShortEffect DEF Reading
<1>4. CASE Return
  BY <1>1, <1>2, <1>4, ReturnInv
<1>5. CASE stack # <<>> /\ Croak
  BY <1>1, <1>2, <1>5, CroakInv
<1> QED
  BY <1>4, <1>5 DEF Accept

(* Reading the fields of the awaited reply. *)
LEMMA ReadFieldsInv == ASSUME IInv, ~Strays, ReadFields PROVE IInv'
<1>1. pc = "flds" /\ pc \in Reading \ {"len"} /\ Aligned /\ UNCHANGED got
  BY DEF ReadFields, Reading, IInv, BoundaryInv
<1>2. CASE Receive /\ Goto("docs")
  <2>1. pos' = 6 /\ queue' = queue
    BY <1>1, <1>2 DEF Receive, Take, Aligned, Expected
  <2>2. pos' = Expected("docs") /\ "docs" \in Reading
    BY <2>1 DEF Expected, Reading
  <2> QED
    BY <1>1, <1>2, <2>1, <2>2, HeadWanted, ReceiveGoto
<1>3. CASE Short /\ Goto("docs")
  BY <1>1, <1>3, ShortAtEof, ShortGoto
<1>4. CASE Short /\ Croak
  BY <1>1, <1>4, ShortAtEof, ShortCroak
<1> QED
  BY <1>1, <1>2, <1>3, <1>4 DEF ReadFields

(* A reply being read that answers the request is the last one owed. *)
LEMMA WantedIsLast ==
    ASSUME IInv, pc \in {"flds", "docs"}, avail > 0
    PROVE  Len(queue) = 1 /\ Tail(queue) = <<>>
<1>1. ~Exhausted /\ pc \in Hearing
  BY DEF Exhausted, IInv, StateOK, Hearing, Reading
<1>2. queue \in Seq(Nat) /\ queue # <<>> /\ queue[1] = want /\ want \in Nat
  BY HeadWanted DEF IInv, StateOK
<1>3. \A i \in 1..(Len(queue) - 1) : queue[i] < want
  BY <1>1 DEF IInv, OrderInv
<1>4. Len(queue) \in Nat /\ Len(queue) > 0
  BY <1>2
<1>5. Len(queue) = 1
  <2>1. Len(queue) > 1 => queue[1] < want
    BY <1>3, <1>4
  <2>2. ~(Len(queue) > 1)
    BY <1>2, <2>1
  <2>3. \A n \in Nat : n > 0 /\ ~(n > 1) => n = 1
    OBVIOUS
  <2> QED
    BY <1>4, <2>2, <2>3, Zenon
<1>6. Len(Tail(queue)) = 0 /\ Tail(queue) \in Seq(Nat)
  BY <1>2, <1>5, HeadTailProperties
<1> QED
  BY <1>5, <1>6, EmptySeq

(* A "cursor not found" reply is read to its end before the croak. *)
LEMMA CursorNotFoundInv == ASSUME IInv, CursorNotFound PROVE IInv'
<1>1. /\ pc = "flds" /\ Aligned /\ avail > 1 /\ pos' = 0
      /\ avail' = IF avail > 4 THEN avail - 4 ELSE 0
      /\ queue' = Tail(queue) /\ Croak /\ UNCHANGED <<connected, eof, got>>
  BY DEF CursorNotFound
<1>2. Len(queue) = 1 /\ queue' = <<>>
  BY <1>1, WantedIsLast DEF IInv, StateOK
<1>3. avail' = 0 /\ pos = 4
  BY <1>1, <1>2 DEF IInv, StateOK, SocketInv, Aligned, Expected
<1>4. connected /\ connected'
  BY <1>1 DEF IInv, SocketInv, Hearing, Reading
<1>5. SocketType' /\ Framed'
  <2>1. connected' \in BOOLEAN /\ eof' \in BOOLEAN
    BY <1>1, FramedParts DEF SocketType
  <2>2. queue' \in Seq(Nat) /\ Len(queue') = 0
    BY <1>2
  <2> QED
    BY <1>1, <1>3, <1>4, <2>1, <2>2 DEF SocketType, Framed
<1>6. Below(queue', requestId + 1)
  BY <1>2 DEF Below
<1> QED
  BY <1>1, <1>5, <1>6, CroakInv

(* Reading the last part of the awaited reply, the last one owed. *)
LEMMA ReadDocumentsInv == ASSUME IInv, ~Strays, ReadDocuments PROVE IInv'
<1>1. pc = "docs" /\ pc \in Reading \ {"len"}
  BY DEF ReadDocuments, Reading
<1>2. CASE Receive /\ Accept(Aligned)
  <2>1. Aligned /\ pos = 6 /\ avail > 0
    <3>1. Aligned /\ pos = Expected(pc)
      BY <1>1, <1>2, ReceiveInPlace DEF Receive, Reading
    <3>2. avail > 0
      BY <1>2 DEF Receive, Take, IInv, StateOK
    <3>3. pc = "docs" /\ Expected("docs") = 6
      BY <1>1 DEF Expected
    <3> QED
      BY ONLY <3>1, <3>2, <3>3
  <2>2. queue' = <<>> /\ pos' = 0
    <3>1. Tail(queue) = <<>>
      BY <1>1, <2>1, WantedIsLast
    <3>2. pos = 6 /\ Receive /\ SocketType /\ Framed
      BY <1>2, <2>1, FramedParts
    <3>3. pos' = 0 /\ queue' = Tail(queue)
      BY ONLY <3>2, ReceiveEffect
    <3> QED
      BY ONLY <3>1, <3>3, Zenon
  <2>3. SocketType' /\ Framed'
    BY <1>2, FramedParts, ReceiveEffect
  <2>4. Return
    BY <1>2, <2>1 DEF Accept
  <2>5. got' = [asked |-> want, answered |-> want, whole |-> TRUE]
    <3>1. got' = [asked |-> want, answered |-> Head(queue), whole |-> Aligned]
      BY <1>2, <2>1 DEF Accept
    <3>2. Aligned = TRUE
      BY <2>1 DEF Aligned
    <3> QED
      BY <1>1, <3>1, <3>2, HeadWanted
  <2>6. Below(queue', requestId + 1)
    BY <2>2 DEF Below
  <2> QED
    BY <1>1, <2>2, <2>3, <2>4, <2>5, <2>6, ReturnInv
<1>3. CASE Short /\ Accept(FALSE)
  BY <1>1, <1>3, ShortAtEof, AcceptDry
<1>4. ~(~eof /\ Short)
  BY <1>1, ShortAtEof
<1>5. ~(~Aligned /\ Take(1))
  BY <1>1, ReceiveInPlace DEF Reading
<1> QED
  BY <1>1, <1>2, <1>3, <1>4, <1>5 DEF ReadDocuments

(* Every step of mongo_link_hear. *)
LEMMA HearInv == ASSUME IInv, ~Strays, Hear PROVE IInv'
BY SelectInv, ReadLengthInv, ReadHeaderInv, SkipFieldsInv, SkipDocumentsInv,
   ReadFieldsInv, CursorNotFoundInv, ReadDocumentsInv DEF Hear

(* A step that changes nothing. *)
LEMMA StutterInv == ASSUME IInv, UNCHANGED vars PROVE IInv'
<1>1. StateOK' /\ SocketInv'
  BY DEF IInv, StateOK, SocketInv, vars
<1>2. BoundaryInv' /\ IdsInv'
  BY DEF IInv, BoundaryInv, IdsInv, Below, vars, Exhausted, Aligned, Expected
<1>3. OrderInv' /\ HistoryInv'
  BY DEF IInv, OrderInv, HistoryInv, Drained, Below, vars, Exhausted
<1> QED
  BY <1>1, <1>2, <1>3 DEF IInv

(* No step of the driver, of the server or of the network breaks the       *)
(* invariant, as long as no receive inside a message comes up short.       *)
LEMMA StepInv == ASSUME astray \/ IInv, [Next]_vars PROVE astray' \/ IInv'
<1>1. CASE astray
  BY <1>1, Zenon DEF Next, Run, vars
<1>2. CASE IInv /\ UNCHANGED vars
  BY <1>2, StutterInv
<1>3. CASE IInv /\ Say
  BY <1>3, SayInv
<1>4. CASE IInv /\ Hear /\ ~Strays
  BY <1>4, HearInv
<1>5. CASE Hear /\ astray' = (astray \/ Strays) /\ Strays
  BY <1>5, Zenon
<1>6. CASE IInv /\ (Ask \/ NotMaster \/ Deliver \/ PeerClose)
  BY <1>6, AskInv, NotMasterInv, DeliverInv, PeerCloseInv
<1> QED
  BY <1>1, <1>2, <1>3, <1>4, <1>5, <1>6, Zenon DEF Next, Run

(* The inductive invariant of the connection, until a receive inside a     *)
(* message comes up short and leaves the connection open there.            *)
THEOREM LinkInvariant == Spec => [](astray \/ IInv)
<1>1. (astray \/ IInv) /\ [Next]_vars => (astray \/ IInv)'
  BY StepInv
<1>2. Init => astray \/ IInv
  BY InitInv
<1> QED
  BY <1>1, <1>2, PTL DEF Spec

-----------------------------------------------------------------------------
(* What holds also after a receive inside a message has come up short: the *)
(* types, and the frame of the socket.                                     *)
SafeInv == StateOK /\ SocketInv

LEMMA SafeParts ==
    ASSUME SafeInv
    PROVE  CallType /\ SocketType /\ GotType /\ Framed
BY TypeParts DEF SafeInv, SocketInv, Framed

(* A call that does not wait needs no open connection. *)
LEMMA QuietSafe ==
    ASSUME CallType', pc' \in {"idle", "say"}, SocketType', Framed', GotType'
    PROVE  SafeInv'
<1>1. StateOK'
  BY DEF StateOK, CallType, SocketType, GotType
<1>2. SocketInv'
  BY DEF SocketInv, Framed, Hearing, Reading
<1> QED
  BY <1>1, <1>2 DEF SafeInv

(* An exception, or a return, ends in a call that is not waiting. *)
LEMMA UnwindSafe ==
    ASSUME SafeInv, Croak \/ Return, SocketType', Framed', GotType'
    PROVE  SafeInv'
<1>1. CallType
  BY SafeParts
<1>2. CallType' /\ pc' \in {"idle", "say"}
  BY <1>1, CroakEffect, ReturnEffect
<1> QED
  BY <1>2, QuietSafe

(* A call goes on waiting on a connection that is open. *)
LEMMA GotoSafe ==
    ASSUME SafeInv, NEW p \in Hearing, Goto(p), connected',
           SocketType', Framed', UNCHANGED got
    PROVE  SafeInv'
<1>1. CallType' /\ GotType'
  BY SafeParts DEF CallType, GotType, Goto
<1>2. StateOK'
  BY <1>1 DEF StateOK, CallType, SocketType, GotType
<1>3. SocketInv'
  BY DEF SocketInv, Framed
<1> QED
  BY <1>2, <1>3 DEF SafeInv

(* A socket nobody touches keeps its frame. *)
LEMMA SocketKept ==
    ASSUME SafeInv, UNCHANGED socket
    PROVE  SocketType' /\ Framed' /\ connected' = connected
BY SafeParts DEF SocketType, Framed, socket

(* A call that waits or reads does so on an open connection. *)
LEMMA WaitsOpen == ASSUME SafeInv, pc \in Hearing PROVE connected
BY DEF SafeInv, SocketInv

(* A failure that closes the connection *)
LEMMA ClosedSafe ==
    ASSUME SafeInv, set_disconnected, Croak, UNCHANGED got PROVE SafeInv'
<1>1. SocketType' /\ Framed'
  BY SafeParts, DisconnectEffect DEF CallType
<1>2. GotType'
  BY SafeParts DEF GotType
<1> QED
  BY <1>1, <1>2, UnwindSafe

(* A failure that leaves the connection as it is *)
LEMMA KeptSafe ==
    ASSUME SafeInv, UNCHANGED <<socket, got>>, Croak \/ Return PROVE SafeInv'
<1>1. SocketType' /\ Framed'
  BY SocketKept
<1>2. GotType'
  BY SafeParts DEF GotType
<1> QED
  BY <1>1, <1>2, UnwindSafe

(* Every step of mongo_link_say *)
LEMMA SaySafe == ASSUME SafeInv, Say PROVE SafeInv'
<1>0. CallType /\ SocketType /\ GotType /\ Framed
  BY SafeParts
<1>1. ASSUME connected, Said, UNCHANGED got, SocketType', Framed', connected'
      PROVE  SafeInv'
  <2>1. CASE GiveUp
    BY <1>1, <2>1, UnwindSafe DEF Croak, GotType, SafeInv, StateOK
  <2>2. CASE Goto("select")
    BY <1>1, <2>2, GotoSafe DEF Hearing
  <2> QED
    BY <1>1, <2>1, <2>2 DEF Said, Goto
<1>2. CASE SaySent
  <2>1. /\ connected /\ connected' /\ Said /\ UNCHANGED <<connected, eof, pos, avail, got>>
        /\ queue' = queue \/ queue' = Append(queue, want)
    BY <1>2 DEF SaySent
  <2>2. /\ queue' \in Seq(Nat) /\ Len(queue') >= Len(queue)
        /\ Len(queue) \in Nat /\ Len(queue') \in Nat
    <3>1. queue \in Seq(Nat) /\ want \in Nat /\ Len(queue) \in Nat
      BY <1>0 DEF SocketType, CallType
    <3>2. /\ Append(queue, want) \in Seq(Nat)
          /\ Len(Append(queue, want)) = Len(queue) + 1
      BY <3>1, AppendProperties
    <3> QED
      BY <2>1, <3>1, <3>2
  <2>3. SocketType' /\ Framed'
    BY <1>0, <2>1, <2>2 DEF SocketType, Framed
  <2> QED
    BY <1>1, <2>1, <2>3
<1>3. CASE SayLost
  BY <1>1, <1>3, SocketKept DEF SayLost
<1>4. CASE SayFailed
  BY <1>4, ClosedSafe DEF SayFailed
<1>5. CASE SayReconnect
  <2>1. /\ connected' = TRUE /\ Command(Append(stack, want))
        /\ todo' = SetupCommands - 1
        /\ UNCHANGED <<eof, queue, pos, avail, mode, phase, pings, got>>
    BY <1>5 DEF SayReconnect
  <2>2. SetupCommands - 1 \in Nat
    BY LinkAssumption
  <2>3. CallType' /\ pc' = "say"
    BY <1>0, <2>1, <2>2 DEF CallType, Command
  <2>4. SocketType' /\ Framed'
    BY <1>0, <2>1 DEF SocketType, Framed
  <2>5. GotType'
    BY <1>0, <2>1 DEF GotType
  <2> QED
    BY <2>3, <2>4, <2>5, QuietSafe
<1>6. CASE SayUnreachable
  BY <1>6, KeptSafe DEF SayUnreachable
<1> QED
  BY <1>2, <1>3, <1>4, <1>5, <1>6 DEF Say

(* What the receiver calls leave, and where the call goes from there *)
LEMMA ReceiveSafe ==
    ASSUME SafeInv, pc \in Hearing, Receive \/ Short \/ Take(1)
    PROVE  SocketType' /\ Framed' /\ connected'
<1>1. SocketType /\ Framed /\ connected
  BY SafeParts, WaitsOpen
<1>2. \E n \in 0..2 : Take(n)
  BY <1>1 DEF Receive, Short, SocketType
<1> QED
  BY <1>1, <1>2, TakeEffect

(* hear returns what it has read, whole or not. *)
LEMMA AcceptSafe ==
    ASSUME SafeInv, pc \in {"flds", "docs"}, NEW w \in BOOLEAN, Accept(w),
           SocketType', Framed'
    PROVE  SafeInv'
<1>1. want \in Nat /\ queue \in Seq(Nat)
  BY SafeParts DEF CallType, SocketType
<1>2. (IF pos > 3 THEN Head(queue) ELSE 0) \in Nat
  <2>1. CASE pos > 3
    <3>0. SocketType /\ Framed
      BY SafeParts
    <3>1. Len(queue) > 0
      BY ONLY <2>1, <3>0 DEF Framed, SocketType
    <3>2. Head(queue) \in Nat
      BY ONLY <1>1, <3>1
    <3> QED
      BY ONLY <2>1, <3>2, Zenon
  <2> QED
    BY <2>1
<1>3. GotType'
  BY <1>1, <1>2 DEF Accept, GotType
<1> QED
  BY <1>3, UnwindSafe DEF Accept

(* Every step of mongo_link_hear *)
LEMMA HearSafe == ASSUME SafeInv, Hear PROVE SafeInv'
<1>0. CallType /\ SocketType /\ GotType /\ Framed
  BY SafeParts
<1>1. ASSUME UNCHANGED <<socket, got>>, pc \in Hearing, NEW p \in Hearing, Goto(p)
      PROVE  SafeInv'
  BY <1>1, SocketKept, WaitsOpen, GotoSafe
<1>2. ASSUME Receive \/ Short \/ Take(1), UNCHANGED got, pc \in Hearing,
             Croak \/ \E p \in Hearing : Goto(p)
      PROVE  SafeInv'
  <2>1. SocketType' /\ Framed' /\ connected' /\ GotType'
    BY <1>0, <1>2, ReceiveSafe DEF GotType
  <2> QED
    BY <1>2, <2>1, UnwindSafe, GotoSafe
<1>3. {"len", "hdr", "skip", "skipdocs", "flds", "docs", "select"} \subseteq Hearing
  BY DEF Hearing, Reading
<1>4. CASE SelectReady
  BY <1>1, <1>3, <1>4 DEF SelectReady
<1>5. CASE SelectTimeout
  BY <1>5, KeptSafe DEF SelectTimeout
<1>6. CASE ReadLength
  BY <1>2, <1>3, <1>6, ClosedSafe DEF ReadLength
<1>7. CASE ReadHeader
  <2>1. pc \in Hearing /\ UNCHANGED got /\ (Receive \/ Short)
    BY <1>3, <1>7 DEF ReadHeader
  <2>2. Croak \/ Goto("flds") \/ Goto("skip")
    BY <1>7 DEF ReadHeader, Match
  <2> QED
    BY <1>2, <1>3, <2>1, <2>2
<1>8. CASE SkipFields
  BY <1>2, <1>3, <1>8 DEF SkipFields
<1>9. CASE SkipDocuments
  BY <1>2, <1>3, <1>9 DEF SkipDocuments
<1>10. CASE ReadFields
  BY <1>2, <1>3, <1>10 DEF ReadFields
<1>11. CASE CursorNotFound
  <2>1. /\ pos = 4 /\ avail > 1 /\ pos' = 0
        /\ avail' = IF avail > 4 THEN avail - 4 ELSE 0
        /\ queue' = Tail(queue) /\ Croak /\ UNCHANGED <<connected, eof, got>>
    BY <1>11 DEF CursorNotFound, Aligned, Expected
  <2>2. /\ queue \in Seq(Nat) /\ Len(queue) \in Nat /\ Len(queue) > 0
        /\ avail \in Nat /\ avail <= 8 * Len(queue) - 4
    BY <1>0, <2>1 DEF SocketType, Framed
  <2>3. queue' \in Seq(Nat) /\ Len(queue') = Len(queue) - 1
    BY <2>1, <2>2, HeadTailProperties
  <2>4. connected
    BY <1>3, <1>11, WaitsOpen DEF CursorNotFound
  <2>5. avail' \in Nat /\ avail' <= 8 * Len(queue') - pos'
    BY ONLY <2>1, <2>2, <2>3
  <2>6. SocketType' /\ Framed'
    BY <1>0, <2>1, <2>3, <2>4, <2>5 DEF SocketType, Framed
  <2> QED
    BY <1>0, <2>1, <2>6, UnwindSafe DEF GotType
<1>12. CASE ReadDocuments
  <2>1. pc \in Hearing /\ (Receive \/ Short \/ Take(1))
    BY <1>3, <1>12 DEF ReadDocuments
  <2>2. CASE Accept(Aligned) \/ Accept(FALSE)
    <3>1. SocketType' /\ Framed'
      BY <2>1, ReceiveSafe
    <3> QED
      BY <1>12, <2>2, <3>1, AcceptSafe DEF ReadDocuments, Aligned
  <2>3. CASE UNCHANGED got /\ (Croak \/ Goto("docs"))
    BY <1>2, <1>3, <2>1, <2>3
  <2> QED
    BY <1>12, <2>2, <2>3 DEF ReadDocuments
<1> QED
  BY <1>4, <1>5, <1>6, <1>7, <1>8, <1>9, <1>10, <1>11, <1>12 DEF Hear

(* The steps between calls, and those of the peer *)
LEMMA OtherSafe ==
    ASSUME SafeInv, Ask \/ NotMaster \/ Deliver \/ PeerClose \/ UNCHANGED vars
    PROVE  SafeInv'
<1>0. CallType /\ SocketType /\ GotType /\ Framed
  BY SafeParts
<1>1. CASE Ask
  BY <1>1, SocketKept, QuietSafe DEF Ask, CallType, GotType, SafeInv, StateOK
<1>2. CASE NotMaster
  <2>1. SocketType' /\ Framed'
    BY <1>0, <1>2, DisconnectEffect DEF NotMaster, CallType
  <2>2. CallType' /\ GotType' /\ pc' = "idle"
    BY <1>0, <1>2 DEF NotMaster, CallType, GotType, call
  <2> QED
    BY <2>1, <2>2, QuietSafe
<1>3. CASE Deliver
  BY <1>3 DEF SafeInv, StateOK, SocketInv, Deliver, call
<1>4. CASE PeerClose
  BY <1>4 DEF SafeInv, StateOK, SocketInv, PeerClose, call
<1>5. CASE UNCHANGED vars
  BY <1>5 DEF SafeInv, StateOK, SocketInv, vars
<1> QED
  BY <1>1, <1>2, <1>3, <1>4, <1>5

(* The state is well typed whatever interleaving of late replies, failed   *)
(* receives, lost connections and retries occurs.                          *)
THEOREM LinkTypeCorrect == Spec => []TypeOK
<1>1. Init => SafeInv /\ astray \in BOOLEAN
  BY InitInv DEF Init, IInv, SafeInv
<1>2. SafeInv /\ astray \in BOOLEAN /\ [Next]_vars
      => (SafeInv /\ astray \in BOOLEAN)'
  <2> SUFFICES ASSUME SafeInv, astray \in BOOLEAN, [Next]_vars
               PROVE  SafeInv' /\ astray' \in BOOLEAN
    OBVIOUS
  <2>1. SafeInv'
    BY SaySafe, HearSafe, OtherSafe DEF Next, Run
  <2>2. astray' \in BOOLEAN
    BY Zenon DEF Next, Run, vars
  <2> QED
    BY <2>1, <2>2
<1>3. SafeInv /\ astray \in BOOLEAN => TypeOK
  BY DEF SafeInv, TypeOK
<1> QED
  BY <1>1, <1>2, <1>3, PTL DEF Spec

(* A call that waits for a reply does so on an open connection, also when  *)
(* the bytes it reads are not the ones it takes them for.                  *)
THEOREM LinkHearConnected == Spec => []HearConnected
<1>1. Init => SafeInv
  BY InitInv DEF IInv, SafeInv
<1>2. SafeInv /\ [Next]_vars => SafeInv'
  BY SaySafe, HearSafe, OtherSafe DEF Next, Run
<1>3. SafeInv => HearConnected
  BY WaitsOpen DEF HearConnected
<1> QED
  BY <1>1, <1>2, <1>3, PTL DEF Spec

-----------------------------------------------------------------------------
(* mongo_link_hear only ever returns the reply to the request its caller   *)
(* sent, however many requests timed out before it on the connection.      *)
THEOREM LinkReplyMatches == Spec => []ReplyMatches
<1>1. (astray \/ IInv) => ReplyMatches
  BY DEF IInv, HistoryInv, ReplyMatches
<1> QED
  BY <1>1, LinkInvariant, PTL

(* The "missed the response we wanted" exit of mongo_link_hear is dead     *)
(* code on a connection whose receives do not come up short in a message.  *)
THEOREM LinkNeverMissed == Spec => []NeverMissed
<1>1. (astray \/ IInv) => NeverMissed
  BY HeadNotNewer DEF NeverMissed
<1> QED
  BY <1>1, LinkInvariant, PTL

(* Wherever the stream is cut and whatever else fails, only a receive      *)
(* inside a message that comes up short on an open connection makes the    *)
(* driver take bytes for what they are not.                                *)
THEOREM LinkNoCrazyData == Spec => []NoCrazyData
<1>1. (astray \/ IInv) => NoCrazyData
  BY DEF IInv, StateOK, BoundaryInv, NoCrazyData, Exhausted
<1> QED
  BY <1>1, LinkInvariant, PTL

(* A call that returns its reply leaves a connection that owes nothing. *)
THEOREM LinkNoBacklog == Spec => []NoBacklog
<1>1. (astray \/ IInv) => NoBacklog
  BY DEF IInv, HistoryInv, NoBacklog
<1> QED
  BY <1>1, LinkInvariant, PTL
=============================================================================
