-------------------------- MODULE TunnelSlotProofs --------------------------
(***************************************************************************)
(* Custody and Content of TunnelSlot are inductive, and what follows.       *)
(*                                                                         *)
(* Custody says in whose hands each slot is.                                *)
(* The argument has one lemma per kind of step a slot can take (SlotFrame   *)
(* .. ReadySent): what the step does to the slot's variables is stated as   *)
(* hypotheses, and the slot's invariant SlotInv is shown to survive.        *)
(* SlotActions and CallActions then show that each action is such a step    *)
(* for the slot it acts on, and leaves every other slot alone.              *)
(*                                                                         *)
(* Content, in the second half, says what the frames on a slot are: whose,  *)
(* in which order, and how many.  RequestStep takes it through every step   *)
(* for the frames to the Agent, ResponseStep for those to the Gateway, and  *)
(* CallStep for what the two ends of a call have counted and been told.     *)
(***************************************************************************)
EXTENDS TunnelSlot, SequenceTheorems, TLAPS

USE ConstantsAssumption

-----------------------------------------------------------------------------
(* Facts about the queues and the idle stack.                               *)

\* What taking the first frame of a queue leaves.
LEMMA PopFacts ==
  ASSUME NEW q \in Seq(Frame), q # <<>>
  PROVE  /\ Tail(q) \in Seq(Frame) /\ Head(q) \in Frame /\ Head(q) = q[1]
         /\ DOMAIN q = 1 .. Len(q) /\ Len(q) \in Nat \ {0}
         /\ DOMAIN Tail(q) = 1 .. (Len(q) - 1)
         /\ \A i \in 1 .. (Len(q) - 1) : Tail(q)[i] = q[i + 1]
BY HeadTailProperties, LenProperties, ElementOfSeq, EmptySeq

\* What appending a frame adds.
LEMMA PushFacts ==
  ASSUME NEW q \in Seq(Frame), NEW f \in Frame
  PROVE  /\ Append(q, f) \in Seq(Frame)
         /\ DOMAIN q = 1 .. Len(q) /\ Len(q) \in Nat
         /\ DOMAIN Append(q, f) = 1 .. (Len(q) + 1)
         /\ \A i \in 1 .. Len(q) : Append(q, f)[i] = q[i]
         /\ Append(q, f)[Len(q) + 1] = f
BY AppendProperties, LenProperties

\* The frames the two sides build, and the call a frame names.
LEMMA FrameFacts ==
  /\ Ready \in Frame
  /\ \A c \in Calls, k \in {"headers", "data", "big", "end", "cancel"} :
       Msg(k, c) \in Frame /\ Msg(k, c).k = k /\ Msg(k, c).c = c
  /\ \A f \in Frame : /\ f.k # "ready" => f.c \in Calls
                       /\ f.k \in {"ready", "headers", "data", "big", "end", "cancel"}
BY DEF Frame, Ready, Msg

\* Two pieces of the idle stack put together.
LEMMA ConcatFacts ==
  ASSUME NEW front \in Seq(Slots), NEW back \in Seq(Slots)
  PROVE  /\ front \o back \in Seq(Slots) /\ Len(front \o back) = Len(front) + Len(back)
         /\ \A k \in 1 .. Len(front) : (front \o back)[k] = front[k]
         /\ \A k \in 1 .. Len(back) : (front \o back)[k + Len(front)] = back[k]
<1>1. /\ front \o back \in Seq(Slots) /\ Len(front \o back) = Len(front) + Len(back)
      /\ \A k \in 1 .. Len(front) : (front \o back)[k] = front[k]
  BY SMT
<1>2. \A k \in 1 .. Len(back) : (front \o back)[k + Len(front)] = back[k]
  BY ConcatProperties
<1> QED BY <1>1, <1>2

\* The idle stack without its n-th entry.
LEMMA SpliceFacts ==
  ASSUME NEW seq \in Seq(Slots), NEW n \in 1 .. Len(seq),
         NEW front \in Seq(Slots), Len(front) = n - 1,
         \A k \in 1 .. (n - 1) : front[k] = seq[k],
         NEW back \in Seq(Slots), Len(back) = Len(seq) - n,
         \A k \in 1 .. (Len(seq) - n) : back[k] = seq[n + k]
  PROVE  /\ front \o back \in Seq(Slots)
         /\ DOMAIN (front \o back) = 1 .. (Len(seq) - 1)
         /\ \A k \in 1 .. (Len(seq) - 1) :
              (front \o back)[k] = seq[IF k < n THEN k ELSE k + 1]
<1>1. /\ front \o back \in Seq(Slots) /\ Len(front \o back) = Len(front) + Len(back)
      /\ \A k \in 1 .. Len(front) : (front \o back)[k] = front[k]
      /\ \A k \in 1 .. Len(back) : (front \o back)[k + Len(front)] = back[k]
  BY ConcatFacts, Zenon
<1>3. Len(seq) \in Nat /\ n \in Nat \ {0} /\ n <= Len(seq)
  BY LenProperties
<1>4. ASSUME NEW r \in Seq(Slots), r = front \o back
      PROVE  /\ DOMAIN r = 1 .. (Len(seq) - 1)
             /\ \A k \in 1 .. (Len(seq) - 1) : r[k] = seq[IF k < n THEN k ELSE k + 1]
  <2>1. Len(r) = Len(seq) - 1
    <3>1. Len(r) = Len(front) + Len(back)
      BY <1>1, <1>4, Zenon
    <3> QED BY <1>3, <3>1
  <2>2. DOMAIN r = 1 .. (Len(seq) - 1)
    BY <2>1, LenProperties
  <2>3. ASSUME NEW k \in 1 .. (Len(seq) - 1), k < n PROVE r[k] = seq[k]
    BY <1>1, <1>3, <1>4, <2>3
  <2>4. ASSUME NEW k \in 1 .. (Len(seq) - 1), ~(k < n) PROVE r[k] = seq[k + 1]
    <3>1. k - Len(front) \in 1 .. Len(back) /\ k = (k - Len(front)) + Len(front)
      BY <1>3, <2>4
    <3>2. r[(k - Len(front)) + Len(front)] = back[k - Len(front)]
      BY <1>1, <1>4, <3>1
    <3>3. n + (k - Len(front)) = k + 1 /\ k - Len(front) \in 1 .. (Len(seq) - n)
      BY <1>3, <2>4
    <3>4. back[k - Len(front)] = seq[n + (k - Len(front))]
      BY <3>3
    <3> QED BY <3>1, <3>2, <3>3, <3>4
  <2> QED BY <2>2, <2>3, <2>4
<1> QED BY <1>1, <1>4
\* node.unpark takes one slot out of a stack that lists it once, and leaves
\* the others, each still once.
LEMMA UnparkFacts ==
  ASSUME NEW seq \in Seq(Slots), NEW s \in Slots,
         \A i, j \in DOMAIN seq : seq[i] = seq[j] => i = j
  PROVE  /\ Unpark(seq, s) \in Seq(Slots)
         /\ \A k \in DOMAIN Unpark(seq, s) :
              Unpark(seq, s)[k] # s /\ \E j \in DOMAIN seq : Unpark(seq, s)[k] = seq[j]
         /\ \A k, l \in DOMAIN Unpark(seq, s) :
              Unpark(seq, s)[k] = Unpark(seq, s)[l] => k = l
<1>1. CASE \E i \in DOMAIN seq : seq[i] = s
  <2> DEFINE First(i) == seq[i] = s /\ \A j \in DOMAIN seq : seq[j] = s => i <= j
             n == CHOOSE i \in DOMAIN seq : First(i)
             front == SubSeq(seq, 1, n - 1)
             back == SubSeq(seq, n + 1, Len(seq))
  <2>1. Unpark(seq, s) = front \o back
    BY <1>1 DEF Unpark
  <2>2. \E j \in DOMAIN seq : First(j)
    BY <1>1
  <2>3. n \in 1 .. Len(seq) /\ seq[n] = s
    BY <2>2
  <2>4. /\ front \in Seq(Slots) /\ Len(front) = n - 1
        /\ \A k \in 1 .. (n - 1) : front[k] = seq[k]
    BY <2>3
  <2>5. /\ back \in Seq(Slots) /\ Len(back) = Len(seq) - n
        /\ \A k \in 1 .. (Len(seq) - n) : back[k] = seq[n + k]
    BY <2>3
  <2> DEFINE r == Unpark(seq, s)
             from(k) == IF k < n THEN k ELSE k + 1
  <2> HIDE DEF n, front, back, r
  <2>6. /\ r \in Seq(Slots) /\ DOMAIN r = 1 .. (Len(seq) - 1)
        /\ \A k \in 1 .. (Len(seq) - 1) : r[k] = seq[from(k)]
    <3>1. /\ front \o back \in Seq(Slots) /\ DOMAIN (front \o back) = 1 .. (Len(seq) - 1)
          /\ \A k \in 1 .. (Len(seq) - 1) : (front \o back)[k] = seq[from(k)]
      BY <2>3, <2>4, <2>5, SpliceFacts
    <3> HIDE DEF from
    <3> QED BY <2>1, <3>1, Zenon DEF r
  <2>7. Len(seq) \in Nat /\ DOMAIN seq = 1 .. Len(seq)
    BY LenProperties
  <2>8. \A k \in 1 .. (Len(seq) - 1) : from(k) \in DOMAIN seq /\ from(k) # n
    BY <2>3, <2>7
  <2>9. \A k, l \in 1 .. (Len(seq) - 1) : from(k) = from(l) => k = l
    BY <2>3, <2>7
  <2> HIDE DEF from
  <2>10. n \in DOMAIN seq
    BY <2>3, <2>7
  <2>11. /\ \A k \in DOMAIN r : r[k] # s /\ \E j \in DOMAIN seq : r[k] = seq[j]
         /\ \A k, l \in DOMAIN r : r[k] = r[l] => k = l
    BY <2>3, <2>6, <2>8, <2>9, <2>10, Zenon
  <2> QED BY <2>6, <2>11 DEF r
<1>2. CASE ~ \E i \in DOMAIN seq : seq[i] = s
  BY <1>2 DEF Unpark
<1> QED BY <1>1, <1>2

-----------------------------------------------------------------------------
(* Typing.                                                                  *)

\* slot.close and the return of Serve keep every type they touch.
LEMMA CloseSlotType ==
  ASSUME TypeOK, IdleShape, NEW s \in Slots, CloseSlot(s)
  PROVE  /\ dead' \in [Slots -> BOOLEAN] /\ parked' \in [Slots -> BOOLEAN]
         /\ cur' \in [Slots -> CallOrNone] /\ idle' \in Seq(Slots)
         /\ aborted' \in [Calls -> BOOLEAN]
<1> USE DEF CloseSlot, TypeOK, GatewayType, CallType
<1>1. dead' \in [Slots -> BOOLEAN] /\ parked' \in [Slots -> BOOLEAN]
  OBVIOUS
<1>2. cur' \in [Slots -> CallOrNone]
  BY DEF CallOrNone
<1>3. idle' \in Seq(Slots)
  BY UnparkFacts DEF IdleShape
<1>4. aborted' \in [Calls -> BOOLEAN]
  BY Zenon
<1> QED BY <1>1, <1>2, <1>3, <1>4

\* The return of Serve keeps the types of the stream and of its goroutine.
LEMMA ServeReturnsType ==
  ASSUME TypeOK, NEW s \in Slots, ServeReturns(s)
  PROVE  /\ gpc' \in [Slots -> {"none", "parking", "read", "gone"}]
         /\ stream' \in [Slots -> {"none", "open", "cut", "ended"}]
         /\ toGw' \in [Slots -> Seq(Frame)]
BY EmptySeq DEF ServeReturns, EndStream, TypeOK, GatewayType, WireType

\* A dispatch that gives up: its call is closed, the other calls are as before.
LEMMA GivesUpType ==
  ASSUME CallType, NEW c \in Calls, EndCall(c, "retry"), UNCHANGED <<slotOf, sent, got>>,
         aborted' \in [Calls -> BOOLEAN]
  PROVE  CallType'
<1>1. cst' = [cst EXCEPT ![c] = "closed"] /\ outcome' = [outcome EXCEPT ![c] = "retry"]
  BY DEF EndCall
<1>2. /\ cst' \in [Calls -> {"new", "taken", "hdr", "body", "open", "closing", "closed"}]
      /\ outcome' \in [Calls -> {"none", "backpressure", "retry", "ok", "err",
                                 "cancelled", "aborted"}]
  BY <1>1 DEF CallType
<1>3. \A d \in Calls : /\ cst'[d] \in Holding => slotOf'[d] \in Slots
                       /\ cst'[d] = "new" => slotOf'[d] = NoSlot
  BY <1>1 DEF CallType, Holding
<1>4. /\ slotOf' \in [Calls -> Slots \cup {NoSlot}]
      /\ sent' \in [Calls -> Nat] /\ got' \in [Calls -> Nat]
  BY DEF CallType
<1> QED BY <1>2, <1>3, <1>4, Zenon DEF CallType

\* Every step keeps the types of the wire.
LEMMA WireTypeStep ==
  ASSUME TypeOK, IdleShape, [Next]_vars PROVE WireType'
<1> USE DEF TypeOK, WireType, CallType, Holding, wire, gwv, callv, agv
<1>1. ASSUME NEW s \in Slots, ServeFirst(s) PROVE WireType'
  BY <1>1, PopFacts, PushFacts, FrameFacts DEF ServeFirst
<1>2. ASSUME NEW s \in Slots, ParkOffer(s) PROVE WireType'
  <2>1. CASE ServeReturns(s) BY <1>2, <2>1, ServeReturnsType DEF ParkOffer
  <2>2. CASE ~ServeReturns(s) BY <1>2, <2>2 DEF ParkOffer
  <2> QED BY <2>1, <2>2
<1>3. ASSUME NEW s \in Slots, ReadReady(s) PROVE WireType'
  <2>1. CASE cur[s] # NoCall \/ dead[s]
    BY <1>3, <2>1, ServeReturnsType DEF ReadReady
  <2>2. CASE ~(cur[s] # NoCall \/ dead[s])
    <3>1. Tail(toGw[s]) \in Seq(Frame)
      BY <1>3, PopFacts DEF ReadReady
    <3>2. toGw' = [toGw EXCEPT ![s] = Tail(@)] /\ UNCHANGED <<stream, toAg>>
      BY <1>3, <2>2 DEF ReadReady
    <3> QED BY <3>1, <3>2
  <2> QED BY <2>1, <2>2
<1>4. ASSUME NEW s \in Slots, RouteIdle(s) PROVE WireType'
  BY <1>4, ServeReturnsType DEF RouteIdle
<1>5. ASSUME NEW s \in Slots, RouteDrop(s) PROVE WireType'
  BY <1>5, PopFacts, PushFacts, FrameFacts DEF RouteDrop, CallOrNone
<1>6. ASSUME NEW s \in Slots, RouteTooLarge(s) PROVE WireType'
  BY <1>6, ServeReturnsType DEF RouteTooLarge
<1>7. ASSUME NEW s \in Slots, StreamEnds(s) PROVE WireType'
  BY <1>7, ServeReturnsType DEF StreamEnds
<1>8. ASSUME NEW s \in Slots, CloseDrained(s) PROVE WireType'
  BY <1>8, PopFacts, PushFacts, FrameFacts DEF CloseDrained, CloseSlot
<1>9. ASSUME NEW s \in Slots, NetworkCut(s) PROVE WireType'
  BY <1>9, PopFacts, PushFacts, FrameFacts DEF NetworkCut, CutStream
<1>10. ASSUME NEW s \in Slots, PoolRetire(s) PROVE WireType'
  BY <1>10, PopFacts, PushFacts, FrameFacts DEF PoolRetire, CutStream, CancelActive
<1>11. ASSUME NEW s \in Slots, OpenSlot(s) PROVE WireType'
  BY <1>11, PushFacts, FrameFacts DEF OpenSlot
<1>12. ASSUME NEW s \in Slots, RecvHeaders(s) PROVE WireType'
  <2>1. Head(toAg[s]) \in Frame /\ Head(toAg[s]).c \in Calls /\ Tail(toAg[s]) \in Seq(Frame)
    BY <1>12, PopFacts, FrameFacts DEF RecvHeaders
  <2>2. CASE active[s] # NoCall
    <3> DEFINE f == Msg("end", Head(toAg[s]).c)
    <3>1. f \in Frame
      BY <2>1, FrameFacts
    <3>2. Append(toGw[s], f) \in Seq(Frame)
      BY <3>1, PushFacts
    <3>3. toGw' = [toGw EXCEPT ![s] = IF stream[s] = "open" THEN Append(@, f) ELSE @]
      BY <1>12, <2>2 DEF RecvHeaders
    <3> HIDE DEF f
    <3>4. toGw' \in [Slots -> Seq(Frame)]
      BY <3>2, <3>3
    <3>5. stream' = CutStream(s) /\ toAg' = [toAg EXCEPT ![s] = <<>>]
      BY <1>12, <2>2 DEF RecvHeaders, StopLoop
    <3> QED BY <3>4, <3>5, EmptySeq DEF CutStream
  <2>3. CASE active[s] = NoCall
    <3>1. toAg' = [toAg EXCEPT ![s] = Tail(@)] /\ UNCHANGED <<stream, toGw>>
      BY <1>12, <2>3 DEF RecvHeaders
    <3> QED BY <2>1, <3>1
  <2> QED BY <2>2, <2>3
<1>13. ASSUME NEW s \in Slots, RecvData(s) PROVE WireType'
  BY <1>13, PopFacts, PushFacts, FrameFacts DEF RecvData, AgentTakes
<1>14. ASSUME NEW s \in Slots, RecvEnd(s) PROVE WireType'
  BY <1>14, PopFacts, PushFacts, FrameFacts DEF RecvEnd, AgentTakes
<1>15. ASSUME NEW s \in Slots, RecvCancel(s) PROVE WireType'
  BY <1>15, PopFacts, PushFacts, FrameFacts DEF RecvCancel, AgentTakes, CancelActive
<1>16. ASSUME NEW s \in Slots, RecvErr(s) PROVE WireType'
  BY <1>16, PopFacts, PushFacts, FrameFacts DEF RecvErr, CancelActive, StopLoop
<1>17. ASSUME NEW s \in Slots, RunReturns(s) PROVE WireType'
  BY <1>17, PopFacts, PushFacts, FrameFacts DEF RunReturns
<1>18. ASSUME NEW s \in Slots, SinkData(s) PROVE WireType'
  <2>1. hreq[s] \in Calls
    BY <1>18 DEF SinkData, AgentType
  <2>2. Msg(IF hreq[s] \in BigCalls THEN "big" ELSE "data", hreq[s]) \in Frame
    BY <2>1, FrameFacts
  <2> QED BY <1>18, <2>2, PushFacts DEF SinkData
<1>19. ASSUME NEW s \in Slots, HandlerReturn(s) PROVE WireType'
  BY <1>19, PopFacts, PushFacts, FrameFacts DEF HandlerReturn, CallOrNone
<1>20. ASSUME NEW s \in Slots, SendRespEnd(s) PROVE WireType'
  <2>1. Msg("end", hreq[s]) \in Frame
    BY <1>20, FrameFacts DEF SendRespEnd, AgentType
  <2>2. Append(toGw[s], Msg("end", hreq[s])) \in Seq(Frame)
    BY <2>1, PushFacts
  <2>3. CASE stream[s] = "open"
    <3>1. toGw' = [toGw EXCEPT ![s] = Append(toGw[s], Msg("end", hreq[s]))] /\ UNCHANGED <<stream, toAg>>
      BY <1>20, <2>3 DEF SendRespEnd
    <3> QED BY <2>2, <3>1
  <2>4. CASE stream[s] # "open"
    BY <1>20, <2>4 DEF SendRespEnd
  <2> QED BY <2>3, <2>4
<1>21. ASSUME NEW s \in Slots, Retire(s) PROVE WireType'
  BY <1>21, PopFacts, PushFacts, FrameFacts DEF Retire, CutStream
<1>22. ASSUME NEW s \in Slots, Park(s) PROVE WireType'
  <2>2. Append(toGw[s], Ready) \in Seq(Frame)
    BY FrameFacts, PushFacts
  <2>3. CASE stream[s] = "open"
    <3>1. toGw' = [toGw EXCEPT ![s] = Append(toGw[s], Ready)] /\ UNCHANGED <<stream, toAg>>
      BY <1>22, <2>3 DEF Park
    <3> QED BY <2>2, <3>1
  <2>4. CASE stream[s] # "open"
    BY <1>22, <2>4 DEF Park
  <2> QED BY <2>3, <2>4
<1>23. ASSUME NEW c \in Calls, Acquire(c) PROVE WireType'
  BY <1>23, PopFacts, PushFacts, FrameFacts DEF Acquire, EndCall
<1>24. ASSUME NEW c \in Calls, Begin(c) PROVE WireType'
  BY <1>24, PopFacts, PushFacts, FrameFacts DEF Begin, CloseSlot, EndCall, CallOrNone
<1>25. ASSUME NEW c \in Calls, SendHeaders(c) PROVE WireType'
  BY <1>25, PopFacts, PushFacts, FrameFacts DEF SendHeaders, SendOk, Msg, Frame
<1>26. ASSUME NEW c \in Calls, SendChunk(c) PROVE WireType'
  BY <1>26, PopFacts, PushFacts, FrameFacts DEF SendChunk, SendOk, Msg, Frame
<1>27. ASSUME NEW c \in Calls, SendEnd(c) PROVE WireType'
  BY <1>27, PopFacts, PushFacts, FrameFacts DEF SendEnd, SendOk, Msg, Frame
<1>28. ASSUME NEW c \in Calls, DispatchFails(c) PROVE WireType'
  BY <1>28, PopFacts, PushFacts, FrameFacts DEF DispatchFails, CloseSlot, EndCall
<1>29. ASSUME NEW c \in Calls, Recv(c) PROVE WireType'
  BY <1>29, PopFacts, PushFacts, FrameFacts DEF Recv, EndCall, Frame, CallOrNone
<1>30. ASSUME NEW c \in Calls, RecvFails(c) PROVE WireType'
  BY <1>30, PopFacts, PushFacts, FrameFacts DEF RecvFails
<1>31. ASSUME NEW c \in Calls, CloseResponse(c) PROVE WireType'
  BY <1>31, PopFacts, PushFacts, FrameFacts DEF CloseResponse, Msg, Frame
<1>32. CASE NodeDrain BY <1>32 DEF NodeDrain
<1>33. CASE ControlReconnects BY <1>33 DEF ControlReconnects
<1>34. CASE UNCHANGED vars BY <1>34 DEF vars
<1> QED
  BY <1>1, <1>2, <1>3, <1>4, <1>5, <1>6, <1>7, <1>8, <1>9, <1>10, <1>11, <1>12, <1>13, <1>14, <1>15, <1>16, <1>17, <1>18, <1>19, <1>20, <1>21, <1>22, <1>23, <1>24, <1>25, <1>26, <1>27, <1>28, <1>29, <1>30, <1>31, <1>32, <1>33, <1>34
  DEF Next, Reader, Dispatch, Response, AgentLoop, HandlerStep

\* Every step keeps the types of the Gateway.
LEMMA GatewayTypeStep ==
  ASSUME TypeOK, IdleShape, [Next]_vars PROVE GatewayType'
<1> USE DEF TypeOK, GatewayType, wire, gwv, callv, agv
<1>1. ASSUME NEW s \in Slots, ServeFirst(s) PROVE GatewayType'
  BY <1>1 DEF ServeFirst
<1>2. ASSUME NEW s \in Slots, ParkOffer(s) PROVE GatewayType'
  <2>1. CASE draining
    <3>1. ServeReturns(s) /\ CloseSlot(s) /\ UNCHANGED <<draining, closing, faulted>>
      BY <1>2, <2>1 DEF ParkOffer, ServeReturns
    <3>2. gpc' \in [Slots -> {"none", "parking", "read", "gone"}]
      BY <3>1, ServeReturnsType
    <3>3. /\ dead' \in [Slots -> BOOLEAN] /\ parked' \in [Slots -> BOOLEAN]
          /\ cur' \in [Slots -> CallOrNone] /\ idle' \in Seq(Slots)
      BY <3>1, CloseSlotType
    <3> QED BY <3>1, <3>2, <3>3
  <2>2. CASE ~draining
    <3>1. /\ idle' = Append(idle, s) /\ gpc' = [gpc EXCEPT ![s] = "read"]
          /\ UNCHANGED <<parked, dead, cur, draining, closing, faulted>>
      BY <1>2, <2>2 DEF ParkOffer
    <3>2. Append(idle, s) \in Seq(Slots)
      BY AppendProperties
    <3> QED BY <3>1, <3>2
  <2> QED BY <2>1, <2>2
<1>3. ASSUME NEW s \in Slots, ReadReady(s) PROVE GatewayType'
  <2>1. CASE ServeReturns(s) BY <1>3, <2>1, ServeReturnsType, CloseSlotType DEF ReadReady, ServeReturns
  <2>2. CASE ~ServeReturns(s) BY <1>3, <2>2 DEF ReadReady
  <2> QED BY <2>1, <2>2
<1>4. ASSUME NEW s \in Slots, RouteIdle(s) PROVE GatewayType'
  BY <1>4, ServeReturnsType, CloseSlotType DEF RouteIdle, ServeReturns
<1>5. ASSUME NEW s \in Slots, RouteDrop(s) PROVE GatewayType'
  BY <1>5 DEF RouteDrop, CallOrNone
<1>6. ASSUME NEW s \in Slots, RouteTooLarge(s) PROVE GatewayType'
  BY <1>6, ServeReturnsType, CloseSlotType DEF RouteTooLarge, ServeReturns
<1>7. ASSUME NEW s \in Slots, StreamEnds(s) PROVE GatewayType'
  BY <1>7, ServeReturnsType, CloseSlotType DEF StreamEnds, ServeReturns
<1>8. ASSUME NEW s \in Slots, CloseDrained(s) PROVE GatewayType'
  BY <1>8, CloseSlotType DEF CloseDrained
<1>9. ASSUME NEW s \in Slots, NetworkCut(s) PROVE GatewayType'
  BY <1>9 DEF NetworkCut, CutStream
<1>10. ASSUME NEW s \in Slots, PoolRetire(s) PROVE GatewayType'
  BY <1>10 DEF PoolRetire, CutStream, CancelActive
<1>11. ASSUME NEW s \in Slots, OpenSlot(s) PROVE GatewayType'
  BY <1>11 DEF OpenSlot, Ready, Frame
<1>12. ASSUME NEW s \in Slots, RecvHeaders(s) PROVE GatewayType'
  BY <1>12 DEF RecvHeaders, CancelActive, StopLoop, CutStream, Msg, Frame, CallOrNone
<1>13. ASSUME NEW s \in Slots, RecvData(s) PROVE GatewayType'
  BY <1>13 DEF RecvData, AgentTakes
<1>14. ASSUME NEW s \in Slots, RecvEnd(s) PROVE GatewayType'
  BY <1>14 DEF RecvEnd, AgentTakes
<1>15. ASSUME NEW s \in Slots, RecvCancel(s) PROVE GatewayType'
  BY <1>15 DEF RecvCancel, AgentTakes, CancelActive
<1>16. ASSUME NEW s \in Slots, RecvErr(s) PROVE GatewayType'
  BY <1>16 DEF RecvErr, CancelActive, StopLoop
<1>17. ASSUME NEW s \in Slots, RunReturns(s) PROVE GatewayType'
  BY <1>17 DEF RunReturns
<1>18. ASSUME NEW s \in Slots, SinkData(s) PROVE GatewayType'
  BY <1>18 DEF SinkData, Msg, Frame
<1>19. ASSUME NEW s \in Slots, HandlerReturn(s) PROVE GatewayType'
  BY <1>19 DEF HandlerReturn, CallOrNone
<1>20. ASSUME NEW s \in Slots, SendRespEnd(s) PROVE GatewayType'
  BY <1>20 DEF SendRespEnd, Msg, Frame
<1>21. ASSUME NEW s \in Slots, Retire(s) PROVE GatewayType'
  BY <1>21 DEF Retire, CutStream
<1>22. ASSUME NEW s \in Slots, Park(s) PROVE GatewayType'
  BY <1>22 DEF Park, Ready, Frame
<1>23. ASSUME NEW c \in Calls, Acquire(c) PROVE GatewayType'
  <2> DEFINE ready == {j \in DOMAIN idle : Takeable(idle[j])}
  <2>1. CASE draining \/ ready = {}
    <3>1. idle' = (IF draining THEN idle ELSE <<>>) /\ parked' = parked
      BY <1>23, <2>1 DEF Acquire
    <3>2. UNCHANGED <<gpc, dead, cur, draining, closing, faulted>>
      BY <1>23 DEF Acquire
    <3> QED BY <3>1, <3>2, EmptySeq
  <2>2. ASSUME NEW j \in ready, idle' = SubSeq(idle, 1, j - 1),
               parked' = [parked EXCEPT ![idle[j]] = FALSE],
               slotOf' = [slotOf EXCEPT ![c] = idle[j]],
               cst' = [cst EXCEPT ![c] = "taken"], UNCHANGED outcome
        PROVE  GatewayType'
    <3>1. j \in 1 .. Len(idle) /\ idle[j] \in Slots
      OBVIOUS
    <3> QED BY <1>23, <2>2, <3>1 DEF Acquire
  <2> QED BY <1>23, <2>1, <2>2 DEF Acquire
<1>24. ASSUME NEW c \in Calls, Begin(c) PROVE GatewayType'
  <2>1. slotOf[c] \in Slots
    BY <1>24 DEF Begin, CallType, Holding
  <2>2. CASE CloseSlot(slotOf[c])
    BY <1>24, <2>1, <2>2, CloseSlotType DEF Begin
  <2>3. CASE ~CloseSlot(slotOf[c])
    BY <1>24, <2>1, <2>3 DEF Begin, CallOrNone
  <2> QED BY <2>2, <2>3
<1>25. ASSUME NEW c \in Calls, SendHeaders(c) PROVE GatewayType'
  BY <1>25 DEF SendHeaders, SendOk, Msg, Frame
<1>26. ASSUME NEW c \in Calls, SendChunk(c) PROVE GatewayType'
  BY <1>26 DEF SendChunk, SendOk, Msg, Frame
<1>27. ASSUME NEW c \in Calls, SendEnd(c) PROVE GatewayType'
  BY <1>27 DEF SendEnd, SendOk, Msg, Frame
<1>28. ASSUME NEW c \in Calls, DispatchFails(c) PROVE GatewayType'
  BY <1>28, CloseSlotType DEF DispatchFails, EndCall, CallType, Holding
<1>29. ASSUME NEW c \in Calls, Recv(c) PROVE GatewayType'
  BY <1>29 DEF Recv, CallType, Holding, CallOrNone
<1>30. ASSUME NEW c \in Calls, RecvFails(c) PROVE GatewayType'
  BY <1>30 DEF RecvFails
<1>31. ASSUME NEW c \in Calls, CloseResponse(c) PROVE GatewayType'
  BY <1>31 DEF CloseResponse, Msg, Frame
<1>32. CASE NodeDrain BY <1>32, EmptySeq DEF NodeDrain
<1>33. CASE ControlReconnects BY <1>33 DEF ControlReconnects
<1>34. CASE UNCHANGED vars BY <1>34 DEF vars
<1> QED
  BY <1>1, <1>2, <1>3, <1>4, <1>5, <1>6, <1>7, <1>8, <1>9, <1>10, <1>11, <1>12, <1>13, <1>14, <1>15, <1>16, <1>17, <1>18, <1>19, <1>20, <1>21, <1>22, <1>23, <1>24, <1>25, <1>26, <1>27, <1>28, <1>29, <1>30, <1>31, <1>32, <1>33, <1>34
  DEF Next, Reader, Dispatch, Response, AgentLoop, HandlerStep

\* Every step keeps the types of the calls.
LEMMA CallTypeStep ==
  ASSUME TypeOK, IdleShape, [Next]_vars PROVE CallType'
<1> USE DEF TypeOK, CallType, WireType, AgentType, Holding, wire, gwv, callv, agv
<1>1. ASSUME NEW s \in Slots, ServeFirst(s) PROVE CallType'
  BY <1>1 DEF ServeFirst
<1>2. ASSUME NEW s \in Slots, ParkOffer(s) PROVE CallType'
  <2>1. CASE ServeReturns(s) BY <1>2, <2>1, CloseSlotType DEF ParkOffer, ServeReturns
  <2>2. CASE ~ServeReturns(s) BY <1>2, <2>2 DEF ParkOffer
  <2> QED BY <2>1, <2>2
<1>3. ASSUME NEW s \in Slots, ReadReady(s) PROVE CallType'
  <2>1. CASE ServeReturns(s) BY <1>3, <2>1, CloseSlotType DEF ReadReady, ServeReturns
  <2>2. CASE ~ServeReturns(s) BY <1>3, <2>2 DEF ReadReady
  <2> QED BY <2>1, <2>2
<1>4. ASSUME NEW s \in Slots, RouteIdle(s) PROVE CallType'
  BY <1>4, CloseSlotType DEF RouteIdle, ServeReturns
<1>5. ASSUME NEW s \in Slots, RouteDrop(s) PROVE CallType'
  BY <1>5 DEF RouteDrop, CallOrNone
<1>6. ASSUME NEW s \in Slots, RouteTooLarge(s) PROVE CallType'
  BY <1>6, CloseSlotType DEF RouteTooLarge, ServeReturns
<1>7. ASSUME NEW s \in Slots, StreamEnds(s) PROVE CallType'
  BY <1>7, CloseSlotType DEF StreamEnds, ServeReturns
<1>8. ASSUME NEW s \in Slots, CloseDrained(s) PROVE CallType'
  BY <1>8, CloseSlotType DEF CloseDrained
<1>9. ASSUME NEW s \in Slots, NetworkCut(s) PROVE CallType'
  BY <1>9 DEF NetworkCut, CutStream
<1>10. ASSUME NEW s \in Slots, PoolRetire(s) PROVE CallType'
  BY <1>10 DEF PoolRetire, CutStream, CancelActive
<1>11. ASSUME NEW s \in Slots, OpenSlot(s) PROVE CallType'
  BY <1>11 DEF OpenSlot, Ready, Frame
<1>12. ASSUME NEW s \in Slots, RecvHeaders(s) PROVE CallType'
  BY <1>12 DEF RecvHeaders, CancelActive, StopLoop, CutStream, Msg, Frame, CallOrNone
<1>13. ASSUME NEW s \in Slots, RecvData(s) PROVE CallType'
  BY <1>13 DEF RecvData, AgentTakes
<1>14. ASSUME NEW s \in Slots, RecvEnd(s) PROVE CallType'
  BY <1>14 DEF RecvEnd, AgentTakes
<1>15. ASSUME NEW s \in Slots, RecvCancel(s) PROVE CallType'
  BY <1>15 DEF RecvCancel, AgentTakes, CancelActive
<1>16. ASSUME NEW s \in Slots, RecvErr(s) PROVE CallType'
  BY <1>16 DEF RecvErr, CancelActive, StopLoop
<1>17. ASSUME NEW s \in Slots, RunReturns(s) PROVE CallType'
  BY <1>17 DEF RunReturns
<1>18. ASSUME NEW s \in Slots, SinkData(s) PROVE CallType'
  BY <1>18 DEF SinkData, Msg, Frame
<1>19. ASSUME NEW s \in Slots, HandlerReturn(s) PROVE CallType'
  BY <1>19 DEF HandlerReturn, CallOrNone
<1>20. ASSUME NEW s \in Slots, SendRespEnd(s) PROVE CallType'
  BY <1>20 DEF SendRespEnd, Msg, Frame
<1>21. ASSUME NEW s \in Slots, Retire(s) PROVE CallType'
  BY <1>21 DEF Retire, CutStream
<1>22. ASSUME NEW s \in Slots, Park(s) PROVE CallType'
  BY <1>22 DEF Park, Ready, Frame
<1>23. ASSUME NEW c \in Calls, Acquire(c) PROVE CallType'
  <2> DEFINE ready == {j \in DOMAIN idle : Takeable(idle[j])}
  <2>1. CASE draining \/ ready = {}
    <3>1. EndCall(c, "backpressure") /\ slotOf' = slotOf
      BY <1>23, <2>1 DEF Acquire
    <3>2. UNCHANGED <<aborted, sent, got>>
      BY <1>23 DEF Acquire
    <3> QED BY <3>1, <3>2 DEF EndCall
  <2>2. ASSUME NEW j \in ready, idle' = SubSeq(idle, 1, j - 1),
               parked' = [parked EXCEPT ![idle[j]] = FALSE],
               slotOf' = [slotOf EXCEPT ![c] = idle[j]],
               cst' = [cst EXCEPT ![c] = "taken"], UNCHANGED outcome
        PROVE  CallType'
    <3>1. j \in 1 .. Len(idle) /\ idle[j] \in Slots
      BY DEF GatewayType
    <3> QED BY <1>23, <2>2, <3>1 DEF Acquire
  <2> QED BY <1>23, <2>1, <2>2 DEF Acquire
<1>24. ASSUME NEW c \in Calls, Begin(c) PROVE CallType'
  <2>1. slotOf[c] \in Slots
    BY <1>24 DEF Begin
  <2>2. CASE dead[slotOf[c]] \/ cur[slotOf[c]] # NoCall
    <3>1. CloseSlot(slotOf[c]) /\ EndCall(c, "retry") /\ UNCHANGED <<slotOf, sent, got>>
      BY <1>24, <2>2 DEF Begin
    <3>2. aborted' \in [Calls -> BOOLEAN]
      BY <2>1, <3>1, CloseSlotType
    <3> QED BY <3>1, <3>2, GivesUpType, Zenon
  <2>3. CASE ~(dead[slotOf[c]] \/ cur[slotOf[c]] # NoCall)
    <3>1. cst' = [cst EXCEPT ![c] = "hdr"] /\ UNCHANGED <<slotOf, sent, got, aborted, outcome>>
      BY <1>24, <2>3 DEF Begin
    <3> QED BY <1>24, <2>1, <3>1
  <2> QED BY <2>2, <2>3
<1>25. ASSUME NEW c \in Calls, SendHeaders(c) PROVE CallType'
  BY <1>25 DEF SendHeaders, SendOk, Msg, Frame
<1>26. ASSUME NEW c \in Calls, SendChunk(c) PROVE CallType'
  BY <1>26 DEF SendChunk, SendOk, Msg, Frame
<1>27. ASSUME NEW c \in Calls, SendEnd(c) PROVE CallType'
  BY <1>27 DEF SendEnd, SendOk, Msg, Frame
<1>28. ASSUME NEW c \in Calls, DispatchFails(c) PROVE CallType'
  BY <1>28, CloseSlotType DEF DispatchFails, EndCall, CallType, Holding
<1>29. ASSUME NEW c \in Calls, Recv(c) PROVE CallType'
  <2>1. slotOf[c] \in Slots
    BY <1>29 DEF Recv
  <2>2. Head(toGw[slotOf[c]]) \in Frame
    BY <1>29, <2>1, PopFacts DEF Recv
  <2>3. result[Head(toGw[slotOf[c]]).c] \in {"none", "ok", "err"}
    BY <1>29, <2>2, FrameFacts DEF Recv
  <2>4. UNCHANGED <<slotOf, aborted, sent>>
    BY <1>29 DEF Recv
  <2>5. CASE Head(toGw[slotOf[c]]).k = "data"
    <3>1. got' = [got EXCEPT ![c] = @ + 1] /\ UNCHANGED <<cst, outcome>>
      BY <1>29, <2>5 DEF Recv
    <3> QED BY <2>4, <3>1
  <2>6. CASE Head(toGw[slotOf[c]]).k # "data"
    <3>1. EndCall(c, result[Head(toGw[slotOf[c]]).c]) /\ got' = got
      BY <1>29, <2>6 DEF Recv
    <3> QED BY <2>3, <2>4, <3>1, SMTT(20) DEF EndCall
  <2> QED BY <2>5, <2>6
<1>30. ASSUME NEW c \in Calls, RecvFails(c) PROVE CallType'
  BY <1>30 DEF RecvFails
<1>31. ASSUME NEW c \in Calls, CloseResponse(c) PROVE CallType'
  BY <1>31 DEF CloseResponse, Msg, Frame
<1>32. CASE NodeDrain BY <1>32 DEF NodeDrain
<1>33. CASE ControlReconnects BY <1>33 DEF ControlReconnects
<1>34. CASE UNCHANGED vars BY <1>34 DEF vars
<1> QED
  BY <1>1, <1>2, <1>3, <1>4, <1>5, <1>6, <1>7, <1>8, <1>9, <1>10, <1>11, <1>12, <1>13, <1>14, <1>15, <1>16, <1>17, <1>18, <1>19, <1>20, <1>21, <1>22, <1>23, <1>24, <1>25, <1>26, <1>27, <1>28, <1>29, <1>30, <1>31, <1>32, <1>33, <1>34
  DEF Next, Reader, Dispatch, Response, AgentLoop, HandlerStep

\* Every step keeps the types of the Agent.
LEMMA AgentTypeStep ==
  ASSUME TypeOK, IdleShape, [Next]_vars PROVE AgentType'
<1> USE DEF TypeOK, AgentType, WireType, wire, gwv, callv, agv
<1>1. ASSUME NEW s \in Slots, ServeFirst(s) PROVE AgentType'
  BY <1>1 DEF ServeFirst
<1>2. ASSUME NEW s \in Slots, ParkOffer(s) PROVE AgentType'
  BY <1>2 DEF ParkOffer, ServeReturns, CloseSlot, EndStream
<1>3. ASSUME NEW s \in Slots, ReadReady(s) PROVE AgentType'
  BY <1>3 DEF ReadReady, ServeReturns, CloseSlot, EndStream
<1>4. ASSUME NEW s \in Slots, RouteIdle(s) PROVE AgentType'
  BY <1>4 DEF RouteIdle, ServeReturns, CloseSlot, EndStream
<1>5. ASSUME NEW s \in Slots, RouteDrop(s) PROVE AgentType'
  BY <1>5 DEF RouteDrop, CallOrNone
<1>6. ASSUME NEW s \in Slots, RouteTooLarge(s) PROVE AgentType'
  BY <1>6 DEF RouteTooLarge, ServeReturns, CloseSlot, EndStream
<1>7. ASSUME NEW s \in Slots, StreamEnds(s) PROVE AgentType'
  BY <1>7 DEF StreamEnds, ServeReturns, CloseSlot, EndStream
<1>8. ASSUME NEW s \in Slots, CloseDrained(s) PROVE AgentType'
  BY <1>8 DEF CloseDrained, CloseSlot
<1>9. ASSUME NEW s \in Slots, NetworkCut(s) PROVE AgentType'
  BY <1>9 DEF NetworkCut, CutStream
<1>10. ASSUME NEW s \in Slots, PoolRetire(s) PROVE AgentType'
  BY <1>10 DEF PoolRetire, CutStream, CancelActive
<1>11. ASSUME NEW s \in Slots, OpenSlot(s) PROVE AgentType'
  BY <1>11 DEF OpenSlot, Ready, Frame
<1>12. ASSUME NEW s \in Slots, RecvHeaders(s) PROVE AgentType'
  <2>1. Head(toAg[s]).c \in Calls
    BY <1>12, PopFacts, FrameFacts DEF RecvHeaders
  <2>2. UNCHANGED <<served, fed, bodyClosed, produced, result>>
    BY <1>12 DEF RecvHeaders
  <2>3. CASE active[s] # NoCall
    <3>1. CancelActive(s, "slot") /\ StopLoop(s) /\ UNCHANGED <<active, hreq, hpc>>
      BY <1>12, <2>3 DEF RecvHeaders
    <3>2. cause' \in [Calls -> {"none", "gateway", "slot"}]
      BY <3>1 DEF CancelActive
    <3>3. apc' \in [Slots -> {"unopened", "open", "closing", "closed"}]
      BY <3>1 DEF StopLoop
    <3> QED BY <2>2, <3>1, <3>2, <3>3
  <2>4. CASE active[s] = NoCall
    <3> DEFINE c == Head(toAg[s]).c
    <3>1. /\ active' = [active EXCEPT ![s] = c] /\ hreq' = [hreq EXCEPT ![s] = c]
          /\ hpc' = [hpc EXCEPT ![s] = "run"] /\ UNCHANGED <<apc, cause>>
      BY <1>12, <2>4 DEF RecvHeaders
    <3> HIDE DEF c
    <3>2. c \in Calls
      BY <2>1 DEF c
    <3> QED BY <2>2, <3>1, <3>2 DEF CallOrNone
  <2> QED BY <2>3, <2>4
<1>13. ASSUME NEW s \in Slots, RecvData(s) PROVE AgentType'
  <2>1. UNCHANGED <<apc, active, hpc, hreq, cause, served, bodyClosed, produced, result>>
    BY <1>13 DEF RecvData
  <2>2. active[s] \in Calls \cup {NoCall}
    BY DEF CallOrNone
  <2>3. CASE fed' = fed
    BY <2>1, <2>3
  <2>4. CASE active[s] # NoCall /\ fed' = [fed EXCEPT ![active[s]] = @ + 1]
    BY <2>1, <2>2, <2>4
  <2> QED BY <1>13, <2>3, <2>4 DEF RecvData, Matches
<1>14. ASSUME NEW s \in Slots, RecvEnd(s) PROVE AgentType'
  BY <1>14 DEF RecvEnd, Matches, CallOrNone
<1>15. ASSUME NEW s \in Slots, RecvCancel(s) PROVE AgentType'
  BY <1>15 DEF RecvCancel, AgentTakes, CancelActive
<1>16. ASSUME NEW s \in Slots, RecvErr(s) PROVE AgentType'
  BY <1>16 DEF RecvErr, CancelActive, StopLoop
<1>17. ASSUME NEW s \in Slots, RunReturns(s) PROVE AgentType'
  BY <1>17 DEF RunReturns
<1>18. ASSUME NEW s \in Slots, SinkData(s) PROVE AgentType'
  BY <1>18 DEF SinkData, Msg, Frame
<1>19. ASSUME NEW s \in Slots, HandlerReturn(s) PROVE AgentType'
  BY <1>19 DEF HandlerReturn, CallOrNone
<1>20. ASSUME NEW s \in Slots, SendRespEnd(s) PROVE AgentType'
  <2>1. /\ hpc[s] = "end" /\ \E next \in {"park", "retire"} : hpc' = [hpc EXCEPT ![s] = next]
        /\ UNCHANGED <<apc, active, hreq, cause, served, fed, bodyClosed, produced, result>>
    BY <1>20 DEF SendRespEnd
  <2> QED BY <2>1
<1>21. ASSUME NEW s \in Slots, Retire(s) PROVE AgentType'
  BY <1>21 DEF Retire, CutStream
<1>22. ASSUME NEW s \in Slots, Park(s) PROVE AgentType'
  BY <1>22 DEF Park, Ready, Frame
<1>23. ASSUME NEW c \in Calls, Acquire(c) PROVE AgentType'
  BY <1>23 DEF Acquire, EndCall
<1>24. ASSUME NEW c \in Calls, Begin(c) PROVE AgentType'
  BY <1>24 DEF Begin, CloseSlot, EndCall, CallOrNone
<1>25. ASSUME NEW c \in Calls, SendHeaders(c) PROVE AgentType'
  BY <1>25 DEF SendHeaders, SendOk, Msg, Frame
<1>26. ASSUME NEW c \in Calls, SendChunk(c) PROVE AgentType'
  BY <1>26 DEF SendChunk, SendOk, Msg, Frame
<1>27. ASSUME NEW c \in Calls, SendEnd(c) PROVE AgentType'
  BY <1>27 DEF SendEnd, SendOk, Msg, Frame
<1>28. ASSUME NEW c \in Calls, DispatchFails(c) PROVE AgentType'
  BY <1>28 DEF DispatchFails, CloseSlot, EndCall
<1>29. ASSUME NEW c \in Calls, Recv(c) PROVE AgentType'
  BY <1>29 DEF Recv, EndCall, Frame, CallOrNone
<1>30. ASSUME NEW c \in Calls, RecvFails(c) PROVE AgentType'
  BY <1>30 DEF RecvFails
<1>31. ASSUME NEW c \in Calls, CloseResponse(c) PROVE AgentType'
  BY <1>31 DEF CloseResponse, Msg, Frame
<1>32. CASE NodeDrain BY <1>32 DEF NodeDrain
<1>33. CASE ControlReconnects BY <1>33 DEF ControlReconnects
<1>34. CASE UNCHANGED vars BY <1>34 DEF vars
<1> QED
  BY <1>1, <1>2, <1>3, <1>4, <1>5, <1>6, <1>7, <1>8, <1>9, <1>10, <1>11, <1>12, <1>13, <1>14, <1>15, <1>16, <1>17, <1>18, <1>19, <1>20, <1>21, <1>22, <1>23, <1>24, <1>25, <1>26, <1>27, <1>28, <1>29, <1>30, <1>31, <1>32, <1>33, <1>34
  DEF Next, Reader, Dispatch, Response, AgentLoop, HandlerStep

-----------------------------------------------------------------------------
(* Custody.  Each lemma says what one kind of step does to one slot and     *)
(* shows that the slot keeps its invariant.                                 *)

\* Queue r is queue q without its first frame.
Popped(q, r) ==
  /\ 1 \in DOMAIN q
  /\ \A i \in DOMAIN r : i \in Nat /\ 1 < i + 1 /\ i + 1 \in DOMAIN q /\ r[i] = q[i + 1]
  /\ \A i, j \in DOMAIN r : i < j => i + 1 < j + 1
  /\ \A i \in DOMAIN q : i = 1 \/ (i - 1 \in DOMAIN r /\ r[i - 1] = q[i])

\* The calls that have slot s keep it, and move on only once their headers are out.
Calm(s) ==
  \A c \in Calls :
    /\ slotOf'[c] = s <=> slotOf[c] = s
    /\ slotOf[c] = s => \/ cst'[c] = cst[c]
                        \/ cst[c] \in {"body", "open", "closing"} /\ cst'[c] \in Written

\* Calls may leave slot s for good.
Leaving(s) ==
  \A c \in Calls : /\ slotOf'[c] = slotOf[c]
                   /\ slotOf[c] = s => cst'[c] \in {cst[c], "closed"}

\* No call moves, but the one on slot s may have received its answer.
Answered(s) ==
  \A c \in Calls :
    /\ slotOf'[c] = slotOf[c]
    /\ cst'[c] = cst[c] \/ (c = cur[s] /\ cst[c] = "open" /\ cst'[c] = "closed")

\* Only call c moves.
OthersSame(c) == \A d \in Calls \ {c} : slotOf'[d] = slotOf[d] /\ cst'[d] = cst[d]

\* The headers of call c are the last frame on their way to the Agent.
HeadersAppended(s, c) ==
  /\ DOMAIN toAg[s] = 1 .. Len(toAg[s]) /\ Len(toAg[s]) \in Nat
  /\ DOMAIN toAg'[s] = 1 .. (Len(toAg[s]) + 1)
  /\ \A i \in 1 .. Len(toAg[s]) : toAg'[s][i] = toAg[s][i]
  /\ toAg'[s][Len(toAg[s]) + 1].k = "headers"
  /\ toAg'[s][Len(toAg[s]) + 1].c = c

\* The handler goroutine of slot s gets closer to its end.
HandlerLeaves(s) ==
  \/ hpc[s] = "run" /\ hpc'[s] = "end"
  \/ hpc[s] \in {"end", "park"} /\ hpc'[s] = "retire"
  \/ hpc[s] = "retire" /\ hpc'[s] = "idle"

\* The Gateway's, and the Agent's, own state of slot s stays as it is.
GwSame(s) ==
  gpc'[s] = gpc[s] /\ parked'[s] = parked[s] /\ dead'[s] = dead[s] /\ cur'[s] = cur[s]
HandlerSame(s) == hpc'[s] = hpc[s] /\ hreq'[s] = hreq[s] /\ active'[s] = active[s]
AgSame(s) ==
  /\ HandlerSame(s)
  /\ apc'[s] = "unopened" => apc[s] = "unopened" /\ stream'[s] = stream[s]

\* A step that changes nothing of slot s but its stream or the loop reading it.
LEMMA SlotFrame ==
  ASSUME TypeOK, NEW s \in Slots, SlotInv(s),
         toGw'[s] = toGw[s], toAg'[s] = toAg[s], GwSame(s), AgSame(s), Calm(s)
  PROVE  SlotInv(s)'
<1> USE DEF SlotInv, GwSame, AgSame, HandlerSame, Calm
<1>0. cur[s] \in Calls \cup {NoCall} /\ NoCall \notin Calls
  BY DEF TypeOK, GatewayType, CallOrNone
<1>1. OneHand(s)'
  BY <1>0 DEF OneHand, HasReady, HasHeaders, Offered, Given, HandlerBusy, Written
<1>2. Unborn(s)'
  BY <1>0 DEF Unborn
<1>3. OfferedClean(s)'
  BY <1>0 DEF OfferedClean, Offered, Written, Holding
<1>4. GivenClean(s)'
  BY <1>0 DEF GivenClean, Written, Holding
<1>5. HolderIsCurrent(s)'
  BY <1>0 DEF HolderIsCurrent, OnSlot, Holding, Written
<1>6. HeadersInFlight(s)'
  BY <1>0 DEF HeadersInFlight, OnSlot, Written
<1>7. HandlerServes(s)'
  BY <1>0 DEF HandlerServes, OnSlot, Written
<1>8. WireOrder(s)'
  BY <1>0 DEF WireOrder
<1>9. WireOwner(s)'
  BY <1>0 DEF WireOwner, OnSlot, IsResponse
<1>10. ReadyAfterEnd(s)'
  BY <1>0 DEF ReadyAfterEnd, HasReady
<1> QED BY <1>1, <1>2, <1>3, <1>4, <1>5, <1>6, <1>7, <1>8, <1>9, <1>10

\* The Agent reads frames that are not headers, or drops what it has not read.
LEMMA AgentReads ==
  ASSUME TypeOK, NEW s \in Slots, SlotInv(s),
         gpc[s] # "none", toGw'[s] = toGw[s], GwSame(s), AgSame(s), Calm(s),
         \A i \in DOMAIN toAg'[s] : i + 1 \in DOMAIN toAg[s] /\ toAg'[s][i] = toAg[s][i + 1],
         \A i \in DOMAIN toAg'[s] : i \in Nat
  PROVE  SlotInv(s)'
<1> USE DEF SlotInv, GwSame, AgSame, HandlerSame, Calm
<1>0. cur[s] \in Calls \cup {NoCall} /\ NoCall \notin Calls
  BY DEF TypeOK, GatewayType, CallOrNone
<1>1. OneHand(s)'
  BY <1>0 DEF OneHand, HasReady, HasHeaders, Offered, Given, HandlerBusy, Written
<1>2. Unborn(s)'
  BY <1>0 DEF Unborn
<1>3. OfferedClean(s)'
  BY <1>0 DEF OfferedClean, Offered, Written, Holding
<1>4. GivenClean(s)'
  BY <1>0 DEF GivenClean, Written, Holding
<1>5. HolderIsCurrent(s)'
  BY <1>0 DEF HolderIsCurrent, OnSlot, Holding, Written
<1>6. HeadersInFlight(s)'
  BY <1>0, SMTT(20) DEF HeadersInFlight, OnSlot, Written
<1>7. HandlerServes(s)'
  BY <1>0 DEF HandlerServes, OnSlot, Written
<1>8. WireOrder(s)'
  BY <1>0 DEF WireOrder
<1>9. WireOwner(s)'
  BY <1>0 DEF WireOwner, OnSlot, IsResponse
<1>10. ReadyAfterEnd(s)'
  BY <1>0 DEF ReadyAfterEnd, HasReady
<1> QED BY <1>1, <1>2, <1>3, <1>4, <1>5, <1>6, <1>7, <1>8, <1>9, <1>10

\* The Gateway writes a frame that is not headers.
LEMMA GatewayWrites ==
  ASSUME TypeOK, NEW s \in Slots, SlotInv(s),
         gpc[s] # "none", toGw'[s] = toGw[s], GwSame(s), AgSame(s), Calm(s),
         NEW f, f.k # "headers",
         \A i \in DOMAIN toAg'[s] : toAg'[s][i] = f \/ (i \in DOMAIN toAg[s] /\ toAg'[s][i] = toAg[s][i])
  PROVE  SlotInv(s)'
<1> USE DEF SlotInv, GwSame, AgSame, HandlerSame, Calm
<1>0. cur[s] \in Calls \cup {NoCall} /\ NoCall \notin Calls
  BY DEF TypeOK, GatewayType, CallOrNone
<1>1. OneHand(s)'
  BY <1>0 DEF OneHand, HasReady, HasHeaders, Offered, Given, HandlerBusy, Written
<1>2. Unborn(s)'
  BY <1>0 DEF Unborn
<1>3. OfferedClean(s)'
  BY <1>0 DEF OfferedClean, Offered, Written, Holding
<1>4. GivenClean(s)'
  BY <1>0 DEF GivenClean, Written, Holding
<1>5. HolderIsCurrent(s)'
  BY <1>0 DEF HolderIsCurrent, OnSlot, Holding, Written
<1>6. HeadersInFlight(s)'
  BY <1>0 DEF HeadersInFlight, OnSlot, Written
<1>7. HandlerServes(s)'
  BY <1>0 DEF HandlerServes, OnSlot, Written
<1>8. WireOrder(s)'
  BY <1>0 DEF WireOrder
<1>9. WireOwner(s)'
  BY <1>0 DEF WireOwner, OnSlot, IsResponse
<1>10. ReadyAfterEnd(s)'
  BY <1>0 DEF ReadyAfterEnd, HasReady
<1> QED BY <1>1, <1>2, <1>3, <1>4, <1>5, <1>6, <1>7, <1>8, <1>9, <1>10

\* slot.close, and Serve when it returns: dead, the slot may be held but not used.
LEMMA SlotClosed ==
  ASSUME TypeOK, NEW s \in Slots, SlotInv(s),
         dead'[s] = TRUE, cur'[s] = NoCall, parked'[s] = FALSE,
         gpc'[s] \in {"read", "gone"}, apc[s] # "unopened",
         toGw'[s] = toGw[s] \/ (DOMAIN toGw'[s] = {} /\ toGw'[s] = <<>>), toAg'[s] = toAg[s],
         AgSame(s), Leaving(s)
  PROVE  SlotInv(s)'
<1> USE DEF SlotInv, AgSame, HandlerSame, Leaving
<1>0. cur[s] \in Calls \cup {NoCall} /\ NoCall \notin Calls
  BY DEF TypeOK, GatewayType, CallOrNone
<1>1. OneHand(s)'
  BY <1>0 DEF OneHand, HasReady, HasHeaders, Offered, Given, HandlerBusy, Written
<1>2. Unborn(s)'
  BY <1>0 DEF Unborn
<1>3. OfferedClean(s)'
  BY <1>0 DEF OfferedClean, Offered, Written, Holding
<1>4. GivenClean(s)'
  BY <1>0 DEF GivenClean, Written, Holding
<1>5. HolderIsCurrent(s)'
  BY <1>0 DEF HolderIsCurrent, OnSlot, Holding, Written
<1>6. HeadersInFlight(s)'
  BY <1>0 DEF HeadersInFlight, OnSlot, Written
<1>7. HandlerServes(s)'
  BY <1>0 DEF HandlerServes, OnSlot, Written
<1>8. WireOrder(s)'
  BY <1>0 DEF WireOrder
<1>9. WireOwner(s)'
  BY <1>0 DEF WireOwner, OnSlot, IsResponse
<1>10. ReadyAfterEnd(s)'
  BY <1>0 DEF ReadyAfterEnd, HasReady
<1> QED BY <1>1, <1>2, <1>3, <1>4, <1>5, <1>6, <1>7, <1>8, <1>9, <1>10

\* slot.park: the Ready that ends a request's stay is read, and the slot is offered.
LEMMA SlotOffered ==
  ASSUME TypeOK, NEW s \in Slots, SlotInv(s),
         1 \in DOMAIN toGw[s], toGw[s][1].k = "ready", ~dead[s], cur[s] = NoCall,
         toGw'[s] = <<>>, DOMAIN toGw'[s] = {},
         toAg'[s] = toAg[s], parked'[s] = TRUE, gpc'[s] = "parking",
         dead'[s] = dead[s], cur'[s] = cur[s], apc[s] # "unopened", AgSame(s), Calm(s)
  PROVE  SlotInv(s)'
<1> USE DEF SlotInv, AgSame, HandlerSame, Calm
<1>0. cur[s] \in Calls \cup {NoCall} /\ NoCall \notin Calls
  BY DEF TypeOK, GatewayType, CallOrNone
<1>1. OneHand(s)'
  BY <1>0 DEF OneHand, HasReady, HasHeaders, Offered, Given, HandlerBusy, Written
<1>2. Unborn(s)'
  BY <1>0 DEF Unborn
<1>3. OfferedClean(s)'
  BY <1>0 DEF OfferedClean, Offered, Written, Holding, Unborn, GivenClean,
       HolderIsCurrent, OnSlot
<1>4. GivenClean(s)'
  BY <1>0 DEF GivenClean, Written, Holding
<1>5. HolderIsCurrent(s)'
  BY <1>0 DEF HolderIsCurrent, OnSlot, Holding, Written
<1>6. HeadersInFlight(s)'
  BY <1>0 DEF HeadersInFlight, OnSlot, Written
<1>7. HandlerServes(s)'
  BY <1>0 DEF HandlerServes, OnSlot, Written
<1>8. WireOrder(s)'
  BY <1>0 DEF WireOrder
<1>9. WireOwner(s)'
  BY <1>0 DEF WireOwner, OnSlot, IsResponse
<1>10. ReadyAfterEnd(s)'
  BY <1>0 DEF ReadyAfterEnd, HasReady
<1> QED BY <1>1, <1>2, <1>3, <1>4, <1>5, <1>6, <1>7, <1>8, <1>9, <1>10

\* node.park: the slot enters the idle set.
LEMMA SlotListed ==
  ASSUME TypeOK, NEW s \in Slots, SlotInv(s),
         gpc[s] = "parking", gpc'[s] = "read",
         toGw'[s] = toGw[s], toAg'[s] = toAg[s], parked'[s] = parked[s],
         dead'[s] = dead[s], cur'[s] = cur[s], AgSame(s), Calm(s)
  PROVE  SlotInv(s)'
<1> USE DEF SlotInv, AgSame, HandlerSame, Calm
<1>0. cur[s] \in Calls \cup {NoCall} /\ NoCall \notin Calls
  BY DEF TypeOK, GatewayType, CallOrNone
<1>1. OneHand(s)'
  BY <1>0 DEF OneHand, HasReady, HasHeaders, Offered, Given, HandlerBusy, Written
<1>2. Unborn(s)'
  BY <1>0 DEF Unborn
<1>3. OfferedClean(s)'
  BY <1>0 DEF OfferedClean, Offered, Written, Holding
<1>4. GivenClean(s)'
  BY <1>0 DEF GivenClean, Written, Holding
<1>5. HolderIsCurrent(s)'
  BY <1>0 DEF HolderIsCurrent, OnSlot, Holding, Written
<1>6. HeadersInFlight(s)'
  BY <1>0 DEF HeadersInFlight, OnSlot, Written
<1>7. HandlerServes(s)'
  BY <1>0 DEF HandlerServes, OnSlot, Written
<1>8. WireOrder(s)'
  BY <1>0 DEF WireOrder
<1>9. WireOwner(s)'
  BY <1>0 DEF WireOwner, OnSlot, IsResponse
<1>10. ReadyAfterEnd(s)'
  BY <1>0 DEF ReadyAfterEnd, HasReady
<1> QED BY <1>1, <1>2, <1>3, <1>4, <1>5, <1>6, <1>7, <1>8, <1>9, <1>10

\* route and Recv on a response frame: a ResponseEnd frees the slot and ends
\* the call that was waiting for it.
LEMMA FrameRouted ==
  ASSUME TypeOK, NEW s \in Slots, SlotInv(s),
         Popped(toGw[s], toGw'[s]),
         toGw[s] # <<>>,
         IsResponse(toGw[s][1]), cur[s] # NoCall,
         cur'[s] = IF toGw[s][1].k = "end" THEN NoCall ELSE cur[s],
         toAg'[s] = toAg[s], gpc'[s] = gpc[s], parked'[s] = parked[s], dead'[s] = dead[s],
         AgSame(s), gpc[s] # "none",
         Answered(s),
         toGw[s][1].k = "end" => cst'[cur[s]] = "closed"
  PROVE  SlotInv(s)'
<1> USE DEF SlotInv, AgSame, HandlerSame, Answered
<1>0. cur[s] \in Calls \cup {NoCall} /\ NoCall \notin Calls
  BY DEF TypeOK, GatewayType, CallOrNone
<1>1. 1 \in DOMAIN toGw[s] /\ \A i \in DOMAIN toGw'[s] : \E j \in DOMAIN toGw[s] :
        1 < j /\ toGw'[s][i] = toGw[s][j]
  BY DEF Popped
<1>2. toGw[s][1].c = cur[s] /\ ~dead[s]
  BY <1>0, <1>1 DEF HolderIsCurrent, WireOwner, OnSlot, IsResponse
<1>3. OneHand(s)'
  <2>1. HasReady(s)' => HasReady(s)
    BY <1>1 DEF HasReady
  <2>2. Given(s)' => Given(s)
    BY DEF Given
  <2> QED BY <2>1, <2>2 DEF OneHand, HasHeaders, Offered, HandlerBusy
<1>4. Unborn(s)'
  BY <1>0, <1>1, <1>2 DEF Unborn
<1>5. OfferedClean(s)'
  BY <1>0, <1>1, <1>2 DEF OfferedClean, Offered, Written, Holding
<1>6. GivenClean(s)'
  BY <1>0, <1>1, <1>2 DEF GivenClean, Written, Holding
<1>7. HolderIsCurrent(s)'
  BY <1>0, <1>1, <1>2 DEF HolderIsCurrent, OnSlot, Holding, Written
<1>8. HeadersInFlight(s)'
  BY <1>0, <1>1, <1>2 DEF HeadersInFlight, OnSlot, Written
<1>9. HandlerServes(s)'
  <2>1. hpc[s] \in {"run", "end"} => toGw[s][1].k # "end"
    BY <1>1 DEF HandlerServes
  <2> QED BY <1>0, <1>1, <1>2, <2>1 DEF HandlerServes, OnSlot, Written
<1>10. WireOrder(s)'
  <2>1. SUFFICES ASSUME NEW i \in DOMAIN toGw'[s], NEW j \in DOMAIN toGw'[s], i < j
        PROVE  /\ toGw'[s][i].k # "ready"
               /\ toGw'[s][i].k = "end" => toGw'[s][j].k = "ready"
    BY DEF WireOrder
  <2>2. /\ i + 1 \in DOMAIN toGw[s] /\ j + 1 \in DOMAIN toGw[s] /\ i + 1 < j + 1
        /\ toGw'[s][i] = toGw[s][i + 1] /\ toGw'[s][j] = toGw[s][j + 1]
    BY <2>1 DEF Popped
  <2> QED BY <2>2 DEF WireOrder
<1>11. WireOwner(s)'
  <2>1. toGw[s][1].k = "end" => \A i \in DOMAIN toGw'[s] : toGw'[s][i].k = "ready"
    BY <1>1 DEF WireOrder
  <2> QED BY <1>1, <2>1 DEF WireOwner, OnSlot, IsResponse
<1>12. ReadyAfterEnd(s)'
  <2>1. HasReady(s)' => HasReady(s)
    BY <1>1 DEF HasReady
  <2>2. CASE toGw[s][1].k = "end"
    BY <2>2 DEF ReadyAfterEnd
  <2>3. CASE toGw[s][1].k # "end"
    <3>1. \A i \in DOMAIN toGw[s] : toGw[s][i].k = "end" =>
            \E j \in DOMAIN toGw'[s] : toGw'[s][j].k = "end"
      BY <2>3 DEF Popped
    <3> QED BY <2>1, <2>3, <3>1 DEF ReadyAfterEnd
  <2> QED BY <2>2, <2>3
<1> QED BY <1>3, <1>4, <1>5, <1>6, <1>7, <1>8, <1>9, <1>10, <1>11, <1>12

\* node.acquire: an offered slot goes to one call.
LEMMA SlotTaken ==
  ASSUME TypeOK, NEW s \in Slots, SlotInv(s),
         NEW c \in Calls, cst[c] = "new", slotOf[c] # s, slotOf'[c] = s, cst'[c] = "taken",
         OthersSame(c),
         parked[s], parked'[s] = FALSE, gpc[s] = "read", gpc'[s] = "read", dead'[s] = dead[s], cur'[s] = cur[s],
         toGw'[s] = toGw[s], toAg'[s] = toAg[s], AgSame(s)
  PROVE  SlotInv(s)'
<1> USE DEF SlotInv, AgSame, HandlerSame, OthersSame
<1>0. cur[s] \in Calls \cup {NoCall} /\ NoCall \notin Calls
  BY DEF TypeOK, GatewayType, CallOrNone
<1>1. OneHand(s)'
  BY <1>0 DEF OneHand, HasReady, HasHeaders, Offered, Given, HandlerBusy, Written
<1>2. Unborn(s)'
  BY <1>0 DEF Unborn
<1>3. OfferedClean(s)'
  BY <1>0 DEF OfferedClean, Offered, Written, Holding
<1>4. GivenClean(s)'
  BY <1>0 DEF GivenClean, Written, Holding, OneHand, HasReady, HasHeaders, Offered, Given,
       HandlerBusy, OfferedClean, HandlerServes
<1>5. HolderIsCurrent(s)'
  BY <1>0 DEF HolderIsCurrent, OnSlot, Holding, Written
<1>6. HeadersInFlight(s)'
  BY <1>0 DEF HeadersInFlight, OnSlot, Written
<1>7. HandlerServes(s)'
  BY <1>0 DEF HandlerServes, OnSlot, Written
<1>8. WireOrder(s)'
  BY <1>0 DEF WireOrder
<1>9. WireOwner(s)'
  BY <1>0 DEF WireOwner, OnSlot, IsResponse
<1>10. ReadyAfterEnd(s)'
  BY <1>0 DEF ReadyAfterEnd, HasReady
<1> QED BY <1>1, <1>2, <1>3, <1>4, <1>5, <1>6, <1>7, <1>8, <1>9, <1>10

\* slot.begin: the taker becomes the request on the slot.
LEMMA SlotBegun ==
  ASSUME TypeOK, NEW s \in Slots, SlotInv(s),
         NEW c \in Calls, cst[c] = "taken", slotOf[c] = s, cst'[c] = "hdr", ~dead[s], cur[s] = NoCall,
         \A d \in Calls : slotOf'[d] = slotOf[d] /\ (d # c => cst'[d] = cst[d]),
         gpc'[s] = gpc[s], parked'[s] = parked[s], dead'[s] = dead[s], cur'[s] = c,
         toGw'[s] = toGw[s], toAg'[s] = toAg[s], AgSame(s)
  PROVE  SlotInv(s)'
<1> USE DEF SlotInv, AgSame, HandlerSame
<1>0. cur[s] \in Calls \cup {NoCall} /\ NoCall \notin Calls
  BY DEF TypeOK, GatewayType, CallOrNone
<1>1. OneHand(s)'
  BY <1>0 DEF OneHand, HasReady, HasHeaders, Offered, Given, HandlerBusy, Written
<1>2. Unborn(s)'
  BY <1>0 DEF Unborn
<1>3. OfferedClean(s)'
  BY <1>0 DEF OfferedClean, Offered, Written, Holding
<1>4. GivenClean(s)'
  BY <1>0 DEF GivenClean, Written, Holding
<1>5. HolderIsCurrent(s)'
  BY <1>0 DEF HolderIsCurrent, OnSlot, Holding, Written
<1>6. HeadersInFlight(s)'
  BY <1>0 DEF HeadersInFlight, OnSlot, Written
<1>7. HandlerServes(s)'
  BY <1>0 DEF HandlerServes, OnSlot, Written
<1>8. WireOrder(s)'
  BY <1>0 DEF WireOrder
<1>9. WireOwner(s)'
  BY <1>0 DEF WireOwner, OnSlot, IsResponse
<1>10. ReadyAfterEnd(s)'
  BY <1>0 DEF ReadyAfterEnd, HasReady, OneHand, HasHeaders, Offered, Given, HandlerBusy,
       OfferedClean, HandlerServes
<1> QED BY <1>1, <1>2, <1>3, <1>4, <1>5, <1>6, <1>7, <1>8, <1>9, <1>10

\* dispatchCall writes the headers, or writes them to a stream that is gone.
LEMMA HeadersWritten ==
  ASSUME TypeOK, NEW s \in Slots, SlotInv(s),
         NEW c \in Calls, cst[c] = "hdr", slotOf[c] = s, cst'[c] = "body",
         \A d \in Calls : slotOf'[d] = slotOf[d] /\ (d # c => cst'[d] = cst[d]),
         GwSame(s), AgSame(s), toGw'[s] = toGw[s],
         toAg'[s] = toAg[s] \/ HeadersAppended(s, c)
  PROVE  SlotInv(s)'
<1> USE DEF SlotInv, GwSame, AgSame, HandlerSame, HeadersAppended
<1>0. cur[s] \in Calls \cup {NoCall} /\ NoCall \notin Calls
  BY DEF TypeOK, GatewayType, CallOrNone
<1>1. ~HasHeaders(s)
  BY DEF OneHand, Given
<1>2. OneHand(s)'
  BY <1>0, <1>1 DEF OneHand, HasReady, HasHeaders, Offered, Given, HandlerBusy, Written,
       Unborn, OfferedClean, GivenClean, HolderIsCurrent, OnSlot, Holding
<1>3. Unborn(s)'
  BY <1>0, <1>1 DEF Unborn
<1>4. OfferedClean(s)'
  BY <1>0, <1>1 DEF OfferedClean, Offered, Written, Holding
<1>5. GivenClean(s)'
  BY <1>0, <1>1 DEF GivenClean, Written, Holding
<1>6. HolderIsCurrent(s)'
  BY <1>0, <1>1 DEF HolderIsCurrent, OnSlot, Holding, Written
<1>7. HeadersInFlight(s)'
  <2>1. toGw[s] = <<>> /\ slotOf'[c] = s /\ cst'[c] \in Written /\ OnSlot(s, c)'
    BY DEF GivenClean, HolderIsCurrent, OnSlot, Written, Holding
  <2>2. CASE toAg'[s] = toAg[s]
    BY <1>1, <2>2 DEF HeadersInFlight, HasHeaders
  <2>3. CASE toAg'[s] # toAg[s]
    <3>0. /\ DOMAIN toAg[s] = 1 .. Len(toAg[s]) /\ Len(toAg[s]) \in Nat
          /\ DOMAIN toAg'[s] = 1 .. (Len(toAg[s]) + 1)
          /\ \A i \in 1 .. Len(toAg[s]) : toAg'[s][i] = toAg[s][i]
          /\ toAg'[s][Len(toAg[s]) + 1].c = c
      BY <2>3
    <3>1. \A i \in DOMAIN toAg'[s] : toAg'[s][i].k = "headers" =>
            i = Len(toAg[s]) + 1 /\ toAg'[s][i].c = c
      BY <1>1, <3>0 DEF HasHeaders
    <3> QED BY <2>1, <3>1 DEF HeadersInFlight, OnSlot
  <2> QED BY <2>2, <2>3
<1>8. HandlerServes(s)'
  BY <1>0, <1>1 DEF HandlerServes, OnSlot, Written
<1>9. WireOrder(s)'
  BY <1>0, <1>1 DEF WireOrder
<1>10. WireOwner(s)'
  BY <1>0, <1>1 DEF WireOwner, OnSlot, IsResponse
<1>11. ReadyAfterEnd(s)'
  BY <1>0, <1>1 DEF ReadyAfterEnd, HasReady
<1> QED BY <1>2, <1>3, <1>4, <1>5, <1>6, <1>7, <1>8, <1>9, <1>10, <1>11

\* slot.run opens the stream and sends the first Ready.
LEMMA SlotBorn ==
  ASSUME TypeOK, NEW s \in Slots, SlotInv(s),
         apc[s] = "unopened", apc'[s] = "open",
         DOMAIN toGw'[s] = {1}, toGw'[s][1].k = "ready",
         toAg'[s] = toAg[s], GwSame(s), HandlerSame(s), Calm(s)
  PROVE  SlotInv(s)'
<1> USE DEF SlotInv, GwSame, HandlerSame, Calm
<1>0. cur[s] \in Calls \cup {NoCall} /\ NoCall \notin Calls
  BY DEF TypeOK, GatewayType, CallOrNone
<1>1. OneHand(s)'
  BY <1>0 DEF OneHand, HasReady, HasHeaders, Offered, Given, HandlerBusy, Written, Unborn,
       OfferedClean, GivenClean, HolderIsCurrent, OnSlot, Holding
<1>2. Unborn(s)'
  BY <1>0 DEF Unborn
<1>3. OfferedClean(s)'
  BY <1>0 DEF OfferedClean, Offered, Written, Holding, Unborn, GivenClean,
       HolderIsCurrent, OnSlot
<1>4. GivenClean(s)'
  BY <1>0 DEF GivenClean, Written, Holding, Unborn, OfferedClean, Offered,
       HolderIsCurrent, OnSlot
<1>5. HolderIsCurrent(s)'
  BY <1>0 DEF HolderIsCurrent, OnSlot, Holding, Written
<1>6. HeadersInFlight(s)'
  BY <1>0 DEF HeadersInFlight, OnSlot, Written, Unborn, OfferedClean, Offered, GivenClean,
       HolderIsCurrent, Holding
<1>7. HandlerServes(s)'
  BY <1>0 DEF HandlerServes, OnSlot, Written, Unborn, OfferedClean, Offered, GivenClean,
       HolderIsCurrent, Holding
<1>8. WireOrder(s)'
  BY <1>0 DEF WireOrder
<1>9. WireOwner(s)'
  BY <1>0 DEF WireOwner, OnSlot, IsResponse
<1>10. ReadyAfterEnd(s)'
  BY <1>0 DEF ReadyAfterEnd, HasReady, Unborn, OfferedClean, Offered, GivenClean,
       HolderIsCurrent, OnSlot, Holding, Written
<1> QED BY <1>1, <1>2, <1>3, <1>4, <1>5, <1>6, <1>7, <1>8, <1>9, <1>10

\* slot.begin on the Agent: the headers are read and the handler starts.
LEMMA RequestStarted ==
  ASSUME TypeOK, NEW s \in Slots, SlotInv(s),
         Popped(toAg[s], toAg'[s]),
         toAg[s][1].k = "headers", hreq'[s] = toAg[s][1].c, active'[s] = hreq'[s], hpc'[s] = "run", toAg[s] # <<>>,
         toGw'[s] = toGw[s], GwSame(s), apc'[s] = apc[s], stream'[s] = stream[s], Calm(s),
         toGw[s] = <<>> => DOMAIN toGw[s] = {}
  PROVE  SlotInv(s)'
<1> USE DEF SlotInv, GwSame, Calm
<1>0. cur[s] \in Calls \cup {NoCall} /\ NoCall \notin Calls
  BY DEF TypeOK, GatewayType, CallOrNone
<1>1. 1 \in DOMAIN toAg[s] /\ \A i \in DOMAIN toAg'[s] : \E j \in DOMAIN toAg[s] :
        j # 1 /\ toAg'[s][i] = toAg[s][j]
  BY DEF Popped
<1>2. HasHeaders(s) /\ ~HasHeaders(s)'
  BY <1>1 DEF HasHeaders, HeadersInFlight
<1>3. OneHand(s)'
  <2>1. toGw[s] = <<>> /\ ~HasReady(s)'
    BY <1>1 DEF HeadersInFlight, HasReady
  <2>2. ~Offered(s)' /\ ~Given(s)'
    BY <1>2 DEF OneHand, Offered, Given, Written
  <2> QED BY <1>2, <2>1, <2>2 DEF OneHand
<1>4. Unborn(s)'
  BY <1>0, <1>1, <1>2 DEF Unborn
<1>5. OfferedClean(s)'
  BY <1>0, <1>1, <1>2 DEF OfferedClean, Offered, Written, Holding
<1>6. GivenClean(s)'
  BY <1>0, <1>1, <1>2 DEF GivenClean, Written, Holding
<1>7. HolderIsCurrent(s)'
  BY <1>0, <1>1, <1>2 DEF HolderIsCurrent, OnSlot, Holding, Written
<1>8. HeadersInFlight(s)'
  BY <1>2 DEF HeadersInFlight, HasHeaders
<1>9. HandlerServes(s)'
  <2>1. PICK c \in Calls : c = toAg[s][1].c /\ slotOf[c] = s /\ cst[c] \in Written /\ OnSlot(s, c)
    BY <1>1 DEF HeadersInFlight
  <2>2. \A i \in DOMAIN toGw'[s] : FALSE
    BY <1>1 DEF HeadersInFlight
  <2>3. slotOf'[c] = s
    BY <2>1
  <2>4. cst'[c] \in Written
    BY <2>1 DEF Written
  <2> QED BY <2>1, <2>2, <2>3, <2>4 DEF HandlerServes, OnSlot
<1>10. WireOrder(s)'
  BY <1>0, <1>1, <1>2 DEF WireOrder
<1>11. WireOwner(s)'
  BY <1>0, <1>1, <1>2 DEF WireOwner, OnSlot, IsResponse
<1>12. ReadyAfterEnd(s)'
  BY <1>0, <1>1, <1>2 DEF ReadyAfterEnd, HasReady
<1> QED BY <1>3, <1>4, <1>5, <1>6, <1>7, <1>8, <1>9, <1>10, <1>11, <1>12

\* slotSink.Data: the handler adds a chunk of its own request.
LEMMA ChunkSent ==
  ASSUME TypeOK, NEW s \in Slots, SlotInv(s),
         DOMAIN toGw[s] = 1 .. Len(toGw[s]), Len(toGw[s]) \in Nat,
         DOMAIN toGw'[s] = 1 .. (Len(toGw[s]) + 1),
         \A i \in 1 .. Len(toGw[s]) : toGw'[s][i] = toGw[s][i],
         NEW f, toGw'[s][Len(toGw[s]) + 1] = f,
         f.k \in {"data", "big"}, f.c = hreq[s], f.k = "big" => f.c \in BigCalls, hpc[s] = "run",
         toAg'[s] = toAg[s], GwSame(s), AgSame(s), Calm(s)
  PROVE  SlotInv(s)'
<1> USE DEF SlotInv, GwSame, AgSame, HandlerSame, Calm
<1>0. cur[s] \in Calls \cup {NoCall} /\ NoCall \notin Calls
  BY DEF TypeOK, GatewayType, CallOrNone
<1>1. /\ DOMAIN toGw'[s] = DOMAIN toGw[s] \cup {Len(toGw[s]) + 1}
      /\ \A i \in DOMAIN toGw[s] : toGw'[s][i] = toGw[s][i]
      /\ \A i, j \in DOMAIN toGw'[s] : i < j => i \in DOMAIN toGw[s]
  OBVIOUS
<1>2. OneHand(s)'
  <2>1. HasReady(s)' => HasReady(s)
    BY <1>1 DEF HasReady
  <2>2. Given(s)' => Given(s)
    BY DEF Given, Written, Calm
  <2> QED BY <2>1, <2>2 DEF OneHand, HasHeaders, Offered, HandlerBusy
<1>3. Unborn(s)'
  BY <1>0, <1>1 DEF Unborn
<1>4. OfferedClean(s)'
  BY <1>0, <1>1 DEF OfferedClean, Offered, Written, Holding, OneHand, HasReady,
       HasHeaders, Given, HandlerBusy, HandlerServes
<1>5. GivenClean(s)'
  BY <1>0, <1>1 DEF GivenClean, Written, Holding, OneHand, HasReady, HasHeaders, Offered,
       Given, HandlerBusy, OfferedClean, HandlerServes
<1>6. HolderIsCurrent(s)'
  BY <1>0, <1>1 DEF HolderIsCurrent, OnSlot, Holding, Written
<1>7. HeadersInFlight(s)'
  BY <1>0, <1>1 DEF HeadersInFlight, OnSlot, Written, OneHand, HasReady, HasHeaders,
       Offered, Given, HandlerBusy, OfferedClean, HandlerServes
<1>8. HandlerServes(s)'
  BY <1>0, <1>1 DEF HandlerServes, OnSlot, Written
<1>9. WireOrder(s)'
  BY <1>0, <1>1 DEF WireOrder, OneHand, HasReady, HasHeaders, Offered, Given, HandlerBusy,
       OfferedClean, HandlerServes
<1>10. WireOwner(s)'
  BY <1>0, <1>1 DEF WireOwner, OnSlot, IsResponse, OneHand, HasReady, HasHeaders, Offered,
       Given, HandlerBusy, OfferedClean, HandlerServes
<1>11. ReadyAfterEnd(s)'
  BY <1>0, <1>1 DEF ReadyAfterEnd, HasReady
<1> QED BY <1>2, <1>3, <1>4, <1>5, <1>6, <1>7, <1>8, <1>9, <1>10, <1>11

\* sendEnd: the ResponseEnd is the last frame of the request.
LEMMA EndSent ==
  ASSUME TypeOK, NEW s \in Slots, SlotInv(s),
         DOMAIN toGw[s] = 1 .. Len(toGw[s]), Len(toGw[s]) \in Nat,
         DOMAIN toGw'[s] = 1 .. (Len(toGw[s]) + 1),
         \A i \in 1 .. Len(toGw[s]) : toGw'[s][i] = toGw[s][i],
         NEW f, toGw'[s][Len(toGw[s]) + 1] = f,
         f.k = "end", f.c = hreq[s], hpc[s] = "end", hpc'[s] \in {"park", "retire"},
         hreq'[s] = hreq[s], active'[s] = active[s], apc'[s] = apc[s], stream'[s] = stream[s],
         toAg'[s] = toAg[s], GwSame(s), Calm(s)
  PROVE  SlotInv(s)'
<1> USE DEF SlotInv, GwSame, Calm
<1>0. cur[s] \in Calls \cup {NoCall} /\ NoCall \notin Calls
  BY DEF TypeOK, GatewayType, CallOrNone
<1>1. /\ DOMAIN toGw'[s] = DOMAIN toGw[s] \cup {Len(toGw[s]) + 1}
      /\ \A i \in DOMAIN toGw[s] : toGw'[s][i] = toGw[s][i]
      /\ \A i, j \in DOMAIN toGw'[s] : i < j => i \in DOMAIN toGw[s]
  OBVIOUS
<1>2. OneHand(s)'
  <2>1. HasReady(s)' => HasReady(s)
    BY <1>1 DEF HasReady
  <2>2. Given(s)' => Given(s)
    BY DEF Given, Written, Calm
  <2> QED BY <2>1, <2>2 DEF OneHand, HasHeaders, Offered, HandlerBusy
<1>3. Unborn(s)'
  BY <1>0, <1>1 DEF Unborn
<1>4. OfferedClean(s)'
  BY <1>0, <1>1 DEF OfferedClean, Offered, Written, Holding, OneHand, HasReady,
       HasHeaders, Given, HandlerBusy, HandlerServes
<1>5. GivenClean(s)'
  BY <1>0, <1>1 DEF GivenClean, Written, Holding, OneHand, HasReady, HasHeaders, Offered,
       Given, HandlerBusy, OfferedClean, HandlerServes
<1>6. HolderIsCurrent(s)'
  BY <1>0, <1>1 DEF HolderIsCurrent, OnSlot, Holding, Written
<1>7. HeadersInFlight(s)'
  BY <1>0, <1>1 DEF HeadersInFlight, OnSlot, Written, OneHand, HasReady, HasHeaders,
       Offered, Given, HandlerBusy, OfferedClean, HandlerServes
<1>8. HandlerServes(s)'
  BY <1>0, <1>1 DEF HandlerServes, OnSlot, Written
<1>9. WireOrder(s)'
  BY <1>0, <1>1 DEF WireOrder, OneHand, HasReady, HasHeaders, Offered, Given, HandlerBusy,
       OfferedClean, HandlerServes
<1>10. WireOwner(s)'
  BY <1>0, <1>1 DEF WireOwner, OnSlot, IsResponse, OneHand, HasReady, HasHeaders, Offered,
       Given, HandlerBusy, OfferedClean, HandlerServes
<1>11. ReadyAfterEnd(s)'
  BY <1>0, <1>1 DEF ReadyAfterEnd, HasReady
<1> QED BY <1>2, <1>3, <1>4, <1>5, <1>6, <1>7, <1>8, <1>9, <1>10, <1>11

\* The handler returns, or gives the slot up, without writing.
LEMMA HandlerMoves ==
  ASSUME TypeOK, NEW s \in Slots, SlotInv(s),
         HandlerLeaves(s),
         active'[s] = NoCall, hreq'[s] = hreq[s],
         apc'[s] = "unopened" => apc[s] = "unopened" /\ stream'[s] = stream[s],
         toGw'[s] = toGw[s], toAg'[s] = toAg[s], GwSame(s), Calm(s)
  PROVE  SlotInv(s)'
<1> USE DEF SlotInv, GwSame, Calm, HandlerLeaves
<1>0. cur[s] \in Calls \cup {NoCall} /\ NoCall \notin Calls
  BY DEF TypeOK, GatewayType, CallOrNone
<1>1. OneHand(s)'
  BY <1>0 DEF OneHand, HasReady, HasHeaders, Offered, Given, HandlerBusy, Written
<1>2. Unborn(s)'
  BY <1>0 DEF Unborn
<1>3. OfferedClean(s)'
  BY <1>0 DEF OfferedClean, Offered, Written, Holding
<1>4. GivenClean(s)'
  BY <1>0 DEF GivenClean, Written, Holding
<1>5. HolderIsCurrent(s)'
  BY <1>0 DEF HolderIsCurrent, OnSlot, Holding, Written
<1>6. HeadersInFlight(s)'
  BY <1>0 DEF HeadersInFlight, OnSlot, Written
<1>7. HandlerServes(s)'
  BY <1>0 DEF HandlerServes, OnSlot, Written
<1>8. WireOrder(s)'
  BY <1>0 DEF WireOrder
<1>9. WireOwner(s)'
  BY <1>0 DEF WireOwner, OnSlot, IsResponse
<1>10. ReadyAfterEnd(s)'
  BY <1>0 DEF ReadyAfterEnd, HasReady
<1> QED BY <1>1, <1>2, <1>3, <1>4, <1>5, <1>6, <1>7, <1>8, <1>9, <1>10

\* park: the Ready follows the ResponseEnd.
LEMMA ReadySent ==
  ASSUME TypeOK, NEW s \in Slots, SlotInv(s),
         DOMAIN toGw[s] = 1 .. Len(toGw[s]), Len(toGw[s]) \in Nat,
         DOMAIN toGw'[s] = 1 .. (Len(toGw[s]) + 1),
         \A i \in 1 .. Len(toGw[s]) : toGw'[s][i] = toGw[s][i],
         NEW f, toGw'[s][Len(toGw[s]) + 1] = f,
         f.k = "ready", hpc[s] = "park", hpc'[s] = "idle",
         hreq'[s] = hreq[s], active'[s] = active[s], apc'[s] = apc[s], stream'[s] = stream[s],
         toAg'[s] = toAg[s], GwSame(s), Calm(s)
  PROVE  SlotInv(s)'
<1> USE DEF SlotInv, GwSame, Calm
<1>0. cur[s] \in Calls \cup {NoCall} /\ NoCall \notin Calls
  BY DEF TypeOK, GatewayType, CallOrNone
<1>1. /\ DOMAIN toGw'[s] = DOMAIN toGw[s] \cup {Len(toGw[s]) + 1}
      /\ \A i \in DOMAIN toGw[s] : toGw'[s][i] = toGw[s][i]
      /\ \A i, j \in DOMAIN toGw'[s] : i < j => i \in DOMAIN toGw[s]
  OBVIOUS
<1>2. OneHand(s)'
  BY <1>0, <1>1 DEF OneHand, HasReady, HasHeaders, Offered, Given, HandlerBusy, Written
<1>3. Unborn(s)'
  BY <1>0, <1>1 DEF Unborn
<1>4. OfferedClean(s)'
  BY <1>0, <1>1 DEF OfferedClean, Offered, Written, Holding, OneHand, HasReady,
       HasHeaders, Given, HandlerBusy, HandlerServes
<1>5. GivenClean(s)'
  BY <1>0, <1>1 DEF GivenClean, Written, Holding, OneHand, HasReady, HasHeaders, Offered,
       Given, HandlerBusy, OfferedClean, HandlerServes
<1>6. HolderIsCurrent(s)'
  BY <1>0, <1>1 DEF HolderIsCurrent, OnSlot, Holding, Written
<1>7. HeadersInFlight(s)'
  BY <1>0, <1>1 DEF HeadersInFlight, OnSlot, Written, OneHand, HasReady, HasHeaders,
       Offered, Given, HandlerBusy, OfferedClean, HandlerServes
<1>8. HandlerServes(s)'
  BY <1>0, <1>1 DEF HandlerServes, OnSlot, Written
<1>9. WireOrder(s)'
  BY <1>0, <1>1, SMTT(20) DEF WireOrder, OneHand, HasReady, HasHeaders, Offered, Given, HandlerBusy,
       OfferedClean, HandlerServes
<1>10. WireOwner(s)'
  BY <1>0, <1>1 DEF WireOwner, OnSlot, IsResponse
<1>11. ReadyAfterEnd(s)'
  BY <1>0, <1>1 DEF ReadyAfterEnd, HasReady
<1> QED BY <1>2, <1>3, <1>4, <1>5, <1>6, <1>7, <1>8, <1>9, <1>10, <1>11

\* A queue without its first frame, as the lemmas on slots see it.
LEMMA PopPopped ==
  ASSUME NEW q \in Seq(Frame), q # <<>>
  PROVE  Popped(q, Tail(q)) /\ Head(q) = q[1]
BY PopFacts DEF Popped

\* A Ready at the head of a slot's queue is the only frame there.
LEMMA LastReady ==
  ASSUME NEW s \in Slots, SlotInv(s), toGw[s] \in Seq(Frame), toGw[s] # <<>>,
         Head(toGw[s]).k = "ready"
  PROVE  1 \in DOMAIN toGw[s] /\ toGw[s][1].k = "ready" /\ Tail(toGw[s]) = <<>>
<1>1. /\ Tail(toGw[s]) \in Seq(Frame) /\ Head(toGw[s]) = toGw[s][1]
      /\ DOMAIN toGw[s] = 1 .. Len(toGw[s]) /\ Len(toGw[s]) \in Nat \ {0}
      /\ DOMAIN Tail(toGw[s]) = 1 .. (Len(toGw[s]) - 1)
  BY PopFacts
<1>2. 1 \in DOMAIN toGw[s]
  BY <1>1
<1>3. Len(toGw[s]) = 1
  <2>1. SUFFICES ASSUME Len(toGw[s]) # 1 PROVE FALSE
    OBVIOUS
  <2>2. 2 \in DOMAIN toGw[s] /\ 1 < 2
    <3>1. \A n \in Nat \ {0} : n # 1 => 2 \in 1 .. n
      OBVIOUS
    <3>2. 2 \in 1 .. Len(toGw[s])
      BY <1>1, <2>1, <3>1, Zenon
    <3> QED BY <1>1, <3>2
  <2> QED BY <1>1, <1>2, <2>2 DEF SlotInv, WireOrder
<1>4. Len(Tail(toGw[s])) = 0
  BY <1>1, <1>3, LenProperties
<1> QED BY <1>1, <1>2, <1>4, EmptySeq

\* slot.close as a step of one slot.
LEMMA CloseSlotSlot ==
  ASSUME TypeOK, NEW s \in Slots, SlotInv(s), CloseSlot(s),
         gpc[s] \in {"read", "gone"}, apc[s] # "unopened",
         UNCHANGED <<toGw, toAg, gpc, stream, agv>>,
         Leaving(s)
  PROVE  SlotInv(s)'
<1>1. dead'[s] = TRUE /\ cur'[s] = NoCall /\ parked'[s] = FALSE
  BY DEF CloseSlot, TypeOK, GatewayType
<1>2. /\ gpc'[s] \in {"read", "gone"} /\ toGw'[s] = toGw[s] /\ toAg'[s] = toAg[s] /\ AgSame(s)
  BY DEF AgSame, HandlerSame, agv
<1> QED BY <1>1, <1>2, SlotClosed

\* The return of Serve as a step of one slot.
LEMMA ServeReturnsSlot ==
  ASSUME TypeOK, NEW s \in Slots, SlotInv(s), apc[s] # "unopened",
         ServeReturns(s) /\ UNCHANGED <<toAg, cst, slotOf, agv>>
  PROVE  SlotInv(s)'
<1>1. dead'[s] = TRUE /\ cur'[s] = NoCall /\ parked'[s] = FALSE
  BY DEF ServeReturns, CloseSlot, TypeOK, GatewayType
<1>2. gpc'[s] = "gone" /\ toGw'[s] = <<>> /\ toAg'[s] = toAg[s] /\ AgSame(s)
  BY DEF ServeReturns, AgSame, HandlerSame, agv, TypeOK, GatewayType, WireType
<1>3. DOMAIN toGw'[s] = {}
  BY <1>2, EmptySeq
<1>4. Leaving(s)
  BY DEF Leaving
<1> QED BY <1>1, <1>2, <1>3, <1>4, SlotClosed

\* A step of a Gateway reader, an Agent loop, a handler or the network keeps
\* the invariant of every slot.
LEMMA SlotActions ==
  ASSUME Custody, NEW t \in Slots, NEW s \in Slots,
         \/ Reader(s) \/ AgentLoop(s) \/ HandlerStep(s)
         \/ CloseDrained(s) \/ NetworkCut(s) \/ PoolRetire(s)
  PROVE  SlotInv(t)'
<1>0. TypeOK /\ IdleShape /\ SlotInv(t) /\ SlotInv(s)
  BY DEF Custody
<1>b. Unborn(t)
  BY <1>0 DEF SlotInv
<1> USE <1>0 DEF TypeOK, WireType, GatewayType, CallType, AgentType, Holding, wire, gwv, callv, agv
<1>1. CASE ServeFirst(s)
  <2>1. CASE t # s
    <3>1. toGw'[t] = toGw[t] /\ toAg'[t] = toAg[t] /\ GwSame(t) /\ AgSame(t) /\ Calm(t)
      BY <1>1, <2>1 DEF ServeFirst, GwSame, AgSame, HandlerSame, Calm
    <3> QED BY <3>1, SlotFrame
  <2>2. CASE t = s
    <3>1. /\ toGw[s] \in Seq(Frame) /\ toGw[s] # <<>> /\ toGw'[s] = Tail(toGw[s])
          /\ Head(toGw[s]).k = "ready"
      BY <1>1 DEF ServeFirst
    <3>2. 1 \in DOMAIN toGw[s] /\ toGw[s][1].k = "ready" /\ toGw'[s] = <<>>
      BY <1>0, <3>1, LastReady
    <3>3. ~dead[s] /\ cur[s] = NoCall /\ apc[s] # "unopened"
      BY <1>0, <1>1, <3>1 DEF ServeFirst, SlotInv, Unborn
    <3>4. /\ toAg'[s] = toAg[s] /\ parked'[s] = TRUE /\ gpc'[s] = "parking"
          /\ dead'[s] = dead[s] /\ cur'[s] = cur[s] /\ AgSame(s) /\ Calm(s)
      BY <1>1 DEF ServeFirst, AgSame, HandlerSame, Calm
    <3>5. DOMAIN toGw'[s] = {}
      BY <3>2, EmptySeq
    <3> QED BY <1>0, <2>2, <3>2, <3>3, <3>4, <3>5, SlotOffered
  <2> QED BY <2>1, <2>2
<1>2. CASE RouteIdle(s)
  <2>1. CASE t # s
    <3>1. toGw'[t] = toGw[t] /\ toAg'[t] = toAg[t] /\ GwSame(t) /\ AgSame(t) /\ Calm(t)
      BY <1>2, <2>1 DEF RouteIdle, ServeReturns, CloseSlot, EndStream, GwSame, AgSame, HandlerSame, Calm
    <3> QED BY <3>1, SlotFrame
  <2>2. CASE t = s
    <3>1. apc[s] # "unopened"
      BY <1>0, <1>2 DEF RouteIdle, SlotInv, Unborn
    <3>2. ServeReturns(s) /\ UNCHANGED <<toAg, cst, slotOf, agv>>
      BY <1>2 DEF RouteIdle
    <3> QED BY <1>0, <2>2, <3>1, <3>2, ServeReturnsSlot
  <2> QED BY <2>1, <2>2
<1>3. CASE RouteTooLarge(s)
  <2>1. CASE t # s
    <3>1. toGw'[t] = toGw[t] /\ toAg'[t] = toAg[t] /\ GwSame(t) /\ AgSame(t) /\ Calm(t)
      BY <1>3, <2>1 DEF RouteTooLarge, ServeReturns, CloseSlot, EndStream, GwSame, AgSame, HandlerSame, Calm
    <3> QED BY <3>1, SlotFrame
  <2>2. CASE t = s
    <3>1. apc[s] # "unopened"
      BY <1>0, <1>3 DEF RouteTooLarge, SlotInv, Unborn
    <3>2. ServeReturns(s) /\ UNCHANGED <<toAg, cst, slotOf, agv>>
      BY <1>3 DEF RouteTooLarge
    <3> QED BY <1>0, <2>2, <3>1, <3>2, ServeReturnsSlot
  <2> QED BY <2>1, <2>2
<1>4. CASE StreamEnds(s)
  <2>1. CASE t # s
    <3>1. toGw'[t] = toGw[t] /\ toAg'[t] = toAg[t] /\ GwSame(t) /\ AgSame(t) /\ Calm(t)
      BY <1>4, <2>1 DEF StreamEnds, ServeReturns, CloseSlot, EndStream, GwSame, AgSame, HandlerSame, Calm
    <3> QED BY <3>1, SlotFrame
  <2>2. CASE t = s
    <3>1. apc[s] # "unopened"
      BY <1>0, <1>4 DEF StreamEnds, SlotInv, Unborn
    <3>2. ServeReturns(s) /\ UNCHANGED <<toAg, cst, slotOf, agv>>
      BY <1>4 DEF StreamEnds
    <3> QED BY <1>0, <2>2, <3>1, <3>2, ServeReturnsSlot
  <2> QED BY <2>1, <2>2
<1>5. CASE ParkOffer(s)
  <2>1. CASE t # s
    <3>1. toGw'[t] = toGw[t] /\ toAg'[t] = toAg[t] /\ GwSame(t) /\ AgSame(t) /\ Calm(t)
      BY <1>5, <2>1 DEF ParkOffer, ServeReturns, CloseSlot, EndStream, GwSame, AgSame, HandlerSame, Calm
    <3> QED BY <3>1, SlotFrame
  <2>2. CASE t = s /\ draining
    <3>1. apc[s] # "unopened"
      BY <1>0, <1>5 DEF ParkOffer, SlotInv, Unborn
    <3>2. ServeReturns(s) /\ UNCHANGED <<toAg, cst, slotOf, agv>>
      BY <1>5, <2>2 DEF ParkOffer
    <3> QED BY <1>0, <2>2, <3>1, <3>2, ServeReturnsSlot
  <2>3. CASE t = s /\ ~draining
    <3>1. /\ gpc[s] = "parking" /\ gpc'[s] = "read" /\ toGw'[s] = toGw[s] /\ toAg'[s] = toAg[s]
          /\ parked'[s] = parked[s] /\ dead'[s] = dead[s] /\ cur'[s] = cur[s]
          /\ AgSame(s) /\ Calm(s)
      BY <1>5, <2>3 DEF ParkOffer, AgSame, HandlerSame, Calm
    <3> QED BY <1>0, <2>3, <3>1, SlotListed
  <2> QED BY <2>1, <2>2, <2>3
<1>6. CASE ReadReady(s)
  <2>1. CASE t # s
    <3>1. toGw'[t] = toGw[t] /\ toAg'[t] = toAg[t] /\ GwSame(t) /\ AgSame(t) /\ Calm(t)
      BY <1>6, <2>1 DEF ReadReady, ServeReturns, CloseSlot, EndStream, GwSame, AgSame, HandlerSame, Calm
    <3> QED BY <3>1, SlotFrame
  <2>2. CASE t = s /\ (cur[s] # NoCall \/ dead[s])
    <3>1. apc[s] # "unopened"
      BY <1>0, <1>6 DEF ReadReady, SlotInv, Unborn
    <3>2. ServeReturns(s) /\ UNCHANGED <<toAg, cst, slotOf, agv>>
      BY <1>6, <2>2 DEF ReadReady
    <3> QED BY <1>0, <2>2, <3>1, <3>2, ServeReturnsSlot
  <2>3. CASE t = s /\ ~(cur[s] # NoCall \/ dead[s])
    <3>1. /\ toGw[s] \in Seq(Frame) /\ toGw[s] # <<>> /\ toGw'[s] = Tail(toGw[s])
          /\ Head(toGw[s]).k = "ready"
      BY <1>6, <2>3 DEF ReadReady
    <3>2. 1 \in DOMAIN toGw[s] /\ toGw[s][1].k = "ready" /\ toGw'[s] = <<>>
      BY <1>0, <3>1, LastReady
    <3>3. ~dead[s] /\ cur[s] = NoCall /\ apc[s] # "unopened"
      BY <1>0, <1>6, <3>1, <2>3 DEF ReadReady, SlotInv, Unborn
    <3>4. /\ toAg'[s] = toAg[s] /\ parked'[s] = TRUE /\ gpc'[s] = "parking"
          /\ dead'[s] = dead[s] /\ cur'[s] = cur[s] /\ AgSame(s) /\ Calm(s)
      BY <1>6, <2>3 DEF ReadReady, AgSame, HandlerSame, Calm
    <3>5. DOMAIN toGw'[s] = {}
      BY <3>2, EmptySeq
    <3> QED BY <1>0, <2>3, <3>2, <3>3, <3>4, <3>5, SlotOffered
  <2> QED BY <2>1, <2>2, <2>3
<1>7. CASE RouteDrop(s)
  <2>1. CASE t # s
    <3>1. toGw'[t] = toGw[t] /\ toAg'[t] = toAg[t] /\ GwSame(t) /\ AgSame(t) /\ Calm(t)
      BY <1>7, <2>1 DEF RouteDrop, GwSame, AgSame, HandlerSame, Calm
    <3> QED BY <3>1, SlotFrame
  <2>2. CASE t = s
    <3>1. toGw[s] \in Seq(Frame) /\ toGw[s] # <<>> /\ toGw'[s] = Tail(toGw[s])
      BY <1>7 DEF RouteDrop
    <3>2. Popped(toGw[s], toGw'[s]) /\ Head(toGw[s]) = toGw[s][1]
      BY <3>1, PopPopped
    <3>3. toGw[s][1].c = cur[s] /\ cur[s] # NoCall /\ IsResponse(toGw[s][1])
      BY <1>0, <1>7, <3>2 DEF RouteDrop, SlotInv, HolderIsCurrent, WireOwner, OnSlot, IsResponse, Popped
    <3>4. SameId(toGw[s][1].c, cur[s])
      BY <3>3 DEF SameId
    <3>5. /\ cur'[s] = IF toGw[s][1].k = "end" THEN NoCall ELSE cur[s]
          /\ toGw[s][1].k = "end" => cst'[cur[s]] = "closed"
          /\ Answered(s)
      BY <1>7, <3>2, <3>3, <3>4 DEF RouteDrop, Released, Answered
    <3>6. /\ toAg'[s] = toAg[s] /\ gpc'[s] = gpc[s] /\ parked'[s] = parked[s] /\ dead'[s] = dead[s]
          /\ AgSame(s) /\ gpc[s] # "none"
      BY <1>7 DEF RouteDrop, AgSame, HandlerSame
    <3> QED BY <1>0, <2>2, <3>1, <3>2, <3>3, <3>5, <3>6, FrameRouted
  <2> QED BY <2>1, <2>2
<1>8. CASE CloseDrained(s)
  <2>1. CASE t # s
    <3>1. toGw'[t] = toGw[t] /\ toAg'[t] = toAg[t] /\ GwSame(t) /\ AgSame(t) /\ Calm(t)
      BY <1>8, <2>1 DEF CloseDrained, CloseSlot, GwSame, AgSame, HandlerSame, Calm
    <3> QED BY <3>1, SlotFrame
  <2>2. CASE t = s
    <3>1. gpc[s] \in {"read", "gone"} /\ apc[s] # "unopened"
      BY <1>0, <1>8 DEF CloseDrained, IdleShape, SlotInv, Unborn
    <3>2. CloseSlot(s) /\ UNCHANGED <<toGw, toAg, gpc, cst, slotOf, stream, agv>>
      BY <1>8 DEF CloseDrained
    <3>3. Leaving(s)
      BY <3>2 DEF Leaving
    <3> QED BY <1>0, <2>2, <3>1, <3>2, <3>3, CloseSlotSlot
  <2> QED BY <2>1, <2>2
<1>9. CASE NetworkCut(s)
  <2>1. toGw'[t] = toGw[t] /\ toAg'[t] = toAg[t] /\ GwSame(t) /\ AgSame(t) /\ Calm(t)
    BY <1>9, <1>b DEF NetworkCut, CutStream, Unborn, GwSame, AgSame, HandlerSame, Calm
  <2> QED BY <2>1, SlotFrame
<1>10. CASE PoolRetire(s)
  <2>1. toGw'[t] = toGw[t] /\ toAg'[t] = toAg[t] /\ GwSame(t) /\ AgSame(t) /\ Calm(t)
    BY <1>10, <1>b DEF PoolRetire, CutStream, Unborn, GwSame, AgSame, HandlerSame, Calm
  <2> QED BY <2>1, SlotFrame
<1>11. CASE RunReturns(s)
  <2>1. toGw'[t] = toGw[t] /\ toAg'[t] = toAg[t] /\ GwSame(t) /\ AgSame(t) /\ Calm(t)
    BY <1>11, <1>b DEF RunReturns, GwSame, AgSame, HandlerSame, Calm
  <2> QED BY <2>1, SlotFrame
<1>12. CASE OpenSlot(s)
  <2>1. CASE t # s
    <3>1. toGw'[t] = toGw[t] /\ toAg'[t] = toAg[t] /\ GwSame(t) /\ AgSame(t) /\ Calm(t)
      BY <1>12, <2>1 DEF OpenSlot, GwSame, AgSame, HandlerSame, Calm
    <3> QED BY <3>1, SlotFrame
  <2>2. CASE t = s
    <3>1. toGw[s] = <<>> /\ toGw'[s] = Append(toGw[s], Ready)
      BY <1>0, <1>12 DEF OpenSlot, SlotInv, Unborn
    <3>2. DOMAIN toGw'[s] = {1} /\ toGw'[s][1].k = "ready"
      BY <3>1 DEF Ready
    <3>3. /\ apc[s] = "unopened" /\ apc'[s] = "open" /\ toAg'[s] = toAg[s]
          /\ GwSame(s) /\ HandlerSame(s) /\ Calm(s)
      BY <1>12 DEF OpenSlot, GwSame, HandlerSame, Calm
    <3> QED BY <1>0, <2>2, <3>2, <3>3, SlotBorn
  <2> QED BY <2>1, <2>2
<1>13. CASE RecvHeaders(s)
  <2>1. CASE t # s
    <3>1. toGw'[t] = toGw[t] /\ toAg'[t] = toAg[t] /\ GwSame(t) /\ AgSame(t) /\ Calm(t)
      BY <1>13, <2>1 DEF RecvHeaders, StopLoop, CutStream, GwSame, AgSame, HandlerSame, Calm
    <3> QED BY <3>1, SlotFrame
  <2>2. CASE t = s
    <3>1. toAg[s] \in Seq(Frame) /\ toAg[s] # <<>> /\ Head(toAg[s]).k = "headers"
      BY <1>13 DEF RecvHeaders
    <3>2. 1 \in DOMAIN toAg[s] /\ Head(toAg[s]) = toAg[s][1]
      BY <3>1, PopFacts
    <3>3. active[s] = NoCall
      BY <1>0, <3>1, <3>2 DEF SlotInv, OneHand, HasHeaders, HandlerBusy, HandlerServes
    <3>4. /\ toAg'[s] = Tail(toAg[s]) /\ hreq'[s] = toAg[s][1].c /\ active'[s] = hreq'[s]
          /\ hpc'[s] = "run" /\ toGw'[s] = toGw[s] /\ apc'[s] = apc[s] /\ stream'[s] = stream[s]
      BY <1>13, <3>2, <3>3 DEF RecvHeaders
    <3>5. GwSame(s) /\ Calm(s)
      BY <1>13 DEF RecvHeaders, GwSame, Calm
    <3>6. Popped(toAg[s], toAg'[s])
      BY <3>1, <3>4, PopPopped
    <3>7. toGw[s] = <<>> => DOMAIN toGw[s] = {}
      BY EmptySeq
    <3> QED BY <1>0, <2>2, <3>1, <3>2, <3>4, <3>5, <3>6, <3>7, RequestStarted
  <2> QED BY <2>1, <2>2
<1>14. CASE RecvData(s)
  <2>1. CASE t # s
    <3>1. toGw'[t] = toGw[t] /\ toAg'[t] = toAg[t] /\ GwSame(t) /\ AgSame(t) /\ Calm(t)
      BY <1>14, <2>1 DEF RecvData, AgentTakes, GwSame, AgSame, HandlerSame, Calm
    <3> QED BY <3>1, SlotFrame
  <2>2. CASE t = s
    <3>1. toAg[s] \in Seq(Frame) /\ toAg[s] # <<>> /\ toAg'[s] = Tail(toAg[s])
      BY <1>14 DEF RecvData, AgentTakes
    <3>2. toGw'[s] = toGw[s] /\ GwSame(s) /\ AgSame(s) /\ Calm(s)
      BY <1>14 DEF RecvData, GwSame, AgSame, HandlerSame, Calm
    <3>3. gpc[s] # "none"
      BY <1>0, <3>1 DEF SlotInv, Unborn
    <3>4. Popped(toAg[s], toAg'[s])
      BY <3>1, PopPopped
    <3> QED BY <1>0, <2>2, <3>2, <3>3, <3>4, AgentReads DEF Popped
  <2> QED BY <2>1, <2>2
<1>15. CASE RecvEnd(s)
  <2>1. CASE t # s
    <3>1. toGw'[t] = toGw[t] /\ toAg'[t] = toAg[t] /\ GwSame(t) /\ AgSame(t) /\ Calm(t)
      BY <1>15, <2>1 DEF RecvEnd, AgentTakes, GwSame, AgSame, HandlerSame, Calm
    <3> QED BY <3>1, SlotFrame
  <2>2. CASE t = s
    <3>1. toAg[s] \in Seq(Frame) /\ toAg[s] # <<>> /\ toAg'[s] = Tail(toAg[s])
      BY <1>15 DEF RecvEnd, AgentTakes
    <3>2. toGw'[s] = toGw[s] /\ GwSame(s) /\ AgSame(s) /\ Calm(s)
      BY <1>15 DEF RecvEnd, GwSame, AgSame, HandlerSame, Calm
    <3>3. gpc[s] # "none"
      BY <1>0, <3>1 DEF SlotInv, Unborn
    <3>4. Popped(toAg[s], toAg'[s])
      BY <3>1, PopPopped
    <3> QED BY <1>0, <2>2, <3>2, <3>3, <3>4, AgentReads DEF Popped
  <2> QED BY <2>1, <2>2
<1>16. CASE RecvCancel(s)
  <2>1. CASE t # s
    <3>1. toGw'[t] = toGw[t] /\ toAg'[t] = toAg[t] /\ GwSame(t) /\ AgSame(t) /\ Calm(t)
      BY <1>16, <2>1 DEF RecvCancel, AgentTakes, GwSame, AgSame, HandlerSame, Calm
    <3> QED BY <3>1, SlotFrame
  <2>2. CASE t = s
    <3>1. toAg[s] \in Seq(Frame) /\ toAg[s] # <<>> /\ toAg'[s] = Tail(toAg[s])
      BY <1>16 DEF RecvCancel, AgentTakes
    <3>2. toGw'[s] = toGw[s] /\ GwSame(s) /\ AgSame(s) /\ Calm(s)
      BY <1>16 DEF RecvCancel, GwSame, AgSame, HandlerSame, Calm
    <3>3. gpc[s] # "none"
      BY <1>0, <3>1 DEF SlotInv, Unborn
    <3>4. Popped(toAg[s], toAg'[s])
      BY <3>1, PopPopped
    <3> QED BY <1>0, <2>2, <3>2, <3>3, <3>4, AgentReads DEF Popped
  <2> QED BY <2>1, <2>2
<1>17. CASE RecvErr(s)
  <2>1. CASE t # s
    <3>1. toGw'[t] = toGw[t] /\ toAg'[t] = toAg[t] /\ GwSame(t) /\ AgSame(t) /\ Calm(t)
      BY <1>17, <2>1 DEF RecvErr, StopLoop, GwSame, AgSame, HandlerSame, Calm
    <3> QED BY <3>1, SlotFrame
  <2>2. CASE t = s
    <3>1. toGw'[s] = toGw[s] /\ GwSame(s) /\ AgSame(s) /\ Calm(s)
      BY <1>17 DEF RecvErr, StopLoop, GwSame, AgSame, HandlerSame, Calm
    <3>2. toAg'[s] = <<>>
      BY <1>17 DEF RecvErr, StopLoop
    <3>3. CASE gpc[s] = "none"
      <4>1. toAg'[s] = toAg[s]
        BY <1>0, <3>2, <3>3 DEF SlotInv, Unborn
      <4> QED BY <1>0, <2>2, <3>1, <4>1, SlotFrame
    <3>4. CASE gpc[s] # "none"
      <4>1. DOMAIN toAg'[s] = {}
        BY <3>2, EmptySeq
      <4> QED BY <1>0, <2>2, <3>1, <3>4, <4>1, AgentReads
    <3> QED BY <3>3, <3>4
  <2> QED BY <2>1, <2>2
<1>18. CASE SinkData(s)
  <2>1. CASE t # s
    <3>1. toGw'[t] = toGw[t] /\ toAg'[t] = toAg[t] /\ GwSame(t) /\ AgSame(t) /\ Calm(t)
      BY <1>18, <2>1 DEF SinkData, GwSame, AgSame, HandlerSame, Calm
    <3> QED BY <3>1, SlotFrame
  <2>2. CASE t = s
    <3> DEFINE f == Msg(IF hreq[s] \in BigCalls THEN "big" ELSE "data", hreq[s])
    <3>0. /\ f \in Frame /\ f.k \in {"data", "big"} /\ f.c = hreq[s]
          /\ f.k = "big" => f.c \in BigCalls
      BY <1>18, FrameFacts DEF SinkData
    <3>1. toGw'[s] = Append(toGw[s], f) /\ toGw[s] \in Seq(Frame)
      BY <1>18 DEF SinkData
    <3> HIDE DEF f
    <3>2. /\ DOMAIN toGw[s] = 1 .. Len(toGw[s]) /\ Len(toGw[s]) \in Nat
          /\ DOMAIN toGw'[s] = 1 .. (Len(toGw[s]) + 1)
          /\ \A i \in 1 .. Len(toGw[s]) : toGw'[s][i] = toGw[s][i]
          /\ toGw'[s][Len(toGw[s]) + 1] = f
      BY <3>0, <3>1, PushFacts
    <3>3. hpc[s] = "run" /\ toAg'[s] = toAg[s] /\ GwSame(s) /\ AgSame(s) /\ Calm(s)
      BY <1>18 DEF SinkData, GwSame, AgSame, HandlerSame, Calm
    <3> QED BY <1>0, <2>2, <3>0, <3>2, <3>3, ChunkSent
  <2> QED BY <2>1, <2>2
<1>19. CASE HandlerReturn(s)
  <2>1. CASE t # s
    <3>1. toGw'[t] = toGw[t] /\ toAg'[t] = toAg[t] /\ GwSame(t) /\ AgSame(t) /\ Calm(t)
      BY <1>19, <2>1 DEF HandlerReturn, GwSame, AgSame, HandlerSame, Calm
    <3> QED BY <3>1, SlotFrame
  <2>2. CASE t = s
    <3>1. /\ active'[s] = NoCall /\ hreq'[s] = hreq[s]
          /\ apc'[s] = "unopened" => apc[s] = "unopened" /\ stream'[s] = stream[s]
      BY <1>0, <1>19 DEF HandlerReturn, SlotInv, HandlerServes, Unborn, CutStream
    <3>2. HandlerLeaves(s)
      BY <1>19 DEF HandlerReturn, HandlerLeaves
    <3>3. toGw'[s] = toGw[s] /\ toAg'[s] = toAg[s] /\ GwSame(s) /\ Calm(s)
      BY <1>19 DEF HandlerReturn, GwSame, Calm
    <3> QED BY <1>0, <2>2, <3>1, <3>2, <3>3, HandlerMoves
  <2> QED BY <2>1, <2>2
<1>20. CASE SendRespEnd(s)
  <2>1. CASE t # s
    <3>1. toGw'[t] = toGw[t] /\ toAg'[t] = toAg[t] /\ GwSame(t) /\ AgSame(t) /\ Calm(t)
      BY <1>20, <2>1 DEF SendRespEnd, GwSame, AgSame, HandlerSame, Calm
    <3> QED BY <3>1, SlotFrame
  <2>2. CASE t = s /\ stream[s] # "open"
    <3>1. /\ active'[s] = NoCall /\ hreq'[s] = hreq[s]
          /\ apc'[s] = "unopened" => apc[s] = "unopened" /\ stream'[s] = stream[s]
      BY <1>0, <1>20, <2>2 DEF SendRespEnd, SlotInv, HandlerServes, Unborn, CutStream
    <3>2. HandlerLeaves(s)
      BY <1>20, <2>2 DEF SendRespEnd, HandlerLeaves
    <3>3. toGw'[s] = toGw[s] /\ toAg'[s] = toAg[s] /\ GwSame(s) /\ Calm(s)
      BY <1>20, <2>2 DEF SendRespEnd, GwSame, Calm
    <3> QED BY <1>0, <2>2, <3>1, <3>2, <3>3, HandlerMoves
  <2>3. CASE t = s /\ stream[s] = "open"
    <3>1. Msg("end", hreq[s]) \in Frame /\ toGw'[s] = Append(toGw[s], Msg("end", hreq[s])) /\ toGw[s] \in Seq(Frame)
      BY <1>20, <2>3, FrameFacts DEF SendRespEnd
    <3>2. /\ DOMAIN toGw[s] = 1 .. Len(toGw[s]) /\ Len(toGw[s]) \in Nat
          /\ DOMAIN toGw'[s] = 1 .. (Len(toGw[s]) + 1)
          /\ \A i \in 1 .. Len(toGw[s]) : toGw'[s][i] = toGw[s][i]
          /\ toGw'[s][Len(toGw[s]) + 1] = Msg("end", hreq[s])
      BY <3>1, PushFacts
    <3>3. /\ hpc[s] = "end" /\ hpc'[s] \in {"park", "retire"}
          /\ hreq'[s] = hreq[s] /\ active'[s] = active[s] /\ apc'[s] = apc[s]
          /\ stream'[s] = stream[s] /\ toAg'[s] = toAg[s] /\ GwSame(s) /\ Calm(s)
      BY <1>20, <2>3 DEF SendRespEnd, GwSame, Calm
    <3>4. Msg("end", hreq[s]).k = "end" /\ Msg("end", hreq[s]).c = hreq[s]
      BY DEF Msg, Ready
    <3> QED BY <1>0, <2>3, <3>2, <3>3, <3>4, EndSent
  <2> QED BY <2>1, <2>2, <2>3
<1>21. CASE Retire(s)
  <2>1. CASE t # s
    <3>1. toGw'[t] = toGw[t] /\ toAg'[t] = toAg[t] /\ GwSame(t) /\ AgSame(t) /\ Calm(t)
      BY <1>21, <2>1 DEF Retire, CutStream, GwSame, AgSame, HandlerSame, Calm
    <3> QED BY <3>1, SlotFrame
  <2>2. CASE t = s
    <3>1. /\ active'[s] = NoCall /\ hreq'[s] = hreq[s]
          /\ apc'[s] = "unopened" => apc[s] = "unopened" /\ stream'[s] = stream[s]
      BY <1>0, <1>21 DEF Retire, SlotInv, HandlerServes, Unborn, CutStream
    <3>2. HandlerLeaves(s)
      BY <1>21 DEF Retire, HandlerLeaves
    <3>3. toGw'[s] = toGw[s] /\ toAg'[s] = toAg[s] /\ GwSame(s) /\ Calm(s)
      BY <1>21 DEF Retire, GwSame, Calm
    <3> QED BY <1>0, <2>2, <3>1, <3>2, <3>3, HandlerMoves
  <2> QED BY <2>1, <2>2
<1>22. CASE Park(s)
  <2>1. CASE t # s
    <3>1. toGw'[t] = toGw[t] /\ toAg'[t] = toAg[t] /\ GwSame(t) /\ AgSame(t) /\ Calm(t)
      BY <1>22, <2>1 DEF Park, GwSame, AgSame, HandlerSame, Calm
    <3> QED BY <3>1, SlotFrame
  <2>2. CASE t = s /\ stream[s] # "open"
    <3>1. /\ active'[s] = NoCall /\ hreq'[s] = hreq[s]
          /\ apc'[s] = "unopened" => apc[s] = "unopened" /\ stream'[s] = stream[s]
      BY <1>0, <1>22, <2>2 DEF Park, SlotInv, HandlerServes, Unborn, CutStream
    <3>2. HandlerLeaves(s)
      BY <1>22, <2>2 DEF Park, HandlerLeaves
    <3>3. toGw'[s] = toGw[s] /\ toAg'[s] = toAg[s] /\ GwSame(s) /\ Calm(s)
      BY <1>22, <2>2 DEF Park, GwSame, Calm
    <3> QED BY <1>0, <2>2, <3>1, <3>2, <3>3, HandlerMoves
  <2>3. CASE t = s /\ stream[s] = "open"
    <3>1. Ready \in Frame /\ toGw'[s] = Append(toGw[s], Ready) /\ toGw[s] \in Seq(Frame)
      BY <1>22, <2>3, FrameFacts DEF Park
    <3>2. /\ DOMAIN toGw[s] = 1 .. Len(toGw[s]) /\ Len(toGw[s]) \in Nat
          /\ DOMAIN toGw'[s] = 1 .. (Len(toGw[s]) + 1)
          /\ \A i \in 1 .. Len(toGw[s]) : toGw'[s][i] = toGw[s][i]
          /\ toGw'[s][Len(toGw[s]) + 1] = Ready
      BY <3>1, PushFacts
    <3>3. /\ hpc[s] = "park" /\ hpc'[s] = "idle"
          /\ hreq'[s] = hreq[s] /\ active'[s] = active[s] /\ apc'[s] = apc[s]
          /\ stream'[s] = stream[s] /\ toAg'[s] = toAg[s] /\ GwSame(s) /\ Calm(s)
      BY <1>22, <2>3 DEF Park, GwSame, Calm
    <3>4. Ready.k = "ready" /\ Ready.c = NoCall
      BY DEF Msg, Ready
    <3> QED BY <1>0, <2>3, <3>2, <3>3, <3>4, ReadySent
  <2> QED BY <2>1, <2>2, <2>3
<1> QED
  BY <1>1, <1>2, <1>3, <1>4, <1>5, <1>6, <1>7, <1>8, <1>9, <1>10, <1>11, <1>12,
     <1>13, <1>14, <1>15, <1>16, <1>17, <1>18, <1>19, <1>20, <1>21, <1>22 DEF
     Reader, AgentLoop, HandlerStep

\* A call that holds a slot has it from a Serve that is past parking it.
LEMMA HolderAlive ==
  ASSUME TypeOK, NEW c \in Calls, slotOf[c] \in Slots, SlotInv(slotOf[c]), cst[c] \in Holding
  PROVE  gpc[slotOf[c]] \in {"read", "gone"} /\ apc[slotOf[c]] # "unopened"
BY DEF TypeOK, GatewayType, SlotInv, Unborn, OfferedClean, Offered

\* What node.acquire can do: nothing to any slot, or take one that was idle.
LEMMA AcquireTakes ==
  ASSUME TypeOK, IdleShape, NEW c \in Calls, Acquire(c)
  PROVE  \/ slotOf' = slotOf /\ parked' = parked
         \/ \E s \in Slots : /\ parked[s] /\ gpc[s] = "read"
                              /\ parked' = [parked EXCEPT ![s] = FALSE]
                              /\ slotOf' = [slotOf EXCEPT ![c] = s]
                              /\ cst' = [cst EXCEPT ![c] = "taken"]
                              /\ slotOf' # slotOf
<1> DEFINE ready == {j \in DOMAIN idle : Takeable(idle[j])}
<1>1. CASE draining \/ ready = {}
  BY <1>1 DEF Acquire
<1>2. ASSUME NEW j \in ready,
             parked' = [parked EXCEPT ![idle[j]] = FALSE],
             slotOf' = [slotOf EXCEPT ![c] = idle[j]],
             cst' = [cst EXCEPT ![c] = "taken"]
      PROVE  \E s \in Slots : /\ parked[s] /\ gpc[s] = "read"
                              /\ parked' = [parked EXCEPT ![s] = FALSE]
                              /\ slotOf' = [slotOf EXCEPT ![c] = s]
                              /\ cst' = [cst EXCEPT ![c] = "taken"]
                              /\ slotOf' # slotOf
  <2>1. idle[j] \in Slots /\ parked[idle[j]] /\ gpc[idle[j]] = "read"
    BY DEF TypeOK, GatewayType, IdleShape
  <2>2. slotOf[c] = NoSlot /\ idle[j] # NoSlot /\ slotOf \in [Calls -> Slots \cup {NoSlot}]
    BY <2>1 DEF Acquire, TypeOK, CallType
  <2>3. slotOf'[c] = idle[j]
    BY <1>2, <2>2
  <2> QED BY <1>2, <2>1, <2>2, <2>3
<1> QED BY <1>1, <1>2 DEF Acquire

\* A step of a call keeps the invariant of every slot.
LEMMA CallActions ==
  ASSUME Custody, NEW t \in Slots, NEW c \in Calls, Dispatch(c) \/ Response(c)
  PROVE  SlotInv(t)'
<1>0. TypeOK /\ IdleShape /\ SlotInv(t) /\ \A s \in Slots : SlotInv(s)
  BY DEF Custody
<1>b. TypeOK /\ IdleShape /\ SlotInv(t)
  BY <1>0
<1> USE <1>b DEF TypeOK, WireType, GatewayType, CallType, AgentType, Holding, wire, gwv, callv, agv
<1>1. CASE Acquire(c)
  <2>1. CASE slotOf' = slotOf
    <3>1. toGw'[t] = toGw[t] /\ toAg'[t] = toAg[t] /\ GwSame(t) /\ AgSame(t) /\ Calm(t)
      <4>1. slotOf[c] = NoSlot /\ t # NoSlot
        BY <1>1 DEF Acquire
      <4>2. parked' = parked
        BY <1>1, <2>1, <4>1, AcquireTakes
      <4>3. \A d \in Calls : d # c => cst'[d] = cst[d]
        BY <1>1 DEF Acquire, EndCall
      <4> QED BY <1>1, <2>1, <4>1, <4>2, <4>3 DEF Acquire, GwSame, AgSame, HandlerSame, Calm
    <3> QED BY <3>1, SlotFrame
  <2>2. CASE slotOf' # slotOf
    <3>1. PICK s \in Slots : /\ parked[s] /\ gpc[s] = "read"
                             /\ parked' = [parked EXCEPT ![s] = FALSE]
                             /\ slotOf' = [slotOf EXCEPT ![c] = s]
                             /\ cst' = [cst EXCEPT ![c] = "taken"]
      BY <1>1, <2>2, AcquireTakes
    <3>2. slotOf[c] = NoSlot /\ cst[c] = "new" /\ s # NoSlot /\ t # NoSlot
      BY <1>1 DEF Acquire
    <3>3. UNCHANGED <<wire, gpc, dead, cur, agv>>
      BY <1>1 DEF Acquire
    <3>4. CASE t # s
      <4>1. toGw'[t] = toGw[t] /\ toAg'[t] = toAg[t] /\ GwSame(t) /\ AgSame(t) /\ Calm(t)
        BY <3>1, <3>2, <3>3, <3>4 DEF GwSame, AgSame, HandlerSame, Calm
      <4> QED BY <4>1, SlotFrame
    <3>5. CASE t = s
      <4>1. slotOf[c] # s /\ slotOf'[c] = s /\ cst'[c] = "taken"
        BY <3>1, <3>2
      <4>2. OthersSame(c)
        BY <3>1 DEF OthersSame
      <4>3. /\ parked'[s] = FALSE /\ gpc'[s] = "read" /\ dead'[s] = dead[s] /\ cur'[s] = cur[s]
            /\ toGw'[s] = toGw[s] /\ toAg'[s] = toAg[s] /\ AgSame(s)
        BY <3>1, <3>3 DEF AgSame, HandlerSame
      <4> QED BY <1>0, <3>1, <3>2, <3>5, <4>1, <4>2, <4>3, SlotTaken
    <3> QED BY <3>4, <3>5
  <2> QED BY <2>1, <2>2
<1>2. CASE Begin(c)
  <2> DEFINE s == slotOf[c]
  <2>0. s \in Slots /\ SlotInv(s) /\ cst[c] \in Holding
    BY <1>0, <1>2 DEF Begin
  <2>a. gpc[s] \in {"read", "gone"} /\ apc[s] # "unopened"
    BY <2>0, HolderAlive
  <2>1. CASE t # s
    <3>1. toGw'[t] = toGw[t] /\ toAg'[t] = toAg[t] /\ GwSame(t) /\ AgSame(t) /\ Calm(t)
      BY <1>2, <2>0, <2>1 DEF Begin, CloseSlot, EndCall, GwSame, AgSame, HandlerSame, Calm
    <3> QED BY <3>1, SlotFrame
  <2>2. CASE t = s /\ (dead[s] \/ cur[s] # NoCall)
    <3>1. CloseSlot(s) /\ UNCHANGED <<toGw, toAg, gpc, stream, agv>>
      BY <1>2, <2>2 DEF Begin
    <3>2. Leaving(s)
      BY <1>2, <2>2 DEF Begin, EndCall, Leaving
    <3> QED BY <1>0, <2>0, <2>a, <2>2, <3>1, <3>2, CloseSlotSlot
  <2>3. CASE t = s /\ ~(dead[s] \/ cur[s] # NoCall)
    <3>1. cst[c] = "taken" /\ cst'[c] = "hdr" /\ cur'[s] = c
      BY <1>2, <2>0, <2>3 DEF Begin
    <3>2. \A d \in Calls : slotOf'[d] = slotOf[d] /\ (d # c => cst'[d] = cst[d])
      BY <1>2, <2>3 DEF Begin
    <3>3. /\ gpc'[s] = gpc[s] /\ parked'[s] = parked[s] /\ dead'[s] = dead[s]
          /\ toGw'[s] = toGw[s] /\ toAg'[s] = toAg[s] /\ AgSame(s)
      BY <1>2, <2>3 DEF Begin, AgSame, HandlerSame
    <3> QED BY <1>0, <2>0, <2>3, <3>1, <3>2, <3>3, SlotBegun
  <2> QED BY <2>1, <2>2, <2>3
<1>3. CASE SendHeaders(c)
  <2> DEFINE s == slotOf[c]
  <2>0. s \in Slots /\ SlotInv(s) /\ cst[c] \in Holding
    BY <1>0, <1>3 DEF SendHeaders
  <2>a. gpc[s] \in {"read", "gone"} /\ apc[s] # "unopened"
    BY <2>0, HolderAlive
  <2>1. CASE t # s
    <3>1. toGw'[t] = toGw[t] /\ toAg'[t] = toAg[t] /\ GwSame(t) /\ AgSame(t) /\ Calm(t)
      BY <1>3, <2>0, <2>1 DEF SendHeaders, SendOk, GwSame, AgSame, HandlerSame, Calm
    <3> QED BY <3>1, SlotFrame
  <2>2. CASE t = s
    <3> DEFINE f == Msg("headers", c)
    <3>0. f \in Frame /\ f.k = "headers" /\ f.c = c
      BY FrameFacts
    <3>1. cst[c] = "hdr" /\ cst'[c] = "body"
      BY <1>3 DEF SendHeaders
    <3>2. \A d \in Calls : slotOf'[d] = slotOf[d] /\ (d # c => cst'[d] = cst[d])
      BY <1>3 DEF SendHeaders
    <3>3. GwSame(s) /\ AgSame(s) /\ toGw'[s] = toGw[s]
      BY <1>3 DEF SendHeaders, GwSame, AgSame, HandlerSame
    <3>4. toAg'[s] = toAg[s] \/ toAg'[s] = Append(toAg[s], f)
      BY <1>3, <2>0 DEF SendHeaders, SendOk
    <3> HIDE DEF f
    <3>5. CASE toAg'[s] = toAg[s]
      <4>1. /\ slotOf[c] = t /\ GwSame(t) /\ AgSame(t)
            /\ toGw'[t] = toGw[t] /\ toAg'[t] = toAg[t]
        BY <2>2, <3>3, <3>5
      <4> QED BY <1>0, <3>1, <3>2, <4>1, HeadersWritten, ZenonT(40)
    <3>6. CASE toAg'[s] = Append(toAg[s], f)
      <4>1. toAg[s] \in Seq(Frame)
        BY <2>0
      <4>2. /\ DOMAIN toAg[s] = 1 .. Len(toAg[s]) /\ Len(toAg[s]) \in Nat
            /\ DOMAIN toAg'[s] = 1 .. (Len(toAg[s]) + 1)
            /\ \A i \in 1 .. Len(toAg[s]) : toAg'[s][i] = toAg[s][i]
            /\ toAg'[s][Len(toAg[s]) + 1] = f
        BY <3>0, <3>6, <4>1, PushFacts
      <4>3. HeadersAppended(s, c)
        BY <3>0, <4>2 DEF HeadersAppended
      <4>4. slotOf[c] = s
        OBVIOUS
      <4> HIDE DEF s
      <4> QED BY <1>0, <2>0, <2>2, <3>1, <3>2, <3>3, <4>3, <4>4, HeadersWritten
    <3> QED BY <3>4, <3>5, <3>6
  <2> QED BY <2>1, <2>2
<1>4. CASE SendChunk(c)
  <2> DEFINE s == slotOf[c]
  <2>0. s \in Slots /\ SlotInv(s) /\ cst[c] \in Holding
    BY <1>0, <1>4 DEF SendChunk
  <2>a. gpc[s] \in {"read", "gone"} /\ apc[s] # "unopened"
    BY <2>0, HolderAlive
  <2>1. CASE t # s
    <3>1. toGw'[t] = toGw[t] /\ toAg'[t] = toAg[t] /\ GwSame(t) /\ AgSame(t) /\ Calm(t)
      BY <1>4, <2>0, <2>1 DEF SendChunk, SendOk, Written, GwSame, AgSame, HandlerSame, Calm
    <3> QED BY <3>1, SlotFrame
  <2>2. CASE t = s
    <3> DEFINE f == Msg("data", c)
    <3>0. f \in Frame /\ f.k # "headers"
      BY FrameFacts
    <3>1. toGw'[s] = toGw[s] /\ GwSame(s) /\ AgSame(s) /\ Calm(s)
      BY <1>4, <2>0 DEF SendChunk, GwSame, AgSame, HandlerSame, Calm, Written
    <3>2. toAg'[s] = toAg[s] \/ toAg'[s] = Append(toAg[s], f)
      BY <1>4, <2>0 DEF SendChunk, SendOk
    <3> HIDE DEF f
    <3>3. CASE toAg'[s] = toAg[s]
      BY <1>0, <2>0, <2>2, <3>1, <3>3, SlotFrame
    <3>4. CASE toAg'[s] = Append(toAg[s], f)
      <4>1. toAg[s] \in Seq(Frame)
        BY <2>0
      <4>2. \A i \in DOMAIN toAg'[s] : toAg'[s][i] = f \/ (i \in DOMAIN toAg[s] /\ toAg'[s][i] = toAg[s][i])
        BY <3>0, <3>4, <4>1, PushFacts
      <4> QED BY <1>0, <2>0, <2>a, <2>2, <3>0, <3>1, <4>2, GatewayWrites
    <3> QED BY <3>2, <3>3, <3>4
  <2> QED BY <2>1, <2>2
<1>5. CASE SendEnd(c)
  <2> DEFINE s == slotOf[c]
  <2>0. s \in Slots /\ SlotInv(s) /\ cst[c] \in Holding
    BY <1>0, <1>5 DEF SendEnd
  <2>a. gpc[s] \in {"read", "gone"} /\ apc[s] # "unopened"
    BY <2>0, HolderAlive
  <2>1. CASE t # s
    <3>1. toGw'[t] = toGw[t] /\ toAg'[t] = toAg[t] /\ GwSame(t) /\ AgSame(t) /\ Calm(t)
      BY <1>5, <2>0, <2>1 DEF SendEnd, SendOk, Written, GwSame, AgSame, HandlerSame, Calm
    <3> QED BY <3>1, SlotFrame
  <2>2. CASE t = s
    <3> DEFINE f == Msg("end", c)
    <3>0. f \in Frame /\ f.k # "headers"
      BY FrameFacts
    <3>1. toGw'[s] = toGw[s] /\ GwSame(s) /\ AgSame(s) /\ Calm(s)
      BY <1>5, <2>0 DEF SendEnd, GwSame, AgSame, HandlerSame, Calm, Written
    <3>2. toAg'[s] = toAg[s] \/ toAg'[s] = Append(toAg[s], f)
      BY <1>5, <2>0 DEF SendEnd, SendOk
    <3> HIDE DEF f
    <3>3. CASE toAg'[s] = toAg[s]
      BY <1>0, <2>0, <2>2, <3>1, <3>3, SlotFrame
    <3>4. CASE toAg'[s] = Append(toAg[s], f)
      <4>1. toAg[s] \in Seq(Frame)
        BY <2>0
      <4>2. \A i \in DOMAIN toAg'[s] : toAg'[s][i] = f \/ (i \in DOMAIN toAg[s] /\ toAg'[s][i] = toAg[s][i])
        BY <3>0, <3>4, <4>1, PushFacts
      <4> QED BY <1>0, <2>0, <2>a, <2>2, <3>0, <3>1, <4>2, GatewayWrites
    <3> QED BY <3>2, <3>3, <3>4
  <2> QED BY <2>1, <2>2
<1>6. CASE CloseResponse(c)
  <2> DEFINE s == slotOf[c]
  <2>0. s \in Slots /\ SlotInv(s) /\ cst[c] \in Holding
    BY <1>0, <1>6 DEF CloseResponse
  <2>a. gpc[s] \in {"read", "gone"} /\ apc[s] # "unopened"
    BY <2>0, HolderAlive
  <2>1. CASE t # s
    <3>1. toGw'[t] = toGw[t] /\ toAg'[t] = toAg[t] /\ GwSame(t) /\ AgSame(t) /\ Calm(t)
      BY <1>6, <2>0, <2>1 DEF CloseResponse, Written, GwSame, AgSame, HandlerSame, Calm
    <3> QED BY <3>1, SlotFrame
  <2>2. CASE t = s
    <3> DEFINE f == Msg("cancel", c)
    <3>0. f \in Frame /\ f.k # "headers"
      BY FrameFacts
    <3>1. toGw'[s] = toGw[s] /\ GwSame(s) /\ AgSame(s) /\ Calm(s)
      BY <1>6, <2>0 DEF CloseResponse, GwSame, AgSame, HandlerSame, Calm, Written
    <3>2. toAg'[s] = toAg[s] \/ toAg'[s] = Append(toAg[s], f)
      BY <1>6, <2>0 DEF CloseResponse
    <3> HIDE DEF f
    <3>3. CASE toAg'[s] = toAg[s]
      BY <1>0, <2>0, <2>2, <3>1, <3>3, SlotFrame
    <3>4. CASE toAg'[s] = Append(toAg[s], f)
      <4>1. toAg[s] \in Seq(Frame)
        BY <2>0
      <4>2. \A i \in DOMAIN toAg'[s] : toAg'[s][i] = f \/ (i \in DOMAIN toAg[s] /\ toAg'[s][i] = toAg[s][i])
        BY <3>0, <3>4, <4>1, PushFacts
      <4> QED BY <1>0, <2>0, <2>a, <2>2, <3>0, <3>1, <4>2, GatewayWrites
    <3> QED BY <3>2, <3>3, <3>4
  <2> QED BY <2>1, <2>2
<1>7. CASE DispatchFails(c)
  <2> DEFINE s == slotOf[c]
  <2>0. s \in Slots /\ SlotInv(s) /\ cst[c] \in Holding
    BY <1>0, <1>7 DEF DispatchFails
  <2>a. gpc[s] \in {"read", "gone"} /\ apc[s] # "unopened"
    BY <2>0, HolderAlive
  <2>1. CASE t # s
    <3>1. toGw'[t] = toGw[t] /\ toAg'[t] = toAg[t] /\ GwSame(t) /\ AgSame(t) /\ Calm(t)
      BY <1>7, <2>0, <2>1 DEF DispatchFails, CloseSlot, EndCall, GwSame, AgSame, HandlerSame, Calm
    <3> QED BY <3>1, SlotFrame
  <2>2. CASE t = s
    <3>1. CloseSlot(s) /\ UNCHANGED <<toGw, toAg, gpc, stream, agv>>
      BY <1>7, <2>2 DEF DispatchFails
    <3>2. Leaving(s)
      BY <1>7, <2>2 DEF DispatchFails, EndCall, Leaving
    <3> QED BY <1>0, <2>0, <2>a, <2>2, <3>1, <3>2, CloseSlotSlot
  <2> QED BY <2>1, <2>2
<1>8. CASE Recv(c)
  <2> DEFINE s == slotOf[c]
  <2>0. s \in Slots /\ SlotInv(s) /\ cst[c] \in Holding
    BY <1>0, <1>8 DEF Recv
  <2>a. gpc[s] \in {"read", "gone"} /\ apc[s] # "unopened"
    BY <2>0, HolderAlive
  <2>1. CASE t # s
    <3>1. toGw'[t] = toGw[t] /\ toAg'[t] = toAg[t] /\ GwSame(t) /\ AgSame(t) /\ Calm(t)
      BY <1>8, <2>0, <2>1 DEF Recv, EndCall, GwSame, AgSame, HandlerSame, Calm
    <3> QED BY <3>1, SlotFrame
  <2>2. CASE t = s
    <3>1. toGw[s] \in Seq(Frame) /\ toGw[s] # <<>> /\ toGw'[s] = Tail(toGw[s])
      BY <1>8, <2>0 DEF Recv
    <3>2. Popped(toGw[s], toGw'[s]) /\ Head(toGw[s]) = toGw[s][1]
      BY <3>1, PopPopped
    <3>3. cur[s] = c /\ cur[s] # NoCall /\ IsResponse(toGw[s][1])
      BY <1>8, <3>2 DEF Recv, IsResponse
    <3>4. CASE toGw[s][1].k = "end"
      <4>1. cur'[s] = NoCall /\ cst'[c] = "closed" /\ Answered(s)
        BY <1>8, <2>0, <3>2, <3>3, <3>4 DEF Recv, EndCall, Answered
      <4>2. /\ toAg'[s] = toAg[s] /\ gpc'[s] = gpc[s] /\ parked'[s] = parked[s]
            /\ dead'[s] = dead[s] /\ AgSame(s)
        BY <1>8 DEF Recv, AgSame, HandlerSame
      <4> QED BY <1>0, <2>0, <2>a, <2>2, <3>1, <3>2, <3>3, <3>4, <4>1, <4>2, FrameRouted
    <3>5. CASE toGw[s][1].k # "end"
      <4>1. cur'[s] = cur[s] /\ Answered(s)
        BY <1>8, <2>0, <3>2, <3>3, <3>5 DEF Recv, EndCall, Answered
      <4>2. /\ toAg'[s] = toAg[s] /\ gpc'[s] = gpc[s] /\ parked'[s] = parked[s]
            /\ dead'[s] = dead[s] /\ AgSame(s)
        BY <1>8 DEF Recv, AgSame, HandlerSame
      <4> QED BY <1>0, <2>0, <2>a, <2>2, <3>1, <3>2, <3>3, <3>5, <4>1, <4>2, FrameRouted
    <3> QED BY <3>4, <3>5
  <2> QED BY <2>1, <2>2
<1>9. CASE RecvFails(c)
  <2>1. toGw'[t] = toGw[t] /\ toAg'[t] = toAg[t] /\ GwSame(t) /\ AgSame(t) /\ Calm(t)
    BY <1>9 DEF RecvFails, GwSame, AgSame, HandlerSame, Calm, Written
  <2> QED BY <2>1, SlotFrame
<1> QED
  BY <1>1, <1>2, <1>3, <1>4, <1>5, <1>6, <1>7, <1>8, <1>9 DEF Dispatch, Response

-----------------------------------------------------------------------------
(* The idle set.                                                            *)

\* slot.close leaves an idle set that lists each remaining slot once.
LEMMA CloseIdle ==
  ASSUME TypeOK, IdleShape, NEW s \in Slots, SlotInv(s), CloseSlot(s),
         \A x \in Slots \ {s} : gpc'[x] = gpc[x],
         gpc'[s] \in {"read", "gone"}, closing' \subseteq closing
  PROVE  IdleShape'
<1>1. dead'[s] /\ \A x \in Slots \ {s} : dead'[x] = dead[x] /\ parked'[x] = parked[x]
  BY DEF CloseSlot, TypeOK, GatewayType
<1>2. /\ \A k \in DOMAIN idle' : idle'[k] # s /\ \E j \in DOMAIN idle : idle'[k] = idle[j]
      /\ \A k, l \in DOMAIN idle' : idle'[k] = idle'[l] => k = l
  <2>1. CASE dead[s]
    <3>1. idle' = idle
      BY <2>1 DEF CloseSlot
    <3>2. ~parked[s]
      BY <2>1 DEF SlotInv, OfferedClean, Offered
    <3> QED BY <3>1, <3>2 DEF IdleShape
  <2>2. CASE ~dead[s]
    <3>1. idle' = Unpark(idle, s)
      BY <2>2 DEF CloseSlot
    <3>2. idle \in Seq(Slots) /\ \A i, j \in DOMAIN idle : idle[i] = idle[j] => i = j
      BY DEF TypeOK, GatewayType, IdleShape
    <3> QED BY <3>1, <3>2, UnparkFacts
  <2> QED BY <2>1, <2>2
<1>3. \A j \in DOMAIN idle : idle[j] \in Slots
  BY DEF TypeOK, GatewayType
<1>4. closing \subseteq Slots
  BY DEF TypeOK, GatewayType
<1>5. \A i \in DOMAIN idle' : parked'[idle'[i]] /\ gpc'[idle'[i]] = "read"
  BY <1>1, <1>2, <1>3 DEF IdleShape
<1>6. \A x \in closing' : gpc'[x] # "parking" /\ gpc'[x] # "none" /\ (parked'[x] \/ dead'[x])
  BY <1>1, <1>4 DEF IdleShape
<1>7. \A x \in closing', i \in DOMAIN idle' : idle'[i] # x
  BY <1>2 DEF IdleShape
<1> QED BY <1>2, <1>5, <1>6, <1>7 DEF IdleShape

\* So does the return of Serve.
LEMMA ServeReturnsIdle ==
  ASSUME TypeOK, IdleShape, NEW s \in Slots, SlotInv(s), ServeReturns(s), CloseSlot(s),
         closing' = closing
  PROVE  IdleShape'
<1>1. (\A x \in Slots \ {s} : gpc'[x] = gpc[x]) /\ gpc'[s] \in {"read", "gone"}
  BY DEF ServeReturns, TypeOK, GatewayType
<1> QED BY <1>1, CloseIdle

\* A slot that starts to park is neither idle nor about to be closed by a drain.
LEMMA ParkingIdle ==
  ASSUME TypeOK, IdleShape, NEW s \in Slots, SlotInv(s), toGw[s] # <<>>, ~dead[s],
         gpc' = [gpc EXCEPT ![s] = "parking"], parked' = [parked EXCEPT ![s] = TRUE],
         UNCHANGED <<idle, closing, dead>>
  PROVE  IdleShape'
<1>1. ~parked[s]
  BY DEF SlotInv, OfferedClean, Offered
<1>2. s \notin closing /\ \A i \in DOMAIN idle : idle[i] # s
  BY <1>1 DEF IdleShape
<1> QED BY <1>2 DEF IdleShape, TypeOK, GatewayType

\* One step keeps the idle set in shape.
LEMMA IdleStep ==
  ASSUME Custody, [Next]_vars PROVE IdleShape'
<1>0. TypeOK /\ IdleShape /\ \A s \in Slots : SlotInv(s)
  BY DEF Custody
<1>a. TypeOK /\ IdleShape
  BY <1>0
<1> USE <1>a DEF wire, gwv, callv, agv
<1>1. ASSUME NEW s \in Slots, RouteIdle(s) PROVE IdleShape'
  <2>1. ServeReturns(s) /\ CloseSlot(s) /\ closing' = closing
    BY <1>1 DEF RouteIdle, ServeReturns
  <2> QED BY <1>0, <2>1, ServeReturnsIdle
<1>2. ASSUME NEW s \in Slots, RouteTooLarge(s) PROVE IdleShape'
  <2>1. ServeReturns(s) /\ CloseSlot(s) /\ closing' = closing
    BY <1>2 DEF RouteTooLarge, ServeReturns
  <2> QED BY <1>0, <2>1, ServeReturnsIdle
<1>3. ASSUME NEW s \in Slots, StreamEnds(s) PROVE IdleShape'
  <2>1. ServeReturns(s) /\ CloseSlot(s) /\ closing' = closing
    BY <1>3 DEF StreamEnds, ServeReturns
  <2> QED BY <1>0, <2>1, ServeReturnsIdle
<1>4. ASSUME NEW s \in Slots, ServeFirst(s) PROVE IdleShape'
  <2>1. ~dead[s]
    BY <1>0, <1>4 DEF ServeFirst, SlotInv, Unborn
  <2> QED BY <1>0, <1>4, <2>1, ParkingIdle DEF ServeFirst
<1>5. ASSUME NEW s \in Slots, ReadReady(s) PROVE IdleShape'
  <2>1. CASE cur[s] # NoCall \/ dead[s]
    <3>1. ServeReturns(s) /\ CloseSlot(s) /\ closing' = closing
      BY <1>5, <2>1 DEF ReadReady, ServeReturns
    <3> QED BY <1>0, <3>1, ServeReturnsIdle
  <2>2. CASE ~(cur[s] # NoCall \/ dead[s])
    BY <1>0, <1>5, <2>2, ParkingIdle DEF ReadReady
  <2> QED BY <2>1, <2>2
<1>6. ASSUME NEW s \in Slots, ParkOffer(s) PROVE IdleShape'
  <2>1. CASE draining
    <3>1. ServeReturns(s) /\ CloseSlot(s) /\ closing' = closing
      BY <1>6, <2>1 DEF ParkOffer, ServeReturns
    <3> QED BY <1>0, <3>1, ServeReturnsIdle
  <2>2. CASE ~draining
    <3>1. /\ gpc[s] = "parking" /\ idle' = Append(idle, s) /\ gpc' = [gpc EXCEPT ![s] = "read"]
          /\ UNCHANGED <<parked, dead, closing>>
      BY <1>6, <2>2 DEF ParkOffer
    <3>2. s \notin closing /\ (\A i \in DOMAIN idle : idle[i] # s) /\ parked[s]
      BY <1>0, <3>1 DEF IdleShape, SlotInv, OfferedClean, Offered
    <3>3. /\ DOMAIN idle = 1 .. Len(idle) /\ Len(idle) \in Nat
          /\ DOMAIN idle' = 1 .. (Len(idle) + 1)
          /\ \A i \in 1 .. Len(idle) : idle'[i] = idle[i]
          /\ idle'[Len(idle) + 1] = s
      BY <3>1, AppendProperties, LenProperties DEF TypeOK, GatewayType
    <3>4. DOMAIN idle' = DOMAIN idle \cup {Len(idle) + 1} /\ Len(idle) + 1 \notin DOMAIN idle
      BY <3>3
    <3>5. /\ gpc'[s] = "read" /\ \A x \in Slots \ {s} : gpc'[x] = gpc[x]
          /\ \A i \in DOMAIN idle : idle[i] \in Slots
      BY <3>1 DEF TypeOK, GatewayType
    <3>6. \A i \in DOMAIN idle' : parked'[idle'[i]] /\ gpc'[idle'[i]] = "read"
      BY <3>1, <3>2, <3>3, <3>4, <3>5 DEF IdleShape
    <3>7. \A i, j \in DOMAIN idle' : idle'[i] = idle'[j] => i = j
      BY <3>2, <3>3, <3>4 DEF IdleShape
    <3>8. \A x \in closing' : gpc'[x] # "parking" /\ gpc'[x] # "none" /\ (parked'[x] \/ dead'[x])
      BY <3>1, <3>2, <3>5 DEF IdleShape, TypeOK, GatewayType
    <3>9. \A x \in closing', i \in DOMAIN idle' : idle'[i] # x
      BY <3>1, <3>2, <3>3, <3>4 DEF IdleShape
    <3> QED BY <3>6, <3>7, <3>8, <3>9 DEF IdleShape
  <2> QED BY <2>1, <2>2
<1>7. ASSUME NEW s \in Slots, CloseDrained(s) PROVE IdleShape'
  <2>1. CloseSlot(s) /\ closing' \subseteq closing /\ gpc' = gpc /\ gpc[s] \in {"read", "gone"}
    BY <1>7 DEF CloseDrained, IdleShape, TypeOK, GatewayType
  <2> QED BY <1>0, <2>1, CloseIdle
<1>8. ASSUME NEW c \in Calls, DispatchFails(c) PROVE IdleShape'
  <2>1. slotOf[c] \in Slots /\ cst[c] \in Holding
    BY <1>8 DEF DispatchFails, TypeOK, CallType, Holding
  <2>2. CloseSlot(slotOf[c]) /\ closing' \subseteq closing /\ gpc' = gpc
    BY <1>8 DEF DispatchFails
  <2>3. gpc[slotOf[c]] \in {"read", "gone"}
    BY <1>0, <2>1, HolderAlive
  <2> QED BY <1>0, <2>1, <2>2, <2>3, CloseIdle
<1>9. ASSUME NEW c \in Calls, Begin(c) PROVE IdleShape'
  <2>1. slotOf[c] \in Slots /\ cst[c] \in Holding
    BY <1>9 DEF Begin, TypeOK, CallType, Holding
  <2>2. CASE dead[slotOf[c]] \/ cur[slotOf[c]] # NoCall
    <3>1. CloseSlot(slotOf[c]) /\ closing' \subseteq closing /\ gpc' = gpc
      BY <1>9, <2>2 DEF Begin
    <3>2. gpc[slotOf[c]] \in {"read", "gone"}
      BY <1>0, <2>1, HolderAlive
    <3> QED BY <1>0, <2>1, <3>1, <3>2, CloseIdle
  <2>3. CASE ~(dead[slotOf[c]] \/ cur[slotOf[c]] # NoCall)
    BY <1>9, <2>3 DEF Begin, IdleShape
  <2> QED BY <2>2, <2>3
<1>10. ASSUME NEW c \in Calls, Acquire(c) PROVE IdleShape'
  <2> DEFINE ready == {j \in DOMAIN idle : Takeable(idle[j])}
  <2>0. UNCHANGED <<gpc, dead, closing>>
    BY <1>10 DEF Acquire
  <2>1. CASE draining \/ ready = {}
    <3>1. idle' = (IF draining THEN idle ELSE <<>>) /\ parked' = parked
      BY <1>10, <2>1 DEF Acquire
    <3>2. CASE draining
      BY <2>0, <3>1, <3>2 DEF IdleShape
    <3>3. CASE ~draining
      <4>1. DOMAIN idle' = {}
        BY <3>1, <3>3, EmptySeq
      <4> QED BY <2>0, <3>1, <4>1 DEF IdleShape
    <3> QED BY <3>2, <3>3
  <2>2. ASSUME NEW j \in ready, idle' = SubSeq(idle, 1, j - 1),
               parked' = [parked EXCEPT ![idle[j]] = FALSE]
        PROVE  IdleShape'
    <3>1. /\ idle \in Seq(Slots) /\ j \in 1 .. Len(idle) /\ idle[j] \in Slots
          /\ DOMAIN idle = 1 .. Len(idle)
      BY DEF TypeOK, GatewayType
    <3>2. /\ DOMAIN idle' = 1 .. (j - 1)
          /\ \A k \in 1 .. (j - 1) : idle'[k] = idle[k]
      BY <2>2, <3>1
    <3>3. \A k \in DOMAIN idle' : k \in DOMAIN idle /\ k # j /\ idle'[k] = idle[k]
      BY <3>1, <3>2
    <3>4. \A k \in DOMAIN idle' : idle'[k] \in Slots /\ idle'[k] # idle[j]
      BY <3>1, <3>3 DEF IdleShape
    <3>5. \A x \in Slots : x # idle[j] => parked'[x] = parked[x]
      BY <2>2, <3>1 DEF TypeOK, GatewayType
    <3>6. closing \subseteq Slots /\ idle[j] \notin closing
      BY <3>1 DEF IdleShape, TypeOK, GatewayType
    <3>7. \A i \in DOMAIN idle' : parked'[idle'[i]] /\ gpc'[idle'[i]] = "read"
      BY <2>0, <3>3, <3>4, <3>5 DEF IdleShape
    <3>8. \A x \in closing' : gpc'[x] # "parking" /\ gpc'[x] # "none" /\ (parked'[x] \/ dead'[x])
      BY <2>0, <3>5, <3>6 DEF IdleShape
    <3>9. /\ \A x \in closing', i \in DOMAIN idle' : idle'[i] # x
          /\ \A i, l \in DOMAIN idle' : idle'[i] = idle'[l] => i = l
      BY <2>0, <3>3 DEF IdleShape
    <3> QED BY <3>7, <3>8, <3>9 DEF IdleShape
  <2> QED BY <1>10, <2>1, <2>2 DEF Acquire
<1>11. ASSUME NEW s \in Slots, RouteDrop(s) PROVE IdleShape'
  BY <1>11 DEF RouteDrop, IdleShape
<1>12. ASSUME NEW s \in Slots, NetworkCut(s) PROVE IdleShape'
  BY <1>12 DEF NetworkCut, IdleShape
<1>13. ASSUME NEW s \in Slots, PoolRetire(s) PROVE IdleShape'
  BY <1>13 DEF PoolRetire, IdleShape
<1>14. ASSUME NEW s \in Slots, OpenSlot(s) PROVE IdleShape'
  BY <1>14 DEF OpenSlot, IdleShape
<1>15. ASSUME NEW s \in Slots, RecvHeaders(s) PROVE IdleShape'
  BY <1>15 DEF RecvHeaders, IdleShape
<1>16. ASSUME NEW s \in Slots, RecvData(s) PROVE IdleShape'
  BY <1>16 DEF RecvData, IdleShape
<1>17. ASSUME NEW s \in Slots, RecvEnd(s) PROVE IdleShape'
  BY <1>17 DEF RecvEnd, IdleShape
<1>18. ASSUME NEW s \in Slots, RecvCancel(s) PROVE IdleShape'
  BY <1>18 DEF RecvCancel, IdleShape
<1>19. ASSUME NEW s \in Slots, RecvErr(s) PROVE IdleShape'
  BY <1>19 DEF RecvErr, IdleShape
<1>20. ASSUME NEW s \in Slots, RunReturns(s) PROVE IdleShape'
  BY <1>20 DEF RunReturns, IdleShape
<1>21. ASSUME NEW s \in Slots, SinkData(s) PROVE IdleShape'
  BY <1>21 DEF SinkData, IdleShape
<1>22. ASSUME NEW s \in Slots, HandlerReturn(s) PROVE IdleShape'
  BY <1>22 DEF HandlerReturn, IdleShape
<1>23. ASSUME NEW s \in Slots, SendRespEnd(s) PROVE IdleShape'
  BY <1>23 DEF SendRespEnd, IdleShape
<1>24. ASSUME NEW s \in Slots, Retire(s) PROVE IdleShape'
  BY <1>24 DEF Retire, IdleShape
<1>25. ASSUME NEW s \in Slots, Park(s) PROVE IdleShape'
  BY <1>25 DEF Park, IdleShape
<1>26. ASSUME NEW c \in Calls, SendHeaders(c) PROVE IdleShape'
  BY <1>26 DEF SendHeaders, IdleShape
<1>27. ASSUME NEW c \in Calls, SendChunk(c) PROVE IdleShape'
  BY <1>27 DEF SendChunk, IdleShape
<1>28. ASSUME NEW c \in Calls, SendEnd(c) PROVE IdleShape'
  BY <1>28 DEF SendEnd, IdleShape
<1>29. ASSUME NEW c \in Calls, Recv(c) PROVE IdleShape'
  BY <1>29 DEF Recv, IdleShape
<1>30. ASSUME NEW c \in Calls, RecvFails(c) PROVE IdleShape'
  BY <1>30 DEF RecvFails, IdleShape
<1>31. ASSUME NEW c \in Calls, CloseResponse(c) PROVE IdleShape'
  BY <1>31 DEF CloseResponse, IdleShape
<1>32. CASE NodeDrain
  <2>1. DOMAIN idle' = {} /\ UNCHANGED <<gpc, parked, dead>>
    BY <1>32, EmptySeq DEF NodeDrain
  <2>2. \A x \in closing' : x \in closing \/ \E i \in DOMAIN idle : x = idle[i]
    BY <1>32 DEF NodeDrain
  <2> QED BY <2>1, <2>2 DEF IdleShape
<1>33. CASE ControlReconnects
  BY <1>33 DEF ControlReconnects, IdleShape
<1>34. CASE UNCHANGED vars
  BY <1>34 DEF vars, IdleShape
<1> QED
  BY <1>1, <1>2, <1>3, <1>4, <1>5, <1>6, <1>7, <1>8, <1>9, <1>10, <1>11, <1>12,
     <1>13, <1>14, <1>15, <1>16, <1>17, <1>18, <1>19, <1>20, <1>21, <1>22,
     <1>23, <1>24, <1>25, <1>26, <1>27, <1>28, <1>29, <1>30, <1>31, <1>32,
     <1>33, <1>34
  DEF Next, Reader, Dispatch, Response, AgentLoop, HandlerStep

-----------------------------------------------------------------------------
(* Protocol faults.                                                         *)

\* One step faults a usable slot only for a chunk over the frame limit.
LEMMA FaultStep ==
  ASSUME Custody, [Next]_vars PROVE NoSpuriousFault'
<1>0. \A s \in Slots : SlotInv(s)
  BY DEF Custody
<1>a. TypeOK /\ NoSpuriousFault
  BY DEF Custody
<1> USE <1>a DEF wire, gwv, callv, agv
<1>1. ASSUME NEW s \in Slots, ServeFirst(s) PROVE NoSpuriousFault'
  <2>1. slotOf' = slotOf /\ faulted' = faulted
    BY <1>1 DEF ServeFirst
  <2> QED BY <2>1 DEF NoSpuriousFault
<1>2. ASSUME NEW s \in Slots, ParkOffer(s) PROVE NoSpuriousFault'
  <2>1. slotOf' = slotOf /\ faulted' = faulted
    BY <1>2 DEF ParkOffer
  <2> QED BY <2>1 DEF NoSpuriousFault
<1>3. ASSUME NEW s \in Slots, RouteDrop(s) PROVE NoSpuriousFault'
  <2>1. slotOf' = slotOf /\ faulted' = faulted
    BY <1>3 DEF RouteDrop
  <2> QED BY <2>1 DEF NoSpuriousFault
<1>4. ASSUME NEW s \in Slots, StreamEnds(s) PROVE NoSpuriousFault'
  <2>1. slotOf' = slotOf /\ faulted' = faulted
    BY <1>4 DEF StreamEnds
  <2> QED BY <2>1 DEF NoSpuriousFault
<1>5. ASSUME NEW s \in Slots, CloseDrained(s) PROVE NoSpuriousFault'
  <2>1. slotOf' = slotOf /\ faulted' = faulted
    BY <1>5 DEF CloseDrained
  <2> QED BY <2>1 DEF NoSpuriousFault
<1>6. ASSUME NEW s \in Slots, NetworkCut(s) PROVE NoSpuriousFault'
  <2>1. slotOf' = slotOf /\ faulted' = faulted
    BY <1>6 DEF NetworkCut
  <2> QED BY <2>1 DEF NoSpuriousFault
<1>7. ASSUME NEW s \in Slots, PoolRetire(s) PROVE NoSpuriousFault'
  <2>1. slotOf' = slotOf /\ faulted' = faulted
    BY <1>7 DEF PoolRetire
  <2> QED BY <2>1 DEF NoSpuriousFault
<1>8. ASSUME NEW s \in Slots, OpenSlot(s) PROVE NoSpuriousFault'
  <2>1. slotOf' = slotOf /\ faulted' = faulted
    BY <1>8 DEF OpenSlot
  <2> QED BY <2>1 DEF NoSpuriousFault
<1>9. ASSUME NEW s \in Slots, RecvData(s) PROVE NoSpuriousFault'
  <2>1. slotOf' = slotOf /\ faulted' = faulted
    BY <1>9 DEF RecvData
  <2> QED BY <2>1 DEF NoSpuriousFault
<1>10. ASSUME NEW s \in Slots, RecvEnd(s) PROVE NoSpuriousFault'
  <2>1. slotOf' = slotOf /\ faulted' = faulted
    BY <1>10 DEF RecvEnd
  <2> QED BY <2>1 DEF NoSpuriousFault
<1>11. ASSUME NEW s \in Slots, RecvCancel(s) PROVE NoSpuriousFault'
  <2>1. slotOf' = slotOf /\ faulted' = faulted
    BY <1>11 DEF RecvCancel
  <2> QED BY <2>1 DEF NoSpuriousFault
<1>12. ASSUME NEW s \in Slots, RecvErr(s) PROVE NoSpuriousFault'
  <2>1. slotOf' = slotOf /\ faulted' = faulted
    BY <1>12 DEF RecvErr
  <2> QED BY <2>1 DEF NoSpuriousFault
<1>13. ASSUME NEW s \in Slots, RunReturns(s) PROVE NoSpuriousFault'
  <2>1. slotOf' = slotOf /\ faulted' = faulted
    BY <1>13 DEF RunReturns
  <2> QED BY <2>1 DEF NoSpuriousFault
<1>14. ASSUME NEW s \in Slots, SinkData(s) PROVE NoSpuriousFault'
  <2>1. slotOf' = slotOf /\ faulted' = faulted
    BY <1>14 DEF SinkData
  <2> QED BY <2>1 DEF NoSpuriousFault
<1>15. ASSUME NEW s \in Slots, HandlerReturn(s) PROVE NoSpuriousFault'
  <2>1. slotOf' = slotOf /\ faulted' = faulted
    BY <1>15 DEF HandlerReturn
  <2> QED BY <2>1 DEF NoSpuriousFault
<1>16. ASSUME NEW s \in Slots, SendRespEnd(s) PROVE NoSpuriousFault'
  <2>1. slotOf' = slotOf /\ faulted' = faulted
    BY <1>16 DEF SendRespEnd
  <2> QED BY <2>1 DEF NoSpuriousFault
<1>17. ASSUME NEW s \in Slots, Retire(s) PROVE NoSpuriousFault'
  <2>1. slotOf' = slotOf /\ faulted' = faulted
    BY <1>17 DEF Retire
  <2> QED BY <2>1 DEF NoSpuriousFault
<1>18. ASSUME NEW s \in Slots, Park(s) PROVE NoSpuriousFault'
  <2>1. slotOf' = slotOf /\ faulted' = faulted
    BY <1>18 DEF Park
  <2> QED BY <2>1 DEF NoSpuriousFault
<1>19. ASSUME NEW c \in Calls, Begin(c) PROVE NoSpuriousFault'
  <2>1. slotOf' = slotOf /\ faulted' = faulted
    BY <1>19 DEF Begin
  <2> QED BY <2>1 DEF NoSpuriousFault
<1>20. ASSUME NEW c \in Calls, SendHeaders(c) PROVE NoSpuriousFault'
  <2>1. slotOf' = slotOf /\ faulted' = faulted
    BY <1>20 DEF SendHeaders
  <2> QED BY <2>1 DEF NoSpuriousFault
<1>21. ASSUME NEW c \in Calls, SendChunk(c) PROVE NoSpuriousFault'
  <2>1. slotOf' = slotOf /\ faulted' = faulted
    BY <1>21 DEF SendChunk
  <2> QED BY <2>1 DEF NoSpuriousFault
<1>22. ASSUME NEW c \in Calls, SendEnd(c) PROVE NoSpuriousFault'
  <2>1. slotOf' = slotOf /\ faulted' = faulted
    BY <1>22 DEF SendEnd
  <2> QED BY <2>1 DEF NoSpuriousFault
<1>23. ASSUME NEW c \in Calls, DispatchFails(c) PROVE NoSpuriousFault'
  <2>1. slotOf' = slotOf /\ faulted' = faulted
    BY <1>23 DEF DispatchFails
  <2> QED BY <2>1 DEF NoSpuriousFault
<1>24. ASSUME NEW c \in Calls, Recv(c) PROVE NoSpuriousFault'
  <2>1. slotOf' = slotOf /\ faulted' = faulted
    BY <1>24 DEF Recv
  <2> QED BY <2>1 DEF NoSpuriousFault
<1>25. ASSUME NEW c \in Calls, RecvFails(c) PROVE NoSpuriousFault'
  <2>1. slotOf' = slotOf /\ faulted' = faulted
    BY <1>25 DEF RecvFails
  <2> QED BY <2>1 DEF NoSpuriousFault
<1>26. ASSUME NEW c \in Calls, CloseResponse(c) PROVE NoSpuriousFault'
  <2>1. slotOf' = slotOf /\ faulted' = faulted
    BY <1>26 DEF CloseResponse
  <2> QED BY <2>1 DEF NoSpuriousFault
<1>27. ASSUME NEW s \in Slots, ReadReady(s) PROVE NoSpuriousFault'
  <2>1. dead[s] \/ cur[s] = NoCall
    <3>1. toGw[s] \in Seq(Frame) /\ toGw[s] # <<>> /\ Head(toGw[s]).k = "ready"
      BY <1>a, <1>27 DEF ReadReady, TypeOK, WireType
    <3>2. 1 \in DOMAIN toGw[s] /\ toGw[s][1].k = "ready" /\ Tail(toGw[s]) = <<>>
      BY <1>0, <3>1, LastReady
    <3>3. \A i \in DOMAIN toGw[s] : i = 1 \/ i - 1 \in DOMAIN Tail(toGw[s])
      BY <3>1, PopPopped DEF Popped
    <3>e. DOMAIN <<>> = {}
      BY EmptySeq
    <3>4. DOMAIN Tail(toGw[s]) = {}
      BY <3>2, <3>e, Zenon
    <3>5. \A i \in DOMAIN toGw[s] : i = 1
      BY <3>3, <3>4, Zenon
    <3> QED BY <1>0, <3>2, <3>5 DEF SlotInv, ReadyAfterEnd, HasReady
  <2>2. slotOf' = slotOf /\ faulted' = faulted
    BY <1>27, <2>1 DEF ReadReady
  <2> QED BY <2>2 DEF NoSpuriousFault
<1>28. ASSUME NEW s \in Slots, RouteIdle(s) PROVE NoSpuriousFault'
  <2>1. dead[s]
    <3>1. toGw[s] \in Seq(Frame) /\ toGw[s] # <<>>
      BY <1>a, <1>28 DEF RouteIdle, TypeOK, WireType
    <3>2. 1 \in DOMAIN toGw[s] /\ Head(toGw[s]) = toGw[s][1]
      BY <3>1, PopFacts
    <3> QED BY <1>0, <1>28, <3>2 DEF RouteIdle, IsResponse, SlotInv, WireOwner, OnSlot
  <2>2. slotOf' = slotOf /\ faulted' = faulted
    BY <1>28, <2>1 DEF RouteIdle
  <2> QED BY <2>2 DEF NoSpuriousFault
<1>29. ASSUME NEW s \in Slots, RouteTooLarge(s) PROVE NoSpuriousFault'
  <2>1. \E c \in BigCalls : slotOf[c] = s
    <3>1. toGw[s] \in Seq(Frame) /\ toGw[s] # <<>>
      BY <1>a, <1>29 DEF RouteTooLarge, TypeOK, WireType
    <3>2. 1 \in DOMAIN toGw[s] /\ Head(toGw[s]) = toGw[s][1]
      BY <3>1, PopFacts
    <3> QED BY <1>0, <1>29, <3>2 DEF RouteTooLarge, SlotInv, WireOwner
  <2>2. slotOf' = slotOf /\ faulted' = faulted \cup {s}
    BY <1>29 DEF RouteTooLarge
  <2> QED BY <2>1, <2>2 DEF NoSpuriousFault
<1>30. ASSUME NEW s \in Slots, RecvHeaders(s) PROVE NoSpuriousFault'
  <2>1. active[s] = NoCall
    <3>1. toAg[s] \in Seq(Frame) /\ toAg[s] # <<>> /\ Head(toAg[s]).k = "headers"
      BY <1>a, <1>30 DEF RecvHeaders, TypeOK, WireType
    <3>2. 1 \in DOMAIN toAg[s] /\ Head(toAg[s]) = toAg[s][1]
      BY <3>1, PopFacts
    <3> QED BY <1>0, <3>1, <3>2 DEF SlotInv, OneHand, HasHeaders, HandlerBusy, HandlerServes
  <2>2. slotOf' = slotOf /\ faulted' = faulted
    BY <1>30, <2>1 DEF RecvHeaders
  <2> QED BY <2>2 DEF NoSpuriousFault
<1>31. ASSUME NEW c \in Calls, Acquire(c) PROVE NoSpuriousFault'
  <2>1. faulted' = faulted /\ faulted \subseteq Slots /\ slotOf[c] = NoSlot
    BY <1>a, <1>31 DEF Acquire, TypeOK, GatewayType, CallType
  <2>2. \A d \in Calls : d # c => slotOf'[d] = slotOf[d]
    BY <1>a, <1>31 DEF Acquire, TypeOK, CallType
  <2>3. BigCalls \subseteq Calls /\ NoSlot \notin Slots
    OBVIOUS
  <2> QED BY <2>1, <2>2, <2>3 DEF NoSpuriousFault
<1>32. CASE NodeDrain
  <2>1. slotOf' = slotOf /\ faulted' = faulted
    BY <1>32 DEF NodeDrain
  <2> QED BY <2>1 DEF NoSpuriousFault
<1>33. CASE ControlReconnects
  <2>1. slotOf' = slotOf /\ faulted' = faulted
    BY <1>33 DEF ControlReconnects
  <2> QED BY <2>1 DEF NoSpuriousFault
<1>34. CASE UNCHANGED vars
  <2>1. slotOf' = slotOf /\ faulted' = faulted
    BY <1>34 DEF vars
  <2> QED BY <2>1 DEF NoSpuriousFault
<1> QED
  BY <1>1, <1>2, <1>3, <1>4, <1>5, <1>6, <1>7, <1>8, <1>9, <1>10, <1>11, <1>12,
     <1>13, <1>14, <1>15, <1>16, <1>17, <1>18, <1>19, <1>20, <1>21, <1>22,
     <1>23, <1>24, <1>25, <1>26, <1>27, <1>28, <1>29, <1>30, <1>31, <1>32,
     <1>33, <1>34
  DEF Next, Reader, Dispatch, Response, AgentLoop, HandlerStep

-----------------------------------------------------------------------------
(* The theorems.                                                            *)

\* In the initial state no slot exists and no call has started.
LEMMA InitCustody == Init => Custody
<1> SUFFICES ASSUME Init PROVE Custody
  OBVIOUS
<1>1. WireType /\ GatewayType
  BY EmptySeq DEF Init, WireType, GatewayType, CallOrNone
<1>2. CallType
  BY DEF Init, CallType, Holding
<1>3. AgentType
  BY DEF Init, AgentType, CallOrNone
<1>4. DOMAIN <<>> = {}
  BY EmptySeq
<1>5. IdleShape /\ NoSpuriousFault
  BY <1>4 DEF Init, IdleShape, NoSpuriousFault
<1>6. ASSUME NEW s \in Slots PROVE SlotInv(s)
  <2>1. /\ toGw[s] = <<>> /\ toAg[s] = <<>> /\ ~parked[s] /\ hpc[s] = "idle" /\ gpc[s] = "none"
        /\ cur[s] = NoCall /\ active[s] = NoCall /\ ~dead[s] /\ stream[s] = "none"
    BY DEF Init
  <2>2. \A c \in Calls : cst[c] = "new" /\ slotOf[c] # s
    BY DEF Init
  <2>3. DOMAIN toGw[s] = {} /\ DOMAIN toAg[s] = {}
    BY <1>4, <2>1
  <2>4. OneHand(s) /\ Unborn(s) /\ OfferedClean(s)
    BY <2>1, <2>2, <2>3 DEF OneHand, HasReady, HasHeaders, Offered, Given, HandlerBusy, Unborn,
                            OfferedClean, Holding
  <2>5. GivenClean(s) /\ HolderIsCurrent(s) /\ HeadersInFlight(s)
    BY <2>1, <2>2, <2>3 DEF GivenClean, HolderIsCurrent, HeadersInFlight, Holding
  <2>6. HandlerServes(s) /\ WireOrder(s) /\ WireOwner(s) /\ ReadyAfterEnd(s)
    BY <2>1, <2>2, <2>3 DEF HandlerServes, WireOrder, WireOwner, ReadyAfterEnd
  <2> QED BY <2>4, <2>5, <2>6 DEF SlotInv
<1> QED BY <1>1, <1>2, <1>3, <1>5, <1>6 DEF Custody, TypeOK

\* Every step keeps the custody invariant.
LEMMA CustodyStep == Custody /\ [Next]_vars => Custody'
<1> SUFFICES ASSUME Custody, [Next]_vars PROVE Custody'
  OBVIOUS
<1>1. TypeOK'
  BY WireTypeStep, GatewayTypeStep, CallTypeStep, AgentTypeStep DEF Custody, TypeOK
<1>2. IdleShape'
  BY IdleStep
<1>3. NoSpuriousFault'
  BY FaultStep
<1>4. ASSUME NEW t \in Slots PROVE SlotInv(t)'
  <2>1. CASE \E s \in Slots : \/ Reader(s) \/ AgentLoop(s) \/ HandlerStep(s)
                             \/ CloseDrained(s) \/ NetworkCut(s) \/ PoolRetire(s)
    BY <2>1, SlotActions
  <2>2. CASE \E c \in Calls : Dispatch(c) \/ Response(c)
    BY <2>2, CallActions
  <2>3. CASE NodeDrain \/ ControlReconnects \/ UNCHANGED vars
    <3>1. toGw'[t] = toGw[t] /\ toAg'[t] = toAg[t] /\ GwSame(t) /\ AgSame(t) /\ Calm(t)
      BY <2>3 DEF NodeDrain, ControlReconnects, vars, wire, gwv, callv, agv,
                  GwSame, AgSame, HandlerSame, Calm
    <3> QED BY <3>1, SlotFrame DEF Custody
  <2> QED BY <2>1, <2>2, <2>3 DEF Next
<1> QED BY <1>1, <1>2, <1>3, <1>4 DEF Custody

\* Custody: at every moment a slot is in one hand only (offered by the Agent,
\* given to a call, on its way to the Agent, or with the Agent's handler), for
\* any number of slots, calls and request ids, and any mix of disturbances.
THEOREM CustodyAlways == Spec => []Custody
<1>1. Init => Custody
  BY InitCustody
<1>2. Custody /\ [Next]_vars => Custody'
  BY CustodyStep
<1> QED BY <1>1, <1>2, PTL DEF Spec

\* Type correctness of both sides and of the wire.
THEOREM TypeCorrect == Spec => []TypeOK
<1>1. Custody => TypeOK
  BY DEF Custody
<1> QED BY <1>1, CustodyAlways, PTL

\* slot.take and slot.begin never give one usable slot to two dispatches.
THEOREM ExclusiveUseHolds == Spec => []ExclusiveUse
<1>1. Custody => ExclusiveUse
  <2> SUFFICES ASSUME Custody, NEW c \in Calls, NEW d \in Calls, c # d,
                      cst[c] \in Holding, cst[d] \in Holding, slotOf[c] = slotOf[d]
               PROVE  dead[slotOf[c]]
    BY DEF ExclusiveUse
  <2>1. slotOf[c] \in Slots /\ SlotInv(slotOf[c])
    BY DEF Custody, TypeOK, CallType
  <2>2. CASE cst[c] \in {"taken", "hdr"}
    BY <2>1, <2>2 DEF SlotInv, GivenClean
  <2>3. CASE cst[d] \in {"taken", "hdr"}
    BY <2>1, <2>3 DEF SlotInv, GivenClean
  <2>4. CASE cst[c] \notin {"taken", "hdr"} /\ cst[d] \notin {"taken", "hdr"}
    BY <2>1, <2>4 DEF SlotInv, HolderIsCurrent, OnSlot, Holding
  <2> QED BY <2>2, <2>3, <2>4
<1> QED BY <1>1, CustodyAlways, PTL

\* slot.park only ever offers a slot that carries nothing of its last request.
THEOREM CleanOfferHolds == Spec => []CleanOffer
<1>1. Custody => CleanOffer
  <2> SUFFICES ASSUME Custody, NEW s \in Slots, parked[s]
               PROVE  /\ active[s] = NoCall /\ hpc[s] = "idle"
                      /\ toGw[s] = <<>> /\ cur[s] = NoCall
                      /\ \A i \in DOMAIN toAg[s] : toAg[s][i].k # "headers"
    BY DEF CleanOffer
  <2>1. SlotInv(s)
    BY DEF Custody
  <2>2. ~HandlerBusy(s) /\ ~HasHeaders(s)
    BY <2>1 DEF SlotInv, OneHand, Offered
  <2> QED BY <2>1, <2>2 DEF SlotInv, OfferedClean, Offered, HandlerBusy, HasHeaders, HandlerServes
<1> QED BY <1>1, CustodyAlways, PTL

\* readLoop, route and the Agent's begin never report a protocol fault on a
\* usable slot, except for a chunk over the frame limit.
THEOREM NoSpuriousFaultHolds == Spec => []NoSpuriousFault
<1>1. Custody => NoSpuriousFault
  BY DEF Custody
<1> QED BY <1>1, CustodyAlways, PTL

-----------------------------------------------------------------------------
(* Content: whose frames are on the wire, and how many.                     *)

Ended == {"open", "closing", "closed"}
GivenUp == {"cancelled", "aborted"}

\* After index h the queue to the Agent holds the rest of request c: chunks, then
\* its end, then its Cancel.
Own(s, h, c) ==
  \A j \in DOMAIN toAg[s] : j > h =>
    LET f == toAg[s][j] IN
    /\ f.c = c /\ f.k \in {"data", "end", "cancel"}
    /\ f.k = "end" => cst[c] \in Ended
    /\ f.k = "cancel" => cst[c] = "closed"
    /\ \A i \in DOMAIN toAg[s] : (h < i /\ i < j) =>
         \/ toAg[s][i].k = "data"
         \/ (toAg[s][i].k = "end" /\ f.k = "cancel")

\* Of a streamed body, n chunks were fed before index h: nothing is missing in
\* what follows.
Whole(s, h, c, n) ==
  c \in BodyCalls =>
    /\ (cst[c] = "body" /\ stream[s] = "open") => n + Len(toAg[s]) = sent[c] + h
    /\ \A i \in DOMAIN toAg[s] : (i > h /\ toAg[s][i].k = "end") => n + i = Chunks + h + 1

\* What follows the headers on the wire, and what follows for the request that
\* is being served, belongs to that request.
Requests(s) ==
  /\ hpc[s] = "run" => Own(s, 0, hreq[s])
  /\ \A h \in DOMAIN toAg[s] : toAg[s][h].k = "headers" => Own(s, h, toAg[s][h].c)

Bodies(s) ==
  /\ hpc[s] = "run" /\ cause[hreq[s]] = "none" => Whole(s, 0, hreq[s], fed[hreq[s]])
  /\ \A h \in DOMAIN toAg[s] : toAg[s][h].k = "headers" => Whole(s, h, toAg[s][h].c, 0)

\* Only the request on the wire or in the handler is still being written, even on
\* a slot that died.
Writer(s) ==
  \A c \in Calls : cst[c] \in {"body", "open", "closing"} /\ slotOf[c] = s =>
    /\ \A h \in DOMAIN toAg[s] : toAg[s][h].k = "headers" => toAg[s][h].c = c
    /\ hpc[s] = "run" => hreq[s] = c

\* Nothing but a Cancel follows the end of a body.
Sealed(s) ==
  hpc[s] = "run" /\ bodyClosed[hreq[s]] =>
    /\ cst[hreq[s]] \in Ended
    /\ \A i \in DOMAIN toAg[s] : toAg[s][i].k = "cancel"

\* A Cancel is on the wire only once its caller has given up.
Cancels(s) ==
  \A i \in DOMAIN toAg[s] : toAg[s][i].k = "cancel" =>
    cst[toAg[s][i].c] = "closed" /\ outcome[toAg[s][i].c] \in GivenUp

\* While the caller still waits, what it received and what is on the wire is
\* what its handler produced.
Responses(s) ==
  cur[s] # NoCall /\ cst[cur[s]] \in {"hdr", "body", "open"} =>
    /\ hpc[s] \in {"run", "end"} => got[cur[s]] + Len(toGw[s]) = produced[cur[s]]
    /\ \A e \in DOMAIN toGw[s] :
         toGw[s][e].k = "end" => got[cur[s]] + e = produced[cur[s]] + 1

\* No handler has seen the request yet.
Unseen(c) ==
  \/ cst[c] \in {"new", "taken", "hdr"}
  \/ \E s \in Slots : \E h \in DOMAIN toAg[s] : toAg[s][h].k = "headers" /\ toAg[s][h].c = c

Fresh(c) ==
  /\ Unseen(c) => fed[c] = 0 /\ produced[c] = 0 /\ got[c] = 0 /\ ~bodyClosed[c]
  /\ cst[c] \in {"new", "taken", "hdr"} => sent[c] = 0

\* No handler runs, or will run, for the call.
NotServed(c) ==
  \A s \in Slots :
    /\ hpc[s] = "run" => hreq[s] # c
    /\ \A h \in DOMAIN toAg[s] : toAg[s][h].k = "headers" => toAg[s][h].c # c

Verdict(c) ==
  /\ cst[c] \notin {"closing", "closed"} => outcome[c] = "none"
  /\ cst[c] = "closing" => outcome[c] \in GivenUp
  /\ cause[c] = "gateway" => cst[c] = "closed" /\ outcome[c] \in GivenUp
  /\ outcome[c] \in {"ok", "err"} =>
       NotServed(c) /\ got[c] = produced[c] /\ outcome[c] = result[c]

Intact(c) == c \in BodyCalls /\ bodyClosed[c] /\ cause[c] = "none" => fed[c] = Chunks

SlotContent(s) ==
  /\ Requests(s) /\ Bodies(s) /\ Writer(s) /\ Sealed(s) /\ Cancels(s) /\ Responses(s)
CallContent(c) == Fresh(c) /\ Verdict(c) /\ Intact(c)

\* The inductive invariant behind OwnCancelOnly, CompleteResponse and BodyIntact.
Content == (\A s \in Slots : SlotContent(s)) /\ (\A c \in Calls : CallContent(c))

RequestInv(s) == Requests(s) /\ Bodies(s) /\ Writer(s) /\ Sealed(s) /\ Cancels(s)

\* A step that takes nothing from the request on slot s and adds nothing to it.
Hushed(s) ==
  /\ toAg'[s] = toAg[s] \/ (toAg'[s] = <<>> /\ stream'[s] # "open")
  /\ hpc'[s] = "run" => hpc[s] = "run" /\ hreq'[s] = hreq[s]
  /\ stream'[s] = "open" => stream[s] = "open" \/ (toAg[s] = <<>> /\ hpc[s] = "idle")
  /\ \A c \in Calls :
       /\ cst[c] = "closed" => cst'[c] = "closed" /\ outcome'[c] = outcome[c]
       /\ slotOf'[c] = s /\ cst'[c] \in {"body", "open", "closing"} =>
            slotOf[c] = s /\ cst[c] \in {"body", "open", "closing"}
       /\ slotOf[c] = s =>
            /\ (cst'[c] = "body" /\ stream'[s] = "open") =>
                 cst[c] = "body" /\ sent'[c] = sent[c]
            /\ cst[c] \in Ended => cst'[c] \in Ended
            /\ cause'[c] = "none" => cause[c] = "none"
            /\ fed'[c] = fed[c] /\ bodyClosed'[c] = bodyClosed[c]

\* Whose frames a queue holds: the calls that Own speaks of have the slot.
LEMMA Owners ==
  ASSUME TypeOK, NEW s \in Slots, SlotInv(s)
  PROVE  /\ hpc[s] = "run" => hreq[s] \in Calls /\ slotOf[hreq[s]] = s
         /\ \A h \in DOMAIN toAg[s] : toAg[s][h].k = "headers" =>
              /\ toAg[s][h].c \in Calls /\ slotOf[toAg[s][h].c] = s
              /\ hpc[s] # "run"
         /\ \A h \in DOMAIN toAg[s] : toAg[s][h].k # "ready" => toAg[s][h].c \in Calls
<1>1. toAg[s] \in Seq(Frame) BY DEF TypeOK, WireType
<1>2. \A h \in DOMAIN toAg[s] : toAg[s][h] \in Frame BY <1>1, LenProperties, ElementOfSeq
<1> QED BY <1>2, FrameFacts
        DEF SlotInv, HandlerServes, HeadersInFlight, OneHand, HasHeaders, HandlerBusy

LEMMA RequestFrame ==
  ASSUME TypeOK, NEW s \in Slots, SlotInv(s), RequestInv(s), Hushed(s)
  PROVE  RequestInv(s)'
<1> USE DEF RequestInv, Hushed
<1>1. CASE toAg'[s] = <<>> /\ stream'[s] # "open"
  <2>1. DOMAIN toAg'[s] = {} BY <1>1, EmptySeq
  <2>2. Requests(s)' /\ Cancels(s)' BY <2>1 DEF Requests, Own, Cancels
  <2>3. Writer(s)' BY <2>1 DEF Writer
  <2>4. Sealed(s)' BY <2>1, Owners DEF Sealed, Ended
  <2>5. Bodies(s)' BY <1>1, <2>1 DEF Bodies, Whole
  <2> QED BY <2>2, <2>3, <2>4, <2>5
<1>2. CASE toAg'[s] = toAg[s]
  <2>1. Requests(s)' BY <1>2, Owners DEF Requests, Own, Ended
  <2>2. Bodies(s)' BY <1>2, Owners DEF Bodies, Whole
  <2>3. Writer(s)' BY <1>2 DEF Writer
  <2>4. Sealed(s)' BY <1>2, Owners DEF Sealed
  <2>5. Cancels(s)' BY <1>2, Owners DEF Cancels
  <2> QED BY <2>1, <2>2, <2>3, <2>4, <2>5
<1> QED BY <1>1, <1>2

-----------------------------------------------------------------------------
\* What a step may do to call c without sending or receiving for it.
Turn(c) ==
  \/ UNCHANGED <<cst[c], outcome[c], slotOf[c]>>
  \/ cst[c] = "new" /\ cst'[c] = "taken" /\ outcome'[c] = outcome[c]
  \/ cst[c] = "taken" /\ cst'[c] = "hdr" /\ UNCHANGED <<outcome[c], slotOf[c]>>
  \/ /\ cst[c] \in {"new", "taken", "hdr", "body"} /\ cst'[c] = "closed"
     /\ outcome'[c] \in {"backpressure", "retry"} /\ slotOf'[c] = slotOf[c]
  \/ /\ cst[c] = "open" /\ cst'[c] = "closing"
     /\ outcome'[c] \in GivenUp /\ slotOf'[c] = slotOf[c]

\* A step that moves no request frame, except to drop all of a broken stream's.
Silent ==
  /\ \A s \in Slots :
       /\ toAg'[s] = toAg[s] \/ (toAg'[s] = <<>> /\ stream'[s] # "open")
       /\ hpc'[s] = "run" => hpc[s] = "run" /\ hreq'[s] = hreq[s]
       /\ stream'[s] = "open" => stream[s] = "open" \/ (toAg[s] = <<>> /\ hpc[s] = "idle")
  /\ UNCHANGED <<sent, got, fed, bodyClosed>>
  /\ \A c \in Calls :
       /\ Turn(c)
       /\ cause'[c] = cause[c] \/ cause'[c] = "slot"
       /\ \/ produced'[c] = produced[c] /\ result'[c] = result[c]
          \/ \E s \in Slots : hpc[s] = "run" /\ hreq[s] = c

LEMMA SilentHushed ==
  ASSUME Custody, Silent, NEW s \in Slots
  PROVE  Hushed(s)
<1>1. \A c \in Calls : cst[c] \in {"new", "taken", "hdr", "body", "open", "closing", "closed"}
  BY DEF Custody, TypeOK, CallType
<1>2. \A c \in Calls : Turn(c) BY DEF Silent
<1>3. \A c \in Calls : cst[c] = "closed" => cst'[c] = "closed" /\ outcome'[c] = outcome[c]
  BY <1>2 DEF Turn
<1>4. \A c \in Calls : slotOf'[c] = s /\ cst'[c] \in {"body", "open", "closing"} =>
            slotOf[c] = s /\ cst[c] \in {"body", "open", "closing"}
  BY <1>2 DEF Turn
<1>5. \A c \in Calls : cst'[c] = "body" => cst[c] = "body"
  BY <1>2 DEF Turn
<1>6. \A c \in Calls : cst[c] \in Ended => cst'[c] \in Ended
  BY <1>2 DEF Turn, Ended
<1>7. \A c \in Calls : cause'[c] = "none" => cause[c] = "none" BY DEF Silent
<1>8. UNCHANGED <<sent, fed, bodyClosed>> BY DEF Silent
<1>9. /\ toAg'[s] = toAg[s] \/ (toAg'[s] = <<>> /\ stream'[s] # "open")
      /\ hpc'[s] = "run" => hpc[s] = "run" /\ hreq'[s] = hreq[s]
      /\ stream'[s] = "open" => stream[s] = "open" \/ (toAg[s] = <<>> /\ hpc[s] = "idle")
  BY DEF Silent
<1> QED BY <1>3, <1>4, <1>5, <1>6, <1>7, <1>8, <1>9 DEF Hushed

\* A request no handler has seen has no handler.
LEMMA UnseenIdle ==
  ASSUME Custody, NEW c \in Calls, Unseen(c), NEW s \in Slots
  PROVE  /\ hpc[s] \in {"run", "end"} => hreq[s] # c
         /\ active[s] # c
         /\ cst[c] = "open" => ~(slotOf[c] = s /\ toGw[s] # <<>>)
<1>1. SlotInv(s) BY DEF Custody
<1>2. CASE cst[c] \in {"new", "taken", "hdr"}
  BY <1>1, <1>2 DEF SlotInv, HandlerServes, Written
<1>3. ASSUME NEW t \in Slots, NEW h \in DOMAIN toAg[t], toAg[t][h].k = "headers", toAg[t][h].c = c
      PROVE  /\ hpc[s] \in {"run", "end"} => hreq[s] # c
             /\ active[s] # c
             /\ cst[c] = "open" => ~(slotOf[c] = s /\ toGw[s] # <<>>)
  <2>1. SlotInv(t) BY DEF Custody
  <2>2. slotOf[c] = t /\ toGw[t] = <<>> /\ hpc[t] = "idle"
    BY <1>3, <2>1 DEF SlotInv, HeadersInFlight, OneHand, HasHeaders, HandlerBusy
  <2> QED BY <1>1, <2>2 DEF SlotInv, HandlerServes
<1> QED BY <1>2, <1>3 DEF Unseen

\* A silent step leaves no call with fewer or other contents.
LEMMA SilentCalls ==
  ASSUME Custody, Silent, NEW c \in Calls, CallContent(c)
  PROVE  CallContent(c)'
<1>1. \A s \in Slots : \A h \in DOMAIN toAg'[s] :
        h \in DOMAIN toAg[s] /\ toAg'[s][h] = toAg[s][h]
  BY EmptySeq DEF Silent
<1>2. Turn(c) /\ cst[c] \in {"new", "taken", "hdr", "body", "open", "closing", "closed"}
  BY DEF Silent, Custody, TypeOK, CallType
<1>3. UNCHANGED <<sent, got, fed, bodyClosed>> BY DEF Silent
<1>4. Unseen(c)' => Unseen(c) BY <1>1, <1>2 DEF Unseen, Turn
<1>5. Unseen(c) => produced'[c] = produced[c] BY UnseenIdle DEF Silent
<1>6. Fresh(c)' BY <1>2, <1>3, <1>4, <1>5 DEF CallContent, Fresh, Turn
<1>7. Intact(c)' BY <1>3 DEF CallContent, Intact, Silent
<1>8. NotServed(c) => NotServed(c)'
  <2>1. \A s \in Slots : hpc'[s] = "run" => hpc[s] = "run" /\ hreq'[s] = hreq[s] BY DEF Silent
  <2> QED BY <1>1, <2>1 DEF NotServed
<1>9. NotServed(c) => produced'[c] = produced[c] /\ result'[c] = result[c]
  BY DEF Silent, NotServed
<1>10. cause'[c] = cause[c] \/ cause'[c] = "slot" BY DEF Silent
<1>11. Verdict(c)' BY <1>2, <1>3, <1>8, <1>9, <1>10 DEF CallContent, Verdict, Turn, GivenUp
<1> QED BY <1>6, <1>7, <1>11 DEF CallContent

\* A step of the stream or of one goroutine's bookkeeping.
LEMMA BookkeepingSilent ==
  ASSUME UNCHANGED <<toAg, cst, slotOf, sent, got, outcome, fed, bodyClosed, produced, result>>,
         \A s \in Slots : hpc'[s] = "run" => hpc[s] = "run" /\ hreq'[s] = hreq[s],
         \A s \in Slots : stream'[s] = "open" => stream[s] = "open" \/ (toAg[s] = <<>> /\ hpc[s] = "idle"),
         \A c \in Calls : cause'[c] = cause[c] \/ cause'[c] = "slot"
  PROVE  Silent
BY DEF Silent, Turn

\* The steps that move no request frame, nor hand over a response frame.
LEMMA SilentSteps ==
  ASSUME Custody, [Next]_vars,
         \A s \in Slots : ~(RecvHeaders(s) \/ RecvData(s) \/ RecvEnd(s) \/ RecvCancel(s)),
         \A c \in Calls : ~(SendHeaders(c) \/ SendChunk(c) \/ SendEnd(c) \/ CloseResponse(c)
                            \/ Recv(c))
  PROVE  Silent
<1> USE DEF Custody, TypeOK, WireType, wire, gwv, callv, agv
<1>1. ASSUME NEW s \in Slots, ServeFirst(s) PROVE Silent
  BY <1>1, BookkeepingSilent DEF ServeFirst
<1>2. ASSUME NEW s \in Slots, ParkOffer(s) PROVE Silent
  BY <1>2, BookkeepingSilent DEF ParkOffer, ServeReturns, EndStream
<1>3. ASSUME NEW s \in Slots, ReadReady(s) PROVE Silent
  BY <1>3, BookkeepingSilent DEF ReadReady, ServeReturns, EndStream
<1>4. ASSUME NEW s \in Slots, RouteIdle(s) PROVE Silent
  BY <1>4, BookkeepingSilent DEF RouteIdle, ServeReturns, EndStream
<1>5. ASSUME NEW s \in Slots, RouteDrop(s) PROVE Silent
  BY <1>5, BookkeepingSilent DEF RouteDrop
<1>6. ASSUME NEW s \in Slots, RouteTooLarge(s) PROVE Silent
  BY <1>6, BookkeepingSilent DEF RouteTooLarge, ServeReturns, EndStream
<1>7. ASSUME NEW s \in Slots, StreamEnds(s) PROVE Silent
  BY <1>7, BookkeepingSilent DEF StreamEnds, ServeReturns, EndStream
<1>8. ASSUME NEW s \in Slots, CloseDrained(s) PROVE Silent
  BY <1>8, BookkeepingSilent DEF CloseDrained
<1>9. ASSUME NEW s \in Slots, NetworkCut(s) PROVE Silent
  BY <1>9, BookkeepingSilent DEF NetworkCut, CutStream
<1>10. ASSUME NEW s \in Slots, PoolRetire(s) PROVE Silent
  <2>1. \A c \in Calls : cause'[c] = cause[c] \/ cause'[c] = "slot"
    BY <1>10 DEF PoolRetire, CancelActive
  <2> QED BY <1>10, <2>1, BookkeepingSilent DEF PoolRetire, CutStream
<1>11. ASSUME NEW s \in Slots, OpenSlot(s) PROVE Silent
  <2>1. toAg[s] = <<>> /\ hpc[s] = "idle" BY <1>11 DEF OpenSlot, SlotInv, Unborn
  <2> QED BY <1>11, <2>1, BookkeepingSilent DEF OpenSlot
<1>12. ASSUME NEW s \in Slots, RecvErr(s) PROVE Silent
  <2>1. \A c \in Calls : cause'[c] = cause[c] \/ cause'[c] = "slot"
    BY <1>12 DEF RecvErr, CancelActive
  <2>2. \A t \in Slots : toAg'[t] = toAg[t] \/ (toAg'[t] = <<>> /\ stream'[t] # "open")
    BY <1>12 DEF RecvErr, StopLoop
  <2> QED BY <1>12, <2>1, <2>2 DEF RecvErr, Silent, Turn
<1>13. ASSUME NEW s \in Slots, RunReturns(s) PROVE Silent
  BY <1>13, BookkeepingSilent DEF RunReturns
<1>14. ASSUME NEW s \in Slots, SinkData(s) PROVE Silent
  BY <1>14 DEF SinkData, Silent, Turn, AgentType
<1>15. ASSUME NEW s \in Slots, HandlerReturn(s) PROVE Silent
  BY <1>15 DEF HandlerReturn, Silent, Turn, AgentType
<1>16. ASSUME NEW s \in Slots, SendRespEnd(s) PROVE Silent
  BY <1>16, BookkeepingSilent DEF SendRespEnd, AgentType
<1>17. ASSUME NEW s \in Slots, Retire(s) PROVE Silent
  BY <1>17, BookkeepingSilent DEF Retire, CutStream, AgentType
<1>18. ASSUME NEW s \in Slots, Park(s) PROVE Silent
  BY <1>18, BookkeepingSilent DEF Park, AgentType
<1>19. ASSUME NEW c \in Calls, Acquire(c) PROVE Silent
  BY <1>19 DEF Acquire, EndCall, Silent, Turn, CallType
<1>20. ASSUME NEW c \in Calls, Begin(c) PROVE Silent
  BY <1>20 DEF Begin, EndCall, Silent, Turn, CallType
<1>21. ASSUME NEW c \in Calls, DispatchFails(c) PROVE Silent
  BY <1>21 DEF DispatchFails, EndCall, Silent, Turn, CallType
<1>22. ASSUME NEW c \in Calls, RecvFails(c) PROVE Silent
  BY <1>22 DEF RecvFails, Silent, Turn, CallType, GivenUp
<1>23. CASE NodeDrain BY <1>23, BookkeepingSilent DEF NodeDrain
<1>24. CASE ControlReconnects BY <1>24, BookkeepingSilent DEF ControlReconnects
<1>25. CASE UNCHANGED vars BY <1>25, BookkeepingSilent DEF vars
<1> QED
  BY <1>1, <1>2, <1>3, <1>4, <1>5, <1>6, <1>7, <1>8, <1>9, <1>10, <1>11, <1>12, <1>13,
     <1>14, <1>15, <1>16, <1>17, <1>18, <1>19, <1>20, <1>21, <1>22, <1>23, <1>24, <1>25
  DEF Next, Reader, Dispatch, Response, AgentLoop, HandlerStep

-----------------------------------------------------------------------------
\* The Agent reads a frame of slot s.

ContentInv == Custody /\ Content

\* What the loop reading one frame other than headers leaves alone.
Takes(s) ==
  /\ toAg[s] # <<>> /\ Head(toAg[s]).k # "headers"
  /\ toAg' = [toAg EXCEPT ![s] = Tail(@)]
  /\ UNCHANGED <<stream, hpc, hreq, active, cst, slotOf, sent, got, outcome, produced, result>>

LEMMA Shift ==
  ASSUME NEW h \in Nat, NEW g \in Nat, NEW n \in Nat, NEW m \in Nat, n + h + 1 = m + g
  PROVE  \A j, k \in Nat : n + (j + 1) = k + g + 1 => m + j = k + h + 1
OBVIOUS

\* The body of a request is as whole after a frame in front of it was read; and
\* after one of its own chunks was, with one more fed.
LEMMA WholeShift ==
  ASSUME NEW s \in Slots, NEW h \in Nat, NEW g \in Nat, NEW c, NEW n \in Nat, NEW m \in Nat,
         n + h + 1 = m + g, sent[c] \in Nat, Len(toAg[s]) \in Nat \ {0},
         Len(toAg'[s]) = Len(toAg[s]) - 1, UNCHANGED <<stream, cst, sent>>,
         \A j \in DOMAIN toAg'[s] :
           j \in Nat /\ j + 1 \in DOMAIN toAg[s] /\ toAg'[s][j] = toAg[s][j + 1],
         g <= h + 1, Whole(s, g, c, n)
  PROVE  Whole(s, h, c, m)'
<1> SUFFICES ASSUME c \in BodyCalls
             PROVE  /\ (cst[c] = "body" /\ stream[s] = "open") => m + Len(toAg'[s]) = sent[c] + h
                    /\ \A j \in DOMAIN toAg'[s] :
                         (j > h /\ toAg'[s][j].k = "end") => m + j = Chunks + h + 1
  BY DEF Whole
<1>1. (cst[c] = "body" /\ stream[s] = "open") => n + Len(toAg[s]) = sent[c] + g BY DEF Whole
<1>2. ASSUME NEW j \in DOMAIN toAg'[s], j > h, toAg'[s][j].k = "end"
      PROVE  m + j = Chunks + h + 1
  <2>1. j \in Nat /\ j + 1 \in DOMAIN toAg[s] /\ toAg[s][j + 1].k = "end" BY <1>2
  <2>2. j + 1 > g BY <1>2, <2>1
  <2>3. n + (j + 1) = Chunks + g + 1 BY <2>1, <2>2 DEF Whole
  <2>4. \A x, k \in Nat : n + (x + 1) = k + g + 1 => m + x = k + h + 1 BY Shift
  <2>5. Chunks \in Nat OBVIOUS
  <2> QED BY <2>1, <2>3, <2>4, <2>5, Zenon
<1>3. ASSUME cst[c] = "body", stream[s] = "open" PROVE m + Len(toAg'[s]) = sent[c] + h
  <2>1. n + Len(toAg[s]) = sent[c] + g BY <1>1, <1>3
  <2> DEFINE l == Len(toAg[s])
             k == sent[c]
  <2>2. l \in Nat /\ l # 0 /\ k \in Nat /\ n + l = k + g BY <2>1
  <2> HIDE DEF l, k
  <2>3. m + (l - 1) = k + h BY <2>2
  <2> QED BY <2>3 DEF l, k
<1> QED BY <1>2, <1>3

\* The order and the owners of the frames survive.
LEMMA TakesKeeps ==
  ASSUME ContentInv, NEW s \in Slots, Takes(s)
  PROVE  /\ Requests(s)' /\ Writer(s)' /\ Cancels(s)'
         /\ \A h \in DOMAIN toAg'[s] : toAg'[s][h].k = "headers" =>
              Whole(s, h, toAg[s][h].c, 0)'
<1> DEFINE q == toAg[s]
<1>1. q \in Seq(Frame) /\ q # <<>> /\ toAg'[s] = Tail(q)
  BY DEF ContentInv, Custody, TypeOK, WireType, Takes
<1>2. /\ DOMAIN q = 1 .. Len(q) /\ Len(q) \in Nat \ {0} /\ Head(q) = q[1]
      /\ DOMAIN toAg'[s] = 1 .. (Len(q) - 1)
      /\ \A j \in 1 .. (Len(q) - 1) : toAg'[s][j] = q[j + 1]
      /\ Len(toAg'[s]) = Len(q) - 1
  BY <1>1, PopFacts, LenProperties
<1>3. /\ RequestInv(s) /\ UNCHANGED <<stream, hpc, hreq, cst, slotOf, sent, outcome>>
      /\ q[1].k # "headers"
  BY <1>2 DEF ContentInv, Content, SlotContent, RequestInv, Takes
<1> HIDE DEF q
<1>4. \A j \in DOMAIN toAg'[s] :
        /\ j \in Nat /\ j + 1 \in DOMAIN toAg[s] /\ toAg'[s][j] = toAg[s][j + 1]
  BY <1>2 DEF q
<1>5. ASSUME NEW h \in Nat, NEW c, NEW g \in {h, h + 1}, Own(s, g, c),
             \A j \in DOMAIN toAg'[s] : j > h => j + 1 > g
      PROVE  Own(s, h, c)'
  <2> SUFFICES ASSUME NEW j \in DOMAIN toAg'[s], j > h
               PROVE  /\ toAg'[s][j].c = c /\ toAg'[s][j].k \in {"data", "end", "cancel"}
                      /\ toAg'[s][j].k = "end" => cst[c] \in Ended
                      /\ toAg'[s][j].k = "cancel" => cst[c] = "closed"
                      /\ \A i \in DOMAIN toAg'[s] : (h < i /\ i < j) =>
                           \/ toAg'[s][i].k = "data"
                           \/ (toAg'[s][i].k = "end" /\ toAg'[s][j].k = "cancel")
    BY <1>3 DEF Own
  <2>1. /\ j + 1 \in DOMAIN toAg[s] /\ j + 1 > g /\ toAg'[s][j] = toAg[s][j + 1] /\ j \in Nat
    BY <1>4, <1>5
  <2>2. /\ toAg'[s][j].c = c /\ toAg'[s][j].k \in {"data", "end", "cancel"}
        /\ toAg'[s][j].k = "end" => cst[c] \in Ended
        /\ toAg'[s][j].k = "cancel" => cst[c] = "closed"
    BY <1>5, <2>1, Zenon DEF Own
  <2>3. ASSUME NEW i \in DOMAIN toAg'[s], h < i, i < j
        PROVE  \/ toAg'[s][i].k = "data"
               \/ (toAg'[s][i].k = "end" /\ toAg'[s][j].k = "cancel")
    <3>1. i + 1 \in DOMAIN toAg[s] /\ toAg'[s][i] = toAg[s][i + 1] /\ i \in Nat BY <1>4
    <3>2. g < i + 1 /\ i + 1 < j + 1 BY <1>5, <2>1, <2>3, <3>1
    <3> QED BY <1>5, <2>1, <3>1, <3>2, Zenon DEF Own
  <2> QED BY <2>2, <2>3
<1>6. Requests(s)'
  <2>1. hpc'[s] = "run" => Own(s, 0, hreq[s])'
    <3> SUFFICES ASSUME hpc[s] = "run" PROVE Own(s, 0, hreq[s])'
      BY <1>3
    <3>1. Own(s, 0, hreq[s]) BY <1>3 DEF RequestInv, Requests
    <3>2. \A j \in DOMAIN toAg'[s] : j > 0 => j + 1 > 0 BY <1>4
    <3>3. hreq'[s] = hreq[s] /\ 0 \in {0, 0 + 1} BY <1>3
    <3> QED BY <1>5, <3>1, <3>2, <3>3
  <2>2. ASSUME NEW h \in DOMAIN toAg'[s], toAg'[s][h].k = "headers"
        PROVE  Own(s, h, toAg[s][h].c)'
    <3>1. h \in Nat /\ h + 1 \in DOMAIN toAg[s] /\ toAg'[s][h] = toAg[s][h + 1] BY <1>4
    <3>2. Own(s, h + 1, toAg'[s][h].c) BY <1>3, <2>2, <3>1 DEF RequestInv, Requests
    <3>3. \A j \in DOMAIN toAg'[s] : j > h => j + 1 > h + 1 BY <1>4, <3>1
    <3> QED BY <1>5, <3>1, <3>2, <3>3
  <2> QED BY <2>1, <2>2 DEF Requests
<1>7. Writer(s)' BY <1>3, <1>4 DEF RequestInv, Writer
<1>8. Cancels(s)' BY <1>3, <1>4 DEF RequestInv, Cancels
<1>9. ASSUME NEW h \in DOMAIN toAg'[s], toAg'[s][h].k = "headers"
      PROVE  Whole(s, h, toAg[s][h].c, 0)'
  <2>1. h + 1 \in DOMAIN q /\ q[h + 1] = toAg'[s][h] /\ h \in Nat /\ h <= Len(q) - 1
    BY <1>2, <1>4 DEF q
  <2>2. Whole(s, h + 1, toAg'[s][h].c, 0) BY <1>3, <1>9, <2>1 DEF RequestInv, Bodies, q
  <2>3. toAg'[s][h].c \in Calls
    BY <1>9, <2>1, Owners DEF ContentInv, Custody, q
  <2>4. sent[toAg'[s][h].c] \in Nat BY <2>3 DEF ContentInv, Custody, TypeOK, CallType
  <2>5. /\ h + 1 \in Nat /\ 0 + h + 1 = 0 + (h + 1) /\ h + 1 <= h + 1 /\ 0 \in Nat
        /\ Len(toAg[s]) \in Nat \ {0} /\ Len(toAg'[s]) = Len(toAg[s]) - 1
    BY <1>2, <2>1 DEF q
  <2>6. UNCHANGED <<stream, cst, sent>> BY <1>3
  <2> QED BY <1>4, <2>1, <2>2, <2>4, <2>5, <2>6, WholeShift
<1> QED BY <1>6, <1>7, <1>8, <1>9

\* The request that is being served owns the frame, and is the active one.
LEMMA HeadOwner ==
  ASSUME ContentInv, NEW s \in Slots, Takes(s), hpc[s] = "run"
  PROVE  /\ Head(toAg[s]).c = hreq[s] /\ active[s] = hreq[s] /\ hreq[s] \in Calls
         /\ Matches(s, Head(toAg[s]).c)
<1>1. SlotInv(s) /\ Own(s, 0, hreq[s])
  BY DEF ContentInv, Custody, Content, SlotContent, Requests
<1>2. active[s] = hreq[s] /\ hreq[s] \in Calls BY <1>1 DEF SlotInv, HandlerServes
<1>3. toAg[s] \in Seq(Frame) /\ toAg[s] # <<>>
  BY DEF ContentInv, Custody, TypeOK, WireType, Takes
<1>4. 1 \in DOMAIN toAg[s] /\ Head(toAg[s]) = toAg[s][1] BY <1>3, PopFacts
<1>5. Head(toAg[s]).c = hreq[s] BY <1>1, <1>4 DEF Own
<1> QED BY <1>2, <1>5 DEF Matches, SameId

\* Nothing is active on a slot whose handler does not run.
LEMMA NotActive ==
  ASSUME ContentInv, NEW s \in Slots, hpc[s] # "run"
  PROVE  active[s] = NoCall /\ \A c : ~Matches(s, c)
BY DEF ContentInv, Custody, SlotInv, HandlerServes, Matches

LEMMA DataTaken ==
  ASSUME ContentInv, NEW s \in Slots, RecvData(s)
  PROVE  RequestInv(s)'
<1>1. Takes(s) /\ Head(toAg[s]).k = "data" BY DEF RecvData, AgentTakes, Takes, callv
<1>2. UNCHANGED <<cause, bodyClosed>> BY DEF RecvData
<1> DEFINE q == toAg[s]
           a == hreq[s]
<1>3. q \in Seq(Frame) /\ q # <<>> /\ toAg'[s] = Tail(q)
  BY <1>1 DEF ContentInv, Custody, TypeOK, WireType, Takes
<1>4. /\ DOMAIN q = 1 .. Len(q) /\ Len(q) \in Nat \ {0} /\ Head(q) = q[1]
      /\ DOMAIN toAg'[s] = 1 .. (Len(q) - 1)
      /\ \A j \in 1 .. (Len(q) - 1) : toAg'[s][j] = q[j + 1]
      /\ Len(toAg'[s]) = Len(q) - 1
  BY <1>3, PopFacts, LenProperties
<1>5. RequestInv(s) BY DEF ContentInv, Content, SlotContent, RequestInv
<1>6. ASSUME hpc[s] = "run", cause[a] = "none"
      PROVE  Whole(s, 0, a, fed[a])'
  <2>1. Matches(s, Head(toAg[s]).c) /\ active[s] = a /\ a \in Calls BY <1>1, <1>6, HeadOwner
  <2>2. fed'[a] = fed[a] + 1
    BY <1>6, <2>1 DEF RecvData, ContentInv, Custody, TypeOK, AgentType
  <2>3. Whole(s, 0, a, fed[a]) BY <1>5, <1>6 DEF RequestInv, Bodies
  <2>4. fed[a] \in Nat /\ sent[a] \in Nat
    BY <2>1 DEF ContentInv, Custody, TypeOK, AgentType, CallType
  <2>5. UNCHANGED <<cst, stream, sent, hreq>> BY <1>1 DEF Takes
  <2>6. \A j \in DOMAIN toAg'[s] :
           j \in Nat /\ j + 1 \in DOMAIN toAg[s] /\ toAg'[s][j] = toAg[s][j + 1]
    BY <1>4
  <2>7. fed'[a] \in Nat /\ fed[a] + 0 + 1 = fed'[a] + 0 /\ 0 <= 0 + 1 /\ 0 \in Nat
    BY <2>2, <2>4
  <2>8. Len(toAg[s]) \in Nat \ {0} /\ Len(toAg'[s]) = Len(toAg[s]) - 1 BY <1>4
  <2> QED BY <2>3, <2>4, <2>5, <2>6, <2>7, <2>8, WholeShift
<1>7. Bodies(s)'
  BY <1>1, <1>2, <1>6, TakesKeeps DEF Bodies, Takes
<1>8. Sealed(s)'
  BY <1>1, <1>2, <1>4, <1>5 DEF RequestInv, Sealed, Takes
<1> QED BY <1>1, <1>7, <1>8, TakesKeeps DEF RequestInv

LEMMA EndTaken ==
  ASSUME ContentInv, NEW s \in Slots, RecvEnd(s)
  PROVE  /\ RequestInv(s)'
         /\ \A c \in Calls : bodyClosed'[c] /\ ~bodyClosed[c] =>
              (c \in BodyCalls /\ cause[c] = "none" => fed[c] = Chunks)
              /\ active[s] = c
<1>1. Takes(s) /\ Head(toAg[s]).k = "end" BY DEF RecvEnd, AgentTakes, Takes, callv
<1>2. UNCHANGED <<cause, fed>> BY DEF RecvEnd
<1> DEFINE q == toAg[s]
           a == hreq[s]
<1>3. q \in Seq(Frame) /\ q # <<>> /\ toAg'[s] = Tail(q)
  BY <1>1 DEF ContentInv, Custody, TypeOK, WireType, Takes
<1>4. /\ DOMAIN q = 1 .. Len(q) /\ Len(q) \in Nat \ {0} /\ Head(q) = q[1]
      /\ DOMAIN toAg'[s] = 1 .. (Len(q) - 1)
      /\ \A j \in 1 .. (Len(q) - 1) : toAg'[s][j] = q[j + 1]
      /\ Len(toAg'[s]) = Len(q) - 1
  BY <1>3, PopFacts, LenProperties
<1>5. RequestInv(s) BY DEF ContentInv, Content, SlotContent, RequestInv
<1>6. ASSUME hpc[s] = "run"
      PROVE  /\ cst[a] \in Ended /\ \A j \in DOMAIN toAg'[s] : toAg'[s][j].k = "cancel"
             /\ a \in BodyCalls /\ cause[a] = "none" => fed[a] = Chunks
             /\ active[s] = a /\ a \in Calls
  <2>1. active[s] = a /\ a \in Calls BY <1>1, <1>6, HeadOwner
  <2>2. Own(s, 0, a) BY <1>5, <1>6 DEF RequestInv, Requests
  <2>3. cst[a] \in Ended /\ \A j \in DOMAIN toAg'[s] : toAg'[s][j].k = "cancel"
    <3>1. 1 \in DOMAIN q /\ q[1].k = "end" BY <1>1, <1>4
    <3>2. cst[a] \in Ended BY <2>2, <3>1 DEF Own
    <3>3. ASSUME NEW j \in DOMAIN toAg'[s] PROVE toAg'[s][j].k = "cancel"
      <4>1. j + 1 \in DOMAIN q /\ 0 < 1 /\ 1 < j + 1 /\ j + 1 > 0 /\ toAg'[s][j] = q[j + 1]
        BY <1>4
      <4> QED BY <2>2, <3>1, <4>1 DEF Own
    <3> QED BY <3>2, <3>3
  <2>4. cause[a] = "none" => Whole(s, 0, a, fed[a]) BY <1>5, <1>6 DEF RequestInv, Bodies
  <2>5. fed[a] \in Nat BY <2>1 DEF ContentInv, Custody, TypeOK, AgentType
  <2>6. a \in BodyCalls /\ cause[a] = "none" => fed[a] = Chunks
    BY <1>1, <1>4, <2>4, <2>5 DEF Whole
  <2> QED BY <2>1, <2>3, <2>6
<1>7. Bodies(s)'
  <2>1. hpc[s] = "run" => Whole(s, 0, a, fed[a])'
    BY <1>1, <1>4, <1>6 DEF Whole, Takes, Ended
  <2> QED BY <1>1, <1>2, <2>1, TakesKeeps DEF Bodies, Takes
<1>8. Sealed(s)' BY <1>1, <1>6 DEF Sealed, Takes
<1>9. \A c \in Calls : bodyClosed'[c] /\ ~bodyClosed[c] => c = active[s] /\ hpc[s] = "run"
  BY NotActive DEF RecvEnd, ContentInv, Custody, TypeOK, AgentType
<1> QED BY <1>1, <1>6, <1>7, <1>8, <1>9, TakesKeeps DEF RequestInv

LEMMA CancelTaken ==
  ASSUME ContentInv, NEW s \in Slots, RecvCancel(s)
  PROVE  /\ RequestInv(s)'
         /\ \A c \in Calls : cause'[c] # cause[c] =>
              cause'[c] = "gateway" /\ cst[c] = "closed" /\ outcome[c] \in GivenUp
<1>1. Takes(s) /\ Head(toAg[s]).k = "cancel" BY DEF RecvCancel, AgentTakes, Takes, callv
<1>2. UNCHANGED <<fed, bodyClosed>> BY DEF RecvCancel
<1> DEFINE q == toAg[s]
           a == hreq[s]
<1>3. q \in Seq(Frame) /\ q # <<>> /\ toAg'[s] = Tail(q)
  BY <1>1 DEF ContentInv, Custody, TypeOK, WireType, Takes
<1>4. /\ DOMAIN q = 1 .. Len(q) /\ Len(q) \in Nat \ {0} /\ Head(q) = q[1]
      /\ DOMAIN toAg'[s] = 1 .. (Len(q) - 1)
      /\ \A j \in 1 .. (Len(q) - 1) : toAg'[s][j] = q[j + 1]
      /\ Len(toAg'[s]) = Len(q) - 1
  BY <1>3, PopFacts, LenProperties
<1>5. RequestInv(s) BY DEF ContentInv, Content, SlotContent, RequestInv
<1>6. ASSUME hpc[s] = "run"
      PROVE  /\ cst[a] = "closed" /\ outcome[a] \in GivenUp
             /\ DOMAIN toAg'[s] = {} /\ active[s] = a
  <2>1. active[s] = a /\ a = q[1].c BY <1>1, <1>4, <1>6, HeadOwner
  <2>2. Own(s, 0, a) BY <1>5, <1>6 DEF RequestInv, Requests
  <2>3. cst[a] = "closed" /\ outcome[a] \in GivenUp
    BY <1>1, <1>4, <1>5, <2>1 DEF RequestInv, Cancels
  <2>4. ASSUME NEW j \in DOMAIN toAg'[s] PROVE FALSE
    <3>1. 1 \in DOMAIN q /\ q[1].k = "cancel" BY <1>1, <1>4
    <3>2. j + 1 \in DOMAIN q /\ 0 < 1 /\ 1 < j + 1 /\ j + 1 > 0 BY <1>4
    <3> QED BY <2>2, <3>1, <3>2 DEF Own
  <2> QED BY <2>1, <2>3, <2>4
<1>7. Bodies(s)'
  <2>1. hpc[s] = "run" => Whole(s, 0, a, fed[a])'
    BY <1>1, <1>6 DEF Whole, Takes
  <2> QED BY <1>1, <1>2, <2>1, TakesKeeps DEF Bodies, Takes
<1>8. Sealed(s)' BY <1>1, <1>2, <1>6 DEF Sealed, Takes, Ended
<1>9. \A c \in Calls : cause'[c] # cause[c] =>
        cause'[c] = "gateway" /\ c = active[s] /\ hpc[s] = "run"
  BY NotActive DEF RecvCancel, CancelActive, ContentInv, Custody, TypeOK, AgentType
<1> QED BY <1>1, <1>6, <1>7, <1>8, <1>9, TakesKeeps DEF RequestInv

\* The Agent starts a request: what follows its headers is the rest of it.
LEMMA HeadersTaken ==
  ASSUME ContentInv, NEW s \in Slots, RecvHeaders(s)
  PROVE  /\ RequestInv(s)'
         /\ Head(toAg[s]) = toAg[s][1] /\ 1 \in DOMAIN toAg[s] /\ toAg[s][1].c \in Calls
         /\ active[s] = NoCall /\ hreq' = [hreq EXCEPT ![s] = toAg[s][1].c]
         /\ hpc' = [hpc EXCEPT ![s] = "run"]
         /\ toAg' = [toAg EXCEPT ![s] = Tail(@)]
         /\ UNCHANGED <<stream, toGw, cause>>
         /\ \A j \in DOMAIN toAg'[s] : toAg'[s][j].k # "headers"
<1> DEFINE q == toAg[s]
           c == toAg[s][1].c
<1>1. /\ SlotInv(s) /\ RequestInv(s) /\ TypeOK
  BY DEF ContentInv, Custody, Content, SlotContent, RequestInv
<1>2. q \in Seq(Frame) /\ q # <<>> BY <1>1 DEF TypeOK, WireType, RecvHeaders
<1>3. /\ DOMAIN q = 1 .. Len(q) /\ Len(q) \in Nat \ {0} /\ Head(q) = q[1]
      /\ DOMAIN Tail(q) = 1 .. (Len(q) - 1)
      /\ \A j \in 1 .. (Len(q) - 1) : Tail(q)[j] = q[j + 1]
      /\ Len(Tail(q)) = Len(q) - 1
  BY <1>2, PopFacts, LenProperties
<1>4. 1 \in DOMAIN q /\ q[1].k = "headers" BY <1>3 DEF RecvHeaders
<1>5. c \in Calls /\ slotOf[c] = s BY <1>1, <1>4, Owners
<1>6. active[s] = NoCall
  BY <1>1, <1>4 DEF SlotInv, OneHand, HasHeaders, HandlerBusy, HandlerServes
<1>7. /\ hreq' = [hreq EXCEPT ![s] = c] /\ hpc' = [hpc EXCEPT ![s] = "run"]
      /\ toAg' = [toAg EXCEPT ![s] = Tail(@)] /\ UNCHANGED <<stream, toGw, cause>>
  BY <1>3, <1>6 DEF RecvHeaders
<1>8. UNCHANGED <<cst, slotOf, sent, outcome, fed, bodyClosed>> BY DEF RecvHeaders, callv
<1>9. toAg'[s] = Tail(q) /\ hreq'[s] = c /\ hpc'[s] = "run"
  BY <1>1, <1>7 DEF TypeOK, WireType, AgentType
<1>10. \A j \in DOMAIN toAg'[s] :
        /\ j \in Nat \ {0} /\ j + 1 \in DOMAIN toAg[s] /\ toAg'[s][j] = toAg[s][j + 1]
  BY <1>3, <1>9
<1>11. Own(s, 1, c) /\ Whole(s, 1, c, 0) BY <1>1, <1>4 DEF RequestInv, Requests, Bodies
<1>12. \A j \in DOMAIN toAg'[s] : toAg'[s][j].k # "headers"
  BY <1>10, <1>11 DEF Own
<1>13. Own(s, 0, hreq[s])'
  <2> SUFFICES ASSUME NEW j \in DOMAIN toAg'[s], j > 0
               PROVE  /\ toAg'[s][j].c = c /\ toAg'[s][j].k \in {"data", "end", "cancel"}
                      /\ toAg'[s][j].k = "end" => cst[c] \in Ended
                      /\ toAg'[s][j].k = "cancel" => cst[c] = "closed"
                      /\ \A i \in DOMAIN toAg'[s] : (0 < i /\ i < j) =>
                           \/ toAg'[s][i].k = "data"
                           \/ (toAg'[s][i].k = "end" /\ toAg'[s][j].k = "cancel")
    BY <1>8, <1>9 DEF Own
  <2>1. j + 1 \in DOMAIN toAg[s] /\ j + 1 > 1 /\ toAg'[s][j] = toAg[s][j + 1] /\ j \in Nat
    BY <1>10
  <2>2. /\ toAg'[s][j].c = c /\ toAg'[s][j].k \in {"data", "end", "cancel"}
        /\ toAg'[s][j].k = "end" => cst[c] \in Ended
        /\ toAg'[s][j].k = "cancel" => cst[c] = "closed"
    BY <1>11, <2>1, Zenon DEF Own
  <2>3. ASSUME NEW i \in DOMAIN toAg'[s], 0 < i, i < j
        PROVE  \/ toAg'[s][i].k = "data"
               \/ (toAg'[s][i].k = "end" /\ toAg'[s][j].k = "cancel")
    <3>1. i + 1 \in DOMAIN toAg[s] /\ toAg'[s][i] = toAg[s][i + 1] /\ i \in Nat \ {0} BY <1>10
    <3>2. 1 < i + 1 /\ i + 1 < j + 1 BY <2>1, <2>3, <3>1
    <3> QED BY <1>11, <2>1, <3>1, <3>2, Zenon DEF Own
  <2> QED BY <2>2, <2>3
<1>14. fed[c] = 0 /\ ~bodyClosed[c]
  BY <1>4, <1>5 DEF ContentInv, Content, CallContent, Fresh, Unseen
<1>15. Whole(s, 0, hreq[s], fed[hreq[s]])'
  <2>0. PICK d \in Calls : d = c BY <1>5
  <2>1. Whole(s, 0, d, 0)'
    <3>1. /\ sent[d] \in Nat /\ Len(toAg[s]) \in Nat \ {0} /\ Len(toAg'[s]) = Len(toAg[s]) - 1
      BY <1>1, <1>3, <1>5, <1>9 DEF TypeOK, CallType
    <3>2. 0 \in Nat /\ 1 \in Nat /\ 0 + 0 + 1 = 0 + 1 /\ 1 <= 0 + 1 OBVIOUS
    <3>3. \A j \in DOMAIN toAg'[s] :
            j \in Nat /\ j + 1 \in DOMAIN toAg[s] /\ toAg'[s][j] = toAg[s][j + 1]
      BY <1>10
    <3>4. Whole(s, 1, d, 0) BY <1>11, <2>0
    <3>5. UNCHANGED <<stream, cst, sent>> BY <1>7, <1>8
    <3> QED BY <3>1, <3>2, <3>3, <3>4, <3>5, WholeShift
  <2>2. hreq'[s] = d /\ fed'[d] = 0 BY <1>8, <1>9, <1>14, <2>0
  <2> QED BY <2>1, <2>2 DEF Whole
<1>16. Requests(s)' /\ Bodies(s)' BY <1>9, <1>12, <1>13, <1>15 DEF Requests, Bodies
<1>17. Writer(s)' BY <1>1, <1>4, <1>8, <1>9, <1>12 DEF RequestInv, Writer
<1>18. Sealed(s)' BY <1>8, <1>9, <1>14 DEF Sealed
<1>19. Cancels(s)' BY <1>1, <1>8, <1>10 DEF RequestInv, Cancels
<1> QED BY <1>3, <1>4, <1>5, <1>6, <1>7, <1>12, <1>16, <1>17, <1>18, <1>19 DEF RequestInv

-----------------------------------------------------------------------------
\* The caller writes a frame of its request.

\* Call c appends a frame of kind k, behind its headers, on an open stream.
Grows(s, c, k) ==
  /\ slotOf[c] = s /\ stream[s] = "open"
  /\ toAg'[s] = Append(toAg[s], Msg(k, c))
  /\ UNCHANGED <<stream, hpc, hreq, slotOf, outcome, cause, fed, bodyClosed>>
  /\ \A d \in Calls \ {c} : cst'[d] = cst[d] /\ sent'[d] = sent[d]
  /\ \/ k = "data" /\ cst[c] = "body" /\ cst'[c] = "body" /\ sent'[c] = sent[c] + 1
     \/ /\ k = "end" /\ cst[c] = "body" /\ cst'[c] = "open" /\ sent'[c] = sent[c]
        /\ c \in BodyCalls => sent[c] = Chunks
     \/ k = "cancel" /\ cst[c] = "closing" /\ cst'[c] = "closed" /\ sent'[c] = sent[c]

LEMMA GrowsKeeps ==
  ASSUME ContentInv, NEW s \in Slots, NEW c \in Calls, NEW k \in {"data", "end", "cancel"},
         Grows(s, c, k)
  PROVE  RequestInv(s)'
<1> DEFINE q == toAg[s]
           n == Len(toAg[s]) + 1
<1>1. /\ SlotInv(s) /\ RequestInv(s) /\ TypeOK /\ Verdict(c)
  BY DEF ContentInv, Custody, Content, SlotContent, RequestInv, CallContent
<1>2. q \in Seq(Frame) /\ Msg(k, c) \in Frame /\ Msg(k, c).k = k /\ Msg(k, c).c = c
  BY <1>1, FrameFacts DEF TypeOK, WireType
<1>3. /\ DOMAIN q = 1 .. Len(q) /\ Len(q) \in Nat
      /\ DOMAIN toAg'[s] = 1 .. (Len(q) + 1)
      /\ \A i \in 1 .. Len(q) : toAg'[s][i] = q[i]
      /\ toAg'[s][Len(q) + 1] = Msg(k, c) /\ Len(toAg'[s]) = Len(q) + 1
  BY <1>2, PushFacts, AppendProperties DEF Grows
<1>4. /\ n \in Nat \ {0} /\ n \in DOMAIN toAg'[s] /\ n \notin DOMAIN toAg[s]
      /\ toAg'[s][n].k = k /\ toAg'[s][n].c = c /\ Len(toAg'[s]) = n
      /\ \A i \in DOMAIN toAg[s] : i \in DOMAIN toAg'[s] /\ toAg'[s][i] = toAg[s][i] /\ i < n
      /\ \A i \in DOMAIN toAg'[s] : i \in Nat /\ (i = n \/ i \in DOMAIN toAg[s])
  BY <1>2, <1>3
<1> HIDE DEF q, n
<1>5. cst[c] \in {"body", "closing"} /\ slotOf[c] = s
      /\ UNCHANGED <<stream, hpc, hreq, slotOf, outcome, cause, fed, bodyClosed>>
  BY DEF Grows
<1>6. /\ \A h \in DOMAIN toAg[s] : toAg[s][h].k = "headers" => toAg[s][h].c = c
      /\ hpc[s] = "run" => hreq[s] = c
  BY <1>1, <1>5 DEF RequestInv, Writer
<1>7. ASSUME NEW h \in Nat, h < n, Own(s, h, c) PROVE Own(s, h, c)'
  <2> SUFFICES ASSUME NEW j \in DOMAIN toAg'[s], j > h
               PROVE  /\ toAg'[s][j].c = c /\ toAg'[s][j].k \in {"data", "end", "cancel"}
                      /\ toAg'[s][j].k = "end" => cst'[c] \in Ended
                      /\ toAg'[s][j].k = "cancel" => cst'[c] = "closed"
                      /\ \A i \in DOMAIN toAg'[s] : (h < i /\ i < j) =>
                           \/ toAg'[s][i].k = "data"
                           \/ (toAg'[s][i].k = "end" /\ toAg'[s][j].k = "cancel")
    BY DEF Own
  <2>1. CASE j \in DOMAIN toAg[s]
    <3>1. toAg'[s][j] = toAg[s][j] BY <1>4, <2>1
    <3>2. /\ toAg[s][j].c = c /\ toAg[s][j].k \in {"data", "end", "cancel"}
          /\ toAg[s][j].k = "end" => cst[c] \in Ended
          /\ toAg[s][j].k = "cancel" => cst[c] = "closed"
      BY <1>7, <2>1 DEF Own
    <3>3. ASSUME NEW i \in DOMAIN toAg'[s], h < i, i < j
          PROVE  \/ toAg'[s][i].k = "data"
                 \/ (toAg'[s][i].k = "end" /\ toAg'[s][j].k = "cancel")
      <4>1. i \in DOMAIN toAg[s] /\ toAg'[s][i] = toAg[s][i] BY <1>4, <2>1, <3>3
      <4> QED BY <1>7, <2>1, <3>1, <3>3, <4>1 DEF Own
    <3>4. /\ cst[c] \in Ended => cst'[c] \in Ended
          /\ cst[c] # "closed"
      BY <1>5 DEF Grows, Ended
    <3> QED BY <3>1, <3>2, <3>3, <3>4
  <2>2. CASE j = n
    <3>1. toAg'[s][j].c = c /\ toAg'[s][j].k = k BY <1>4, <2>2
    <3>2. k = "end" => cst'[c] \in Ended BY DEF Grows, Ended
    <3>3. k = "cancel" => cst'[c] = "closed" BY DEF Grows
    <3>4. ASSUME NEW i \in DOMAIN toAg'[s], h < i, i < j
          PROVE  \/ toAg'[s][i].k = "data"
                 \/ (toAg'[s][i].k = "end" /\ k = "cancel")
      <4>1. i \in DOMAIN toAg[s] /\ toAg'[s][i] = toAg[s][i] BY <1>4, <2>2, <3>4
      <4>2. /\ toAg[s][i].k \in {"data", "end", "cancel"}
            /\ toAg[s][i].k = "end" => cst[c] \in Ended
            /\ toAg[s][i].k = "cancel" => cst[c] = "closed"
        BY <1>7, <3>4, <4>1 DEF Own
      <4> QED BY <1>5, <4>1, <4>2 DEF Grows, Ended
    <3> QED BY <3>1, <3>2, <3>3, <3>4
  <2> QED BY <1>4, <2>1, <2>2
<1>8. ASSUME NEW h \in Nat, h < n, NEW m \in Nat, Own(s, h, c), Whole(s, h, c, m)
      PROVE  Whole(s, h, c, m)'
  <2> SUFFICES ASSUME c \in BodyCalls
               PROVE  /\ (cst'[c] = "body" /\ stream'[s] = "open") =>
                           m + Len(toAg'[s]) = sent'[c] + h
                      /\ \A j \in DOMAIN toAg'[s] :
                           (j > h /\ toAg'[s][j].k = "end") => m + j = Chunks + h + 1
    BY DEF Whole
  <2>1. sent[c] \in Nat BY <1>1 DEF TypeOK, CallType
  <2>2. cst[c] = "body" => m + (n - 1) = sent[c] + h
    BY <1>3, <1>8 DEF Whole, Grows, n, q
  <2>3. (cst'[c] = "body" /\ stream'[s] = "open") => m + Len(toAg'[s]) = sent'[c] + h
    <3>1. cst'[c] = "body" => cst[c] = "body" /\ sent'[c] = sent[c] + 1 BY DEF Grows
    <3>2. n \in Nat /\ Len(toAg'[s]) = n BY <1>4
    <3> DEFINE z == sent[c]
    <3>3. z \in Nat /\ (cst[c] = "body" => m + (n - 1) = z + h) BY <2>1, <2>2
    <3>4. cst'[c] = "body" => cst[c] = "body" /\ sent'[c] = z + 1 BY <3>1
    <3> HIDE DEF z
    <3>5. m + (n - 1) = z + h => m + n = z + 1 + h BY <1>8, <3>2, <3>3
    <3> QED BY <3>2, <3>3, <3>4, <3>5
  <2>4. ASSUME NEW j \in DOMAIN toAg'[s], j > h, toAg'[s][j].k = "end"
        PROVE  m + j = Chunks + h + 1
    <3>1. CASE j = n
      <4>1. k = "end" BY <1>4, <2>4, <3>1
      <4>2. cst[c] = "body" /\ sent[c] = Chunks BY <4>1 DEF Grows
      <4> QED BY <1>4, <2>2, <3>1, <4>2
    <3>2. CASE j \in DOMAIN toAg[s]
      BY <1>4, <1>8, <2>4, <3>2 DEF Whole
    <3> QED BY <1>4, <3>1, <3>2
  <2> QED BY <2>3, <2>4
<1>9. k # "headers" /\ \A h \in DOMAIN toAg'[s] : toAg'[s][h].k = "headers" =>
         h \in DOMAIN toAg[s] /\ h \in Nat /\ h < n /\ toAg[s][h].k = "headers"
         /\ toAg[s][h].c = c /\ toAg'[s][h].c = c
  BY <1>4, <1>6
<1>10. Requests(s)'
  <2>1. hpc[s] = "run" => Own(s, 0, c)' BY <1>1, <1>4, <1>6, <1>7 DEF RequestInv, Requests
  <2>2. \A h \in DOMAIN toAg'[s] : toAg'[s][h].k = "headers" => Own(s, h, c)'
    BY <1>1, <1>7, <1>9 DEF RequestInv, Requests
  <2> QED BY <1>5, <1>6, <1>9, <2>1, <2>2 DEF Requests
<1>11. Bodies(s)'
  <2>1. hpc[s] = "run" /\ cause[c] = "none" => Whole(s, 0, c, fed[c])'
    <3> SUFFICES ASSUME hpc[s] = "run", cause[c] = "none" PROVE Whole(s, 0, c, fed[c])'
      OBVIOUS
    <3>1. PICK m \in Nat : m = fed[c] BY <1>1 DEF TypeOK, AgentType
    <3>2. Own(s, 0, c) /\ Whole(s, 0, c, m)
      BY <1>1, <1>6, <3>1 DEF RequestInv, Requests, Bodies
    <3>3. Whole(s, 0, c, m)' BY <1>4, <1>8, <3>2
    <3> QED BY <1>5, <3>1, <3>3
  <2>2. \A h \in DOMAIN toAg'[s] : toAg'[s][h].k = "headers" => Whole(s, h, c, 0)'
    BY <1>1, <1>8, <1>9 DEF RequestInv, Requests, Bodies
  <2> QED BY <1>5, <1>6, <1>9, <2>1, <2>2 DEF Bodies
<1>12. Writer(s)'
  <2>1. \A d \in Calls : cst'[d] \in {"body", "open", "closing"} =>
          cst[d] \in {"body", "open", "closing"}
    BY DEF Grows
  <2> QED BY <1>1, <1>5, <1>9, <2>1 DEF RequestInv, Writer
<1>13. Sealed(s)'
  BY <1>1, <1>4, <1>5, <1>6 DEF RequestInv, Sealed, Grows, Ended
<1>14. Cancels(s)'
  <2>1. \A d \in Calls : cst[d] = "closed" => cst'[d] = "closed" BY <1>5 DEF Grows
  <2>2. k = "cancel" => cst'[c] = "closed" /\ outcome'[c] \in GivenUp
    BY <1>1, <1>5 DEF Grows, Verdict
  <2>3. \A h \in DOMAIN toAg[s] : toAg[s][h].k # "ready" => toAg[s][h].c \in Calls
    BY <1>1, Owners
  <2> QED BY <1>1, <1>4, <1>5, <2>1, <2>2, <2>3 DEF RequestInv, Cancels
<1> QED BY <1>10, <1>11, <1>12, <1>13, <1>14 DEF RequestInv

\* The headers of call c go out, or are lost.
LEMMA HeadersSent ==
  ASSUME ContentInv, NEW c \in Calls, SendHeaders(c), NEW s \in Slots, slotOf[c] = s
  PROVE  RequestInv(s)'
<1>1. /\ SlotInv(s) /\ RequestInv(s) /\ TypeOK /\ Fresh(c)
  BY DEF ContentInv, Custody, Content, SlotContent, RequestInv, CallContent
<1>2. /\ cst[c] = "hdr" /\ cst' = [cst EXCEPT ![c] = "body"]
      /\ UNCHANGED <<stream, hpc, hreq, slotOf, sent, outcome, cause, fed, bodyClosed>>
  BY DEF SendHeaders, callv, agv
<1>3. hpc[s] # "run" /\ \A i \in DOMAIN toAg[s] : toAg[s][i].k # "headers"
  BY <1>1, <1>2 DEF SlotInv, OneHand, Given, HandlerBusy, HasHeaders
<1>4. \A d \in Calls \ {c} : cst[d] \in Holding => slotOf[d] # s
  BY <1>1, <1>2 DEF SlotInv, GivenClean
<1>5. \A d \in Calls : cst[d] = "closed" => cst'[d] = "closed" BY <1>1, <1>2 DEF TypeOK, CallType
<1>6. \A d \in Calls : cst'[d] \in {"body", "open", "closing"} /\ slotOf[d] = s => d = c
  BY <1>1, <1>2, <1>4 DEF TypeOK, CallType, Holding
<1>7. \A h \in DOMAIN toAg[s] : toAg[s][h].k # "ready" => toAg[s][h].c \in Calls
  BY <1>1, Owners
<1>8. CASE stream[s] # "open"
  <2>1. toAg' = toAg BY <1>8 DEF SendHeaders, SendOk
  <2>2. Requests(s)' /\ Bodies(s)' /\ Sealed(s)'
    BY <1>2, <1>3, <2>1 DEF Requests, Bodies, Sealed
  <2>3. Writer(s)' BY <1>2, <1>3, <2>1 DEF Writer
  <2>4. Cancels(s)' BY <1>1, <1>2, <1>5, <1>7, <2>1 DEF RequestInv, Cancels
  <2> QED BY <2>2, <2>3, <2>4 DEF RequestInv
<1>9. CASE stream[s] = "open"
  <2> DEFINE q == toAg[s]
             n == Len(toAg[s]) + 1
  <2>1. /\ q \in Seq(Frame) /\ Msg("headers", c) \in Frame
        /\ Msg("headers", c).k = "headers" /\ Msg("headers", c).c = c
    BY <1>1, FrameFacts DEF TypeOK, WireType
  <2>2. toAg'[s] = Append(q, Msg("headers", c))
    BY <1>1, <1>9 DEF SendHeaders, SendOk, TypeOK, WireType
  <2>3. /\ DOMAIN q = 1 .. Len(q) /\ Len(q) \in Nat
        /\ DOMAIN toAg'[s] = 1 .. (Len(q) + 1)
        /\ \A i \in 1 .. Len(q) : toAg'[s][i] = q[i]
        /\ toAg'[s][Len(q) + 1] = Msg("headers", c) /\ Len(toAg'[s]) = Len(q) + 1
    BY <2>1, <2>2, PushFacts, AppendProperties
  <2>4. /\ n \in Nat \ {0} /\ n \in DOMAIN toAg'[s] /\ n \notin DOMAIN toAg[s]
        /\ toAg'[s][n].k = "headers" /\ toAg'[s][n].c = c /\ Len(toAg'[s]) = n
        /\ \A i \in DOMAIN toAg[s] : toAg'[s][i] = toAg[s][i]
        /\ \A i \in DOMAIN toAg'[s] : i \in Nat /\ i <= n /\ (i = n \/ i \in DOMAIN toAg[s])
    BY <2>1, <2>3
  <2> HIDE DEF q, n
  <2>5. \A h \in DOMAIN toAg'[s] : toAg'[s][h].k = "headers" => h = n BY <1>3, <2>4
  <2>6. Requests(s)'
    <3>1. \A j \in DOMAIN toAg'[s] : ~(j > n) BY <2>4
    <3> QED BY <1>2, <1>3, <2>5, <3>1 DEF Requests, Own
  <2>7. Bodies(s)'
    <3>1. sent'[c] = 0 BY <1>1, <1>2 DEF Fresh
    <3>2. \A j \in DOMAIN toAg'[s] : ~(j > n) BY <2>4
    <3>3. 0 + Len(toAg'[s]) = sent'[c] + n BY <2>4, <3>1
    <3> QED BY <1>2, <1>3, <2>4, <2>5, <3>2, <3>3 DEF Bodies, Whole
  <2>8. Sealed(s)' BY <1>2, <1>3 DEF Sealed
  <2>9. Writer(s)' BY <1>2, <1>3, <1>6, <2>4, <2>5 DEF Writer
  <2>10. Cancels(s)' BY <1>1, <1>2, <1>5, <1>7, <2>4 DEF RequestInv, Cancels
  <2> QED BY <2>6, <2>7, <2>8, <2>9, <2>10 DEF RequestInv
<1> QED BY <1>8, <1>9

\* Any other frame of the request: it follows the headers, or is lost.
LEMMA FrameSent ==
  ASSUME ContentInv, NEW c \in Calls, SendChunk(c) \/ SendEnd(c) \/ CloseResponse(c),
         NEW s \in Slots, slotOf[c] = s
  PROVE  RequestInv(s)'
<1>1. SlotInv(s) /\ RequestInv(s) /\ TypeOK
  BY DEF ContentInv, Custody, Content, SlotContent, RequestInv
<1>2. UNCHANGED <<stream, hpc, hreq, slotOf, outcome, cause, fed, bodyClosed>>
  BY DEF SendChunk, SendEnd, CloseResponse, agv
<1>3. CASE stream[s] = "open"
  <2>1. CASE SendChunk(c)
    <3>1. Grows(s, c, "data")
      BY <1>1, <1>2, <1>3, <2>1 DEF SendChunk, SendOk, Grows, TypeOK, WireType, CallType
    <3> QED BY <3>1, GrowsKeeps
  <2>2. CASE SendEnd(c)
    <3>1. Grows(s, c, "end")
      BY <1>1, <1>2, <1>3, <2>2 DEF SendEnd, SendOk, Grows, TypeOK, WireType, CallType
    <3> QED BY <3>1, GrowsKeeps
  <2>3. CASE CloseResponse(c)
    <3>1. Grows(s, c, "cancel")
      BY <1>1, <1>2, <1>3, <2>3 DEF CloseResponse, Grows, TypeOK, WireType, CallType
    <3> QED BY <3>1, GrowsKeeps
  <2> QED BY <2>1, <2>2, <2>3
<1>4. CASE stream[s] # "open"
  <2>1. toAg' = toAg BY <1>4 DEF SendChunk, SendEnd, CloseResponse, SendOk
  <2>2. \A d \in Calls : /\ cst[d] = "closed" => cst'[d] = "closed"
                         /\ cst'[d] \in {"body", "open", "closing"} =>
                              cst[d] \in {"body", "open", "closing"}
                         /\ cst[d] \in Ended => cst'[d] \in Ended
    BY <1>1 DEF SendChunk, SendEnd, CloseResponse, TypeOK, CallType, Ended
  <2>3. Hushed(s) BY <1>2, <1>4, <2>1, <2>2 DEF Hushed
  <2> QED BY <1>1, <2>3, RequestFrame
<1> QED BY <1>3, <1>4

\* The other slots do not notice that the Agent reads slot s.
LEMMA ReadElsewhere ==
  ASSUME ContentInv, NEW s \in Slots, NEW t \in Slots \ {s},
         RecvHeaders(s) \/ RecvData(s) \/ RecvEnd(s) \/ RecvCancel(s)
  PROVE  Hushed(t)
<1>1. TypeOK /\ SlotInv(s) BY DEF ContentInv, Custody
<1>2. active[s] # NoCall => slotOf[active[s]] = s
  BY <1>1 DEF SlotInv, HandlerServes
<1>3. /\ toAg'[t] = toAg[t] /\ hpc'[t] = hpc[t] /\ hreq'[t] = hreq[t]
      /\ stream'[t] = "open" => stream[t] = "open"
  BY <1>1 DEF RecvHeaders, RecvData, RecvEnd, RecvCancel, AgentTakes, StopLoop, CutStream,
              TypeOK, WireType, AgentType
<1>4. UNCHANGED <<cst, slotOf, sent, outcome>>
  BY DEF RecvHeaders, RecvData, RecvEnd, RecvCancel, callv
<1>5. \A c \in Calls : slotOf[c] = t =>
        fed'[c] = fed[c] /\ bodyClosed'[c] = bodyClosed[c]
        /\ (cause'[c] = "none" => cause[c] = "none")
  <2>1. CASE RecvHeaders(s)
    BY <1>1, <2>1 DEF RecvHeaders, CancelActive, TypeOK, AgentType
  <2>2. CASE RecvData(s)
    BY <1>1, <1>2, <2>2 DEF RecvData, Matches, TypeOK, AgentType
  <2>3. CASE RecvEnd(s)
    BY <1>1, <1>2, <2>3 DEF RecvEnd, Matches, TypeOK, AgentType
  <2>4. CASE RecvCancel(s)
    BY <1>1, <1>2, <2>4 DEF RecvCancel, CancelActive, Matches, TypeOK, AgentType
  <2> QED BY <2>1, <2>2, <2>3, <2>4
<1> QED BY <1>3, <1>4, <1>5 DEF Hushed

\* Nor that call c writes to its own slot, or receives.
LEMMA WriteElsewhere ==
  ASSUME ContentInv, NEW c \in Calls, NEW t \in Slots,
         \/ slotOf[c] # t /\ (SendHeaders(c) \/ SendChunk(c) \/ SendEnd(c) \/ CloseResponse(c))
         \/ Recv(c)
  PROVE  Hushed(t)
<1>1. TypeOK BY DEF ContentInv, Custody
<1>2. toAg'[t] = toAg[t]
  BY <1>1 DEF SendHeaders, SendChunk, SendEnd, CloseResponse, Recv, SendOk, TypeOK, WireType
<1>3. UNCHANGED <<stream, hpc, hreq, slotOf, cause, fed, bodyClosed>>
  BY DEF SendHeaders, SendChunk, SendEnd, CloseResponse, Recv, agv
<1>4. /\ cst[c] # "closed"
      /\ \A d \in Calls \ {c} : cst'[d] = cst[d] /\ sent'[d] = sent[d] /\ outcome'[d] = outcome[d]
  BY <1>1 DEF SendHeaders, SendChunk, SendEnd, CloseResponse, Recv, EndCall, TypeOK, CallType
<1>5. CASE slotOf[c] # t BY <1>2, <1>3, <1>4, <1>5 DEF Hushed
<1>6. CASE Recv(c)
  <2>1. cst[c] = "open" /\ cst'[c] \in {"open", "closed"} /\ sent' = sent
    BY <1>1, <1>6 DEF Recv, EndCall, TypeOK, CallType
  <2> QED BY <1>2, <1>3, <1>4, <2>1 DEF Hushed, Ended
<1> QED BY <1>5, <1>6

\* Every step keeps, for every slot, what is on its way to the Agent in order.
LEMMA RequestStep ==
  ASSUME ContentInv, [Next]_vars, NEW t \in Slots
  PROVE  RequestInv(t)'
<1>1. /\ TypeOK /\ SlotInv(t) /\ RequestInv(t) /\ Custody
  BY DEF ContentInv, Custody, Content, SlotContent, RequestInv
<1>2. ASSUME NEW s \in Slots, RecvHeaders(s) \/ RecvData(s) \/ RecvEnd(s) \/ RecvCancel(s)
      PROVE  RequestInv(t)'
  <2>1. CASE s = t BY <1>2, <2>1, HeadersTaken, DataTaken, EndTaken, CancelTaken
  <2>2. CASE s # t BY <1>1, <1>2, <2>2, ReadElsewhere, RequestFrame
  <2> QED BY <2>1, <2>2
<1>3. ASSUME NEW c \in Calls,
             SendHeaders(c) \/ SendChunk(c) \/ SendEnd(c) \/ CloseResponse(c)
      PROVE  RequestInv(t)'
  <2>1. CASE slotOf[c] = t BY <1>3, <2>1, HeadersSent, FrameSent
  <2>2. CASE slotOf[c] # t BY <1>1, <1>3, <2>2, WriteElsewhere, RequestFrame
  <2> QED BY <2>1, <2>2
<1>4. ASSUME NEW c \in Calls, Recv(c) PROVE RequestInv(t)'
  BY <1>1, <1>4, WriteElsewhere, RequestFrame
<1>5. CASE Silent BY <1>1, <1>5, SilentHushed, RequestFrame
<1> QED BY <1>1, <1>2, <1>3, <1>4, <1>5, SilentSteps

-----------------------------------------------------------------------------
\* A step that neither tells call c anything nor counts for it.
LEMMA CallFrame ==
  ASSUME Custody, NEW c \in Calls, CallContent(c),
         Unseen(c)' => Unseen(c), NotServed(c) => NotServed(c)',
         got'[c] = got[c], produced'[c] = produced[c], result'[c] = result[c],
         outcome'[c] = outcome[c], cause'[c] = cause[c],
         fed'[c] = fed[c], bodyClosed'[c] = bodyClosed[c],
         \/ cst'[c] = cst[c] /\ sent'[c] = sent[c]
         \/ cst[c] \in {"hdr", "body"} /\ cst'[c] \in {"body", "open"}
         \/ cst[c] = "closing" /\ cst'[c] = "closed"
  PROVE  CallContent(c)'
<1>1. Fresh(c)' BY DEF CallContent, Fresh
<1>2. Verdict(c)' BY DEF CallContent, Verdict, GivenUp
<1>3. Intact(c)' BY DEF CallContent, Intact
<1> QED BY <1>1, <1>2, <1>3 DEF CallContent

\* The calls while the Agent reads a frame that is not headers.
LEMMA ReadCalls ==
  ASSUME ContentInv, NEW s \in Slots, RecvData(s) \/ RecvEnd(s) \/ RecvCancel(s), NEW c \in Calls
  PROVE  CallContent(c)'
<1>1. TypeOK /\ SlotInv(s) /\ CallContent(c) /\ Custody /\ RequestInv(s)
  BY DEF ContentInv, Custody, Content, SlotContent, RequestInv
<1>2. Takes(s) /\ hpc' = hpc /\ hreq' = hreq
  BY DEF RecvData, RecvEnd, RecvCancel, AgentTakes, Takes, callv
<1>3. \A t \in Slots : \A h \in DOMAIN toAg'[t] : \E g \in DOMAIN toAg[t] : toAg'[t][h] = toAg[t][g]
  <2>1. toAg[s] \in Seq(Frame) /\ toAg[s] # <<>> /\ toAg'[s] = Tail(toAg[s])
        /\ \A t \in Slots \ {s} : toAg'[t] = toAg[t]
    BY <1>1, <1>2 DEF TypeOK, WireType, Takes
  <2>2. \A h \in DOMAIN toAg'[s] : h + 1 \in DOMAIN toAg[s] /\ toAg'[s][h] = toAg[s][h + 1]
    BY <2>1, PopFacts
  <2> QED BY <2>1, <2>2
<1>4. (Unseen(c)' => Unseen(c)) /\ (NotServed(c) => NotServed(c)')
  BY <1>2, <1>3 DEF Unseen, NotServed, Takes
<1>5. UNCHANGED <<got, produced, result, outcome, cst, sent>> BY <1>2 DEF Takes
<1>6. Unseen(c) => active[s] # c BY <1>1, UnseenIdle
<1>7. CASE RecvData(s)
  <2>1. UNCHANGED <<cause, bodyClosed>> /\ (fed'[c] = fed[c] \/ active[s] = c)
    BY <1>1, <1>7 DEF RecvData, TypeOK, AgentType
  <2>2. CASE active[s] # c BY <1>1, <1>4, <1>5, <2>1, <2>2, CallFrame
  <2>3. CASE active[s] = c
    <3>1. ~bodyClosed[c]
      <4>1. hpc[s] = "run" /\ hreq[s] = c BY <1>1, <2>3 DEF SlotInv, HandlerServes
      <4>2. 1 \in DOMAIN toAg[s] /\ toAg[s][1].k = "data"
        BY <1>1, <1>7, PopFacts DEF RecvData, AgentTakes, TypeOK, WireType
      <4> QED BY <1>1, <4>1, <4>2 DEF RequestInv, Sealed
    <3>2. Fresh(c)' BY <1>1, <1>4, <1>5, <1>6, <2>3 DEF CallContent, Fresh
    <3>3. Verdict(c)' BY <1>1, <1>4, <1>5, <2>1 DEF CallContent, Verdict
    <3>4. Intact(c)' BY <2>1, <3>1 DEF Intact
    <3> QED BY <3>2, <3>3, <3>4 DEF CallContent
  <2> QED BY <2>2, <2>3
<1>8. CASE RecvEnd(s)
  <2>1. UNCHANGED <<cause, fed>> BY <1>8 DEF RecvEnd
  <2>2. bodyClosed'[c] /\ ~bodyClosed[c] =>
          (c \in BodyCalls /\ cause[c] = "none" => fed[c] = Chunks) /\ active[s] = c
    BY <1>8, EndTaken
  <2>3. Fresh(c)' BY <1>1, <1>4, <1>5, <1>6, <2>1, <2>2 DEF CallContent, Fresh
  <2>4. Verdict(c)' BY <1>1, <1>4, <1>5, <2>1 DEF CallContent, Verdict
  <2>5. Intact(c)' BY <1>1, <2>1, <2>2 DEF CallContent, Intact
  <2> QED BY <2>3, <2>4, <2>5 DEF CallContent
<1>9. CASE RecvCancel(s)
  <2>1. UNCHANGED <<fed, bodyClosed>> BY <1>9 DEF RecvCancel
  <2>2. cause'[c] # cause[c] =>
          cause'[c] = "gateway" /\ cst[c] = "closed" /\ outcome[c] \in GivenUp
    BY <1>9, CancelTaken
  <2>3. Fresh(c)' BY <1>1, <1>4, <1>5, <2>1 DEF CallContent, Fresh
  <2>4. Verdict(c)' BY <1>1, <1>4, <1>5, <2>2 DEF CallContent, Verdict
  <2>5. Intact(c)' BY <1>1, <2>1, <2>2 DEF CallContent, Intact
  <2> QED BY <2>3, <2>4, <2>5 DEF CallContent
<1> QED BY <1>7, <1>8, <1>9

LEMMA StartCalls ==
  ASSUME ContentInv, NEW s \in Slots, RecvHeaders(s), NEW c \in Calls
  PROVE  CallContent(c)'
<1>1. TypeOK /\ CallContent(c) /\ Custody
  BY DEF ContentInv, Custody, Content
<1>2. /\ 1 \in DOMAIN toAg[s] /\ toAg[s][1].k = "headers"
      /\ hreq' = [hreq EXCEPT ![s] = toAg[s][1].c] /\ hpc' = [hpc EXCEPT ![s] = "run"]
      /\ toAg' = [toAg EXCEPT ![s] = Tail(@)] /\ UNCHANGED cause
  BY HeadersTaken DEF RecvHeaders
<1>3. UNCHANGED <<got, produced, result, outcome, cst, sent, fed, bodyClosed>>
  BY DEF RecvHeaders, callv
<1>4. \A t \in Slots : \A h \in DOMAIN toAg'[t] : \E g \in DOMAIN toAg[t] : toAg'[t][h] = toAg[t][g]
  <2>1. toAg[s] \in Seq(Frame) /\ toAg[s] # <<>> /\ toAg'[s] = Tail(toAg[s])
        /\ \A t \in Slots \ {s} : toAg'[t] = toAg[t]
    BY <1>1, <1>2 DEF TypeOK, WireType, RecvHeaders
  <2>2. \A h \in DOMAIN toAg'[s] : h + 1 \in DOMAIN toAg[s] /\ toAg'[s][h] = toAg[s][h + 1]
    BY <2>1, PopFacts
  <2> QED BY <2>1, <2>2
<1>5. Unseen(c)' => Unseen(c) BY <1>3, <1>4 DEF Unseen
<1>6. NotServed(c) => NotServed(c)'
  BY <1>1, <1>2, <1>4 DEF NotServed, TypeOK, AgentType
<1> QED BY <1>1, <1>2, <1>3, <1>5, <1>6, CallFrame

\* The calls while call c writes a frame.
LEMMA WriteCalls ==
  ASSUME ContentInv, NEW c \in Calls, NEW d \in Calls,
         SendHeaders(c) \/ SendChunk(c) \/ SendEnd(c) \/ CloseResponse(c)
  PROVE  CallContent(d)'
<1>1. TypeOK /\ CallContent(d) /\ Custody BY DEF ContentInv, Custody, Content
<1>2. cst[c] \in {"hdr", "body", "closing"} /\ slotOf[c] \in Slots
  BY <1>1 DEF SendHeaders, SendChunk, SendEnd, CloseResponse, TypeOK, CallType, Holding
<1>3. PICK k \in {"headers", "data", "end", "cancel"} :
        /\ toAg' = toAg \/ toAg' = [toAg EXCEPT ![slotOf[c]] = Append(@, Msg(k, c))]
        /\ k = "headers" => SendHeaders(c)
  BY DEF SendHeaders, SendChunk, SendEnd, CloseResponse, SendOk
<1>4. \A t \in Slots : \A h \in DOMAIN toAg'[t] :
        \/ \E g \in DOMAIN toAg[t] : toAg'[t][h] = toAg[t][g]
        \/ toAg'[t][h] = Msg(k, c)
  <2>1. toAg[slotOf[c]] \in Seq(Frame) /\ Msg(k, c) \in Frame
    BY <1>1, <1>2, FrameFacts DEF TypeOK, WireType
  <2>2. \A h \in DOMAIN Append(toAg[slotOf[c]], Msg(k, c)) :
          \/ h \in DOMAIN toAg[slotOf[c]]
             /\ Append(toAg[slotOf[c]], Msg(k, c))[h] = toAg[slotOf[c]][h]
          \/ Append(toAg[slotOf[c]], Msg(k, c))[h] = Msg(k, c)
    BY <2>1, PushFacts
  <2> QED BY <1>1, <1>3, <2>2 DEF TypeOK, WireType
<1>5. Msg(k, c).k = k /\ Msg(k, c).c = c BY FrameFacts
<1>6. UNCHANGED <<got, produced, result, outcome, cause, fed, bodyClosed, hpc, hreq>>
  BY DEF SendHeaders, SendChunk, SendEnd, CloseResponse, agv
<1>7. \/ cst'[d] = cst[d] /\ sent'[d] = sent[d]
      \/ cst[d] \in {"hdr", "body"} /\ cst'[d] \in {"body", "open"}
      \/ cst[d] = "closing" /\ cst'[d] = "closed"
  BY <1>1 DEF SendHeaders, SendChunk, SendEnd, CloseResponse, TypeOK, CallType
<1>8. Unseen(d)' => Unseen(d)
  <2>1. ASSUME cst[d] \notin {"new", "taken", "hdr"}, NEW t \in Slots, NEW h \in DOMAIN toAg'[t],
               toAg'[t][h].k = "headers", toAg'[t][h].c = d
        PROVE  Unseen(d)
    <3>1. CASE \E g \in DOMAIN toAg[t] : toAg'[t][h] = toAg[t][g] BY <2>1, <3>1 DEF Unseen
    <3>2. CASE toAg'[t][h] = Msg(k, c)
      BY <1>3, <1>5, <2>1, <3>2 DEF SendHeaders
    <3> QED BY <1>4, <3>1, <3>2
  <2> QED BY <1>7, <2>1 DEF Unseen
<1>9. CASE d = c /\ SendHeaders(c)
  <2>1. cst[c] = "hdr" /\ cst'[c] = "body" BY <1>1, <1>9 DEF SendHeaders, TypeOK, CallType
  <2>2. Fresh(c)' BY <1>1, <1>6, <1>8, <1>9, <2>1 DEF CallContent, Fresh
  <2>3. Verdict(c)' BY <1>1, <1>6, <1>9, <2>1 DEF CallContent, Verdict
  <2>4. Intact(c)' BY <1>1, <1>6, <1>9 DEF CallContent, Intact
  <2> QED BY <1>9, <2>2, <2>3, <2>4 DEF CallContent
<1>10. CASE ~(d = c /\ SendHeaders(c))
  <2>1. NotServed(d) => NotServed(d)'
    BY <1>3, <1>4, <1>5, <1>6, <1>10 DEF NotServed
  <2> QED BY <1>1, <1>6, <1>7, <1>8, <2>1, CallFrame
<1> QED BY <1>9, <1>10

\* The frame a caller receives is its own, and its end leaves no handler behind.
LEMMA RecvFacts ==
  ASSUME ContentInv, NEW c \in Calls, Recv(c)
  PROVE  LET s == slotOf[c] IN
         /\ s \in Slots /\ cur[s] = c /\ cst[c] = "open"
         /\ toGw[s] \in Seq(Frame) /\ toGw[s] # <<>>
         /\ Head(toGw[s]).c = c /\ Head(toGw[s]).k \in {"data", "end"}
         /\ Head(toGw[s]).k = "end" => NotServed(c) /\ got[c] = produced[c]
<1> DEFINE s == slotOf[c]
<1>1. TypeOK /\ Custody BY DEF ContentInv, Custody
<1>2. s \in Slots /\ cur[s] = c /\ cst[c] = "open" /\ toGw[s] \in Seq(Frame) /\ toGw[s] # <<>>
      /\ Head(toGw[s]).k \in {"data", "end"}
  BY <1>1 DEF Recv, TypeOK, CallType, WireType, Holding
<1>3. SlotInv(s) /\ Responses(s) BY <1>2 DEF ContentInv, Custody, Content, SlotContent
<1>4. 1 \in DOMAIN toGw[s] /\ toGw[s][1] = Head(toGw[s]) BY <1>2, PopFacts
<1>5. Head(toGw[s]).c = c
  BY <1>2, <1>3, <1>4 DEF SlotInv, WireOwner, HolderIsCurrent, OnSlot
<1>6. ASSUME Head(toGw[s]).k = "end" PROVE NotServed(c) /\ got[c] = produced[c]
  <2>1. got[c] + 1 = produced[c] + 1 BY <1>2, <1>3, <1>4, <1>6 DEF Responses
  <2>2. got[c] \in Nat /\ produced[c] \in Nat BY <1>1 DEF TypeOK, CallType, AgentType
  <2>3. got[c] = produced[c] BY <2>1, <2>2
  <2>4. ASSUME NEW t \in Slots
        PROVE  /\ hpc[t] = "run" => hreq[t] # c
               /\ \A h \in DOMAIN toAg[t] : toAg[t][h].k = "headers" => toAg[t][h].c # c
    <3>1. SlotInv(t) BY <1>1 DEF Custody
    <3>2. hpc[t] = "run" => hreq[t] # c
      BY <1>4, <1>6, <3>1 DEF SlotInv, HandlerServes
    <3>3. \A h \in DOMAIN toAg[t] : toAg[t][h].k = "headers" => toAg[t][h].c # c
      BY <1>2, <3>1 DEF SlotInv, HeadersInFlight
    <3> QED BY <3>2, <3>3
  <2> QED BY <2>3, <2>4 DEF NotServed
<1> QED BY <1>2, <1>5, <1>6

LEMMA RecvCalls ==
  ASSUME ContentInv, NEW c \in Calls, Recv(c), NEW d \in Calls
  PROVE  CallContent(d)'
<1>1. TypeOK /\ CallContent(d) /\ Custody BY DEF ContentInv, Custody, Content
<1>2. UNCHANGED <<produced, result, cause, fed, bodyClosed, hpc, hreq, toAg, sent>>
  BY DEF Recv, agv
<1>3. (NotServed(d) => NotServed(d)') BY <1>2 DEF NotServed
<1>4. \A e \in Calls \ {c} : got'[e] = got[e] /\ cst'[e] = cst[e] /\ outcome'[e] = outcome[e]
  BY <1>1 DEF Recv, EndCall, TypeOK, CallType
<1>5. CASE d # c
  <2>1. Unseen(d)' => Unseen(d) BY <1>2, <1>4, <1>5 DEF Unseen
  <2> QED BY <1>1, <1>2, <1>3, <1>4, <1>5, <2>1, CallFrame
<1>6. CASE d = c
  <2> DEFINE s == slotOf[c]
             f == Head(toGw[s])
  <2>1. /\ s \in Slots /\ cst[c] = "open" /\ toGw[s] # <<>> /\ f.c = c /\ f.k \in {"data", "end"}
        /\ f.k = "end" => NotServed(c) /\ got[c] = produced[c]
    BY RecvFacts
  <2>2. ~Unseen(c) BY <1>1, <2>1, UnseenIdle
  <2>3. /\ f.k = "data" => UNCHANGED <<cst, outcome>>
        /\ f.k = "end" => /\ cst'[c] = "closed" /\ outcome'[c] = result[c]
                          /\ UNCHANGED got
    BY <1>1, <2>1 DEF Recv, EndCall, TypeOK, CallType
  <2>4. cst'[c] \in {"open", "closed"} BY <2>1, <2>3
  <2>5. Fresh(c)' BY <1>2, <2>2, <2>4 DEF Fresh, Unseen
  <2>6. Intact(c)' BY <1>1, <1>2, <1>6 DEF CallContent, Intact
  <2>7. Verdict(c)'
    <3>1. outcome[c] = "none" /\ cause[c] # "gateway"
      BY <1>1, <1>6, <2>1 DEF CallContent, Verdict
    <3>2. CASE f.k = "data" BY <1>2, <2>1, <2>3, <3>1, <3>2 DEF Verdict
    <3>3. CASE f.k = "end" BY <1>2, <1>3, <1>6, <2>1, <2>3, <3>1, <3>3 DEF Verdict
    <3> QED BY <2>1, <3>2, <3>3
  <2> QED BY <1>6, <2>5, <2>6, <2>7 DEF CallContent
<1> QED BY <1>5, <1>6

\* Every step keeps what the calls sent, received and were told consistent.
LEMMA CallStep ==
  ASSUME ContentInv, [Next]_vars, NEW d \in Calls
  PROVE  CallContent(d)'
<1>1. Custody /\ CallContent(d) BY DEF ContentInv, Content
<1>2. CASE Silent BY <1>1, <1>2, SilentCalls
<1>3. ASSUME NEW s \in Slots, RecvHeaders(s) \/ RecvData(s) \/ RecvEnd(s) \/ RecvCancel(s)
      PROVE  CallContent(d)'
  BY <1>3, ReadCalls, StartCalls
<1>4. ASSUME NEW c \in Calls,
             SendHeaders(c) \/ SendChunk(c) \/ SendEnd(c) \/ CloseResponse(c) \/ Recv(c)
      PROVE  CallContent(d)'
  BY <1>4, WriteCalls, RecvCalls
<1> QED BY <1>1, <1>2, <1>3, <1>4, SilentSteps

-----------------------------------------------------------------------------
\* What is on the way to the Gateway.
Waiting == {"hdr", "body", "open"}

\* A step that neither adds to nor takes from the answer slot t owes its caller.
Steady(t) ==
  cur'[t] # NoCall /\ cst'[cur'[t]] \in Waiting =>
    /\ cur'[t] = cur[t] /\ cst[cur[t]] \in Waiting
    /\ UNCHANGED <<toGw[t], got[cur[t]], produced[cur[t]]>>
    /\ hpc'[t] \in {"run", "end"} => hpc[t] \in {"run", "end"}

LEMMA SteadyKeeps ==
  ASSUME TypeOK, NEW t \in Slots, Responses(t), Steady(t)
  PROVE  Responses(t)'
<1> SUFFICES ASSUME cur'[t] # NoCall, cst'[cur'[t]] \in Waiting
             PROVE  /\ hpc'[t] \in {"run", "end"} => got'[cur'[t]] + Len(toGw'[t]) = produced'[cur'[t]]
                    /\ \A e \in DOMAIN toGw'[t] :
                         toGw'[t][e].k = "end" => got'[cur'[t]] + e = produced'[cur'[t]] + 1
  BY DEF Responses, Waiting
<1>1. /\ cur'[t] = cur[t] /\ cst[cur[t]] \in Waiting
      /\ toGw'[t] = toGw[t] /\ got'[cur[t]] = got[cur[t]] /\ produced'[cur[t]] = produced[cur[t]]
      /\ hpc'[t] \in {"run", "end"} => hpc[t] \in {"run", "end"}
  BY DEF Steady
<1> QED BY <1>1 DEF Responses, Waiting

\* The call on a slot has no other, and a dead slot has none.
LEMMA CurrentFacts ==
  ASSUME Custody, NEW t \in Slots, cur[t] # NoCall
  PROVE  /\ cur[t] \in Calls /\ slotOf[cur[t]] = t /\ ~dead[t]
         /\ cst[cur[t]] \in Written \cup {"hdr"}
         /\ hpc[t] \in {"run", "end"} => hreq[t] = cur[t]
         /\ \A i \in DOMAIN toGw[t] : toGw[t][i].k # "ready" => toGw[t][i].c = cur[t]
<1>1. SlotInv(t) /\ cur[t] \in CallOrNone BY DEF Custody, TypeOK, GatewayType
<1>2. cur[t] \in Calls /\ slotOf[cur[t]] = t /\ ~dead[t] /\ cst[cur[t]] \in Written \cup {"hdr"}
  BY <1>1 DEF SlotInv, HolderIsCurrent, CallOrNone
<1> QED BY <1>1, <1>2 DEF SlotInv, HandlerServes, WireOwner, OnSlot

\* A step of the stream, of the idle set or of the Agent's receive loop.
LEMMA QuietSteady ==
  ASSUME UNCHANGED <<toGw, cur, cst, got, produced>>, NEW t \in Slots,
         hpc'[t] \in {"run", "end"} => hpc[t] \in {"run", "end"}
  PROVE  Steady(t)
BY DEF Steady

\* A step that gives up the call on slot s and touches no other slot.
LEMMA ClosedSteady ==
  ASSUME Custody, NEW s \in Slots, cur' = [cur EXCEPT ![s] = NoCall],
         \A t \in Slots \ {s} : toGw'[t] = toGw[t],
         \A c \in Calls : cst'[c] \in Waiting => cst[c] \in Waiting,
         UNCHANGED <<got, produced, hpc>>, NEW t \in Slots
  PROVE  Steady(t)
<1>1. cur'[t] = IF t = s THEN NoCall ELSE cur[t] BY DEF Custody, TypeOK, GatewayType
<1>2. cur[t] # NoCall => cur[t] \in Calls BY CurrentFacts
<1> QED BY <1>1, <1>2 DEF Steady

\* The steps of the Gateway's readers.
LEMMA ReaderResponses ==
  ASSUME ContentInv, NEW s \in Slots, Reader(s) \/ CloseDrained(s), NEW t \in Slots
  PROVE  Steady(t)
<1> USE DEF callv, agv, wire
<1>1. Custody /\ SlotInv(s) /\ TypeOK BY DEF ContentInv, Custody
<1>2. \A c \in Calls : cst'[c] = cst[c]
  BY DEF Reader, CloseDrained, ServeFirst, ParkOffer, ReadReady, RouteIdle, RouteDrop,
         RouteTooLarge, StreamEnds
<1>3. ASSUME ServeReturns(s), UNCHANGED <<got, produced, hpc>> PROVE Steady(t)
  <2>1. cur' = [cur EXCEPT ![s] = NoCall] /\ \A u \in Slots \ {s} : toGw'[u] = toGw[u]
    BY <1>1, <1>3 DEF ServeReturns, CloseSlot, TypeOK, WireType
  <2> QED BY <1>1, <1>2, <1>3, <2>1, ClosedSteady
<1>4. CASE ServeFirst(s)
  <2>1. cur[s] = NoCall /\ cur' = cur /\ \A u \in Slots \ {s} : toGw'[u] = toGw[u]
    BY <1>1, <1>4 DEF ServeFirst, SlotInv, Unborn, TypeOK, WireType
  <2>2. cur' = [cur EXCEPT ![s] = NoCall] BY <1>1, <2>1 DEF TypeOK, GatewayType
  <2>3. UNCHANGED <<got, produced, hpc>> BY <1>4 DEF ServeFirst
  <2> QED BY <1>1, <1>2, <2>1, <2>2, <2>3, ClosedSteady
<1>5. CASE ParkOffer(s)
  <2>1. CASE draining BY <1>3, <1>5, <2>1 DEF ParkOffer
  <2>2. CASE ~draining BY <1>5, <2>2, QuietSteady DEF ParkOffer
  <2> QED BY <2>1, <2>2
<1>6. CASE ReadReady(s)
  <2>1. CASE cur[s] # NoCall \/ dead[s] BY <1>3, <1>6, <2>1 DEF ReadReady
  <2>2. CASE ~(cur[s] # NoCall \/ dead[s])
    <3>1. cur' = cur /\ \A u \in Slots \ {s} : toGw'[u] = toGw[u]
      BY <1>1, <1>6, <2>2 DEF ReadReady, TypeOK, WireType
    <3>2. cur' = [cur EXCEPT ![s] = NoCall] BY <1>1, <2>2, <3>1 DEF TypeOK, GatewayType
    <3>3. UNCHANGED <<got, produced, hpc>> BY <1>6 DEF ReadReady
    <3> QED BY <1>1, <1>2, <3>1, <3>2, <3>3, ClosedSteady
  <2> QED BY <2>1, <2>2
<1>7. CASE RouteIdle(s) BY <1>3, <1>7 DEF RouteIdle
<1>8. CASE RouteTooLarge(s) BY <1>3, <1>8 DEF RouteTooLarge
<1>9. CASE StreamEnds(s) BY <1>3, <1>9 DEF StreamEnds
<1>10. CASE RouteDrop(s)
  <2>1. /\ cur[s] # NoCall /\ UNCHANGED <<got, produced, hpc>>
        /\ \A u \in Slots \ {s} : toGw'[u] = toGw[u] /\ cur'[u] = cur[u]
        /\ cur'[s] \in {cur[s], NoCall}
    BY <1>1, <1>10 DEF RouteDrop, TypeOK, WireType, GatewayType
  <2>2. Head(toGw[s]).c = cur[s]
    <3>1. toGw[s] \in Seq(Frame) /\ toGw[s] # <<>> /\ Head(toGw[s]).k # "ready"
      BY <1>1, <1>10 DEF RouteDrop, TypeOK, WireType, IsResponse
    <3>2. 1 \in DOMAIN toGw[s] /\ toGw[s][1] = Head(toGw[s]) BY <3>1, PopFacts
    <3> QED BY <1>1, <2>1, <3>1, <3>2, CurrentFacts
  <2>3. cst[cur[s]] = "closed" BY <1>10, <2>2 DEF RouteDrop, SameId, Released
  <2>4. cur[s] \in Calls /\ (cur[t] # NoCall => cur[t] \in Calls)
    BY <1>1, <2>1, CurrentFacts
  <2> QED BY <1>2, <2>1, <2>3, <2>4 DEF Steady, Waiting
<1>11. CASE CloseDrained(s)
  <2>1. cur' = [cur EXCEPT ![s] = NoCall] /\ toGw' = toGw /\ UNCHANGED <<got, produced, hpc>>
    BY <1>11 DEF CloseDrained, CloseSlot
  <2> QED BY <1>1, <1>2, <2>1, ClosedSteady
<1> QED BY <1>4, <1>5, <1>6, <1>7, <1>8, <1>9, <1>10, <1>11 DEF Reader

\* The steps of the callers, except Begin and Recv.
LEMMA CallerResponses ==
  ASSUME ContentInv, NEW t \in Slots, NEW c \in Calls,
         \/ Acquire(c) \/ SendHeaders(c) \/ SendChunk(c) \/ SendEnd(c) \/ DispatchFails(c)
         \/ RecvFails(c) \/ CloseResponse(c)
  PROVE  Steady(t)
<1>1. Custody /\ TypeOK BY DEF ContentInv, Custody
<1>2. UNCHANGED <<toGw, got, produced, hpc>>
  BY DEF Acquire, SendHeaders, SendChunk, SendEnd, DispatchFails, RecvFails, CloseResponse, wire, agv
<1>3. \A d \in Calls : cst'[d] \in Waiting => cst[d] \in Waiting
  BY <1>1 DEF Acquire, SendHeaders, SendChunk, SendEnd, DispatchFails, RecvFails, CloseResponse,
              EndCall, TypeOK, CallType, Waiting
<1>4. CASE DispatchFails(c)
  <2>1. slotOf[c] \in Slots /\ cur' = [cur EXCEPT ![slotOf[c]] = NoCall]
    BY <1>1, <1>4 DEF DispatchFails, CloseSlot, TypeOK, CallType, Holding
  <2> QED BY <1>1, <1>2, <1>3, <2>1, ClosedSteady
<1>5. CASE ~DispatchFails(c)
  <2>1. cur' = cur
    BY <1>5 DEF Acquire, SendHeaders, SendChunk, SendEnd, RecvFails, CloseResponse, gwv
  <2>2. cur[t] # NoCall => cur[t] \in Calls BY <1>1, CurrentFacts
  <2> QED BY <1>2, <1>3, <2>1, <2>2 DEF Steady
<1> QED BY <1>4, <1>5

\* A slot that is begun owes nothing yet.
LEMMA BeginResponses ==
  ASSUME ContentInv, NEW t \in Slots, NEW c \in Calls, Begin(c)
  PROVE  Responses(t)'
<1> DEFINE s == slotOf[c]
<1>1. Custody /\ TypeOK /\ Responses(t) /\ cst[c] = "taken" /\ s \in Slots
  BY DEF ContentInv, Custody, Content, SlotContent, Begin, TypeOK, CallType, Holding
<1>2. UNCHANGED <<toGw, got, produced, hpc>> BY DEF Begin, wire, agv
<1>3. CASE dead[s] \/ cur[s] # NoCall
  <2>1. cur' = [cur EXCEPT ![s] = NoCall] /\ cst' = [cst EXCEPT ![c] = "closed"]
    BY <1>3 DEF Begin, CloseSlot, EndCall
  <2>2. \A d \in Calls : cst'[d] \in Waiting => cst[d] \in Waiting
    BY <1>1, <2>1 DEF TypeOK, CallType, Waiting
  <2>3. Steady(t) BY <1>1, <1>2, <2>1, <2>2, ClosedSteady
  <2> QED BY <1>1, <2>3, SteadyKeeps
<1>4. CASE ~(dead[s] \/ cur[s] # NoCall)
  <2>1. cur' = [cur EXCEPT ![s] = c] /\ cst' = [cst EXCEPT ![c] = "hdr"]
    BY <1>4 DEF Begin
  <2>2. CASE t = s
    <3>1. SlotInv(s) BY <1>1 DEF Custody
    <3>2. toGw[s] = <<>> /\ hpc[s] = "idle"
      BY <1>1, <3>1 DEF SlotInv, GivenClean, OneHand, Given, HandlerBusy
    <3>3. DOMAIN toGw'[t] = {} /\ hpc'[t] = "idle" BY <1>2, <2>2, <3>2, EmptySeq
    <3> QED BY <3>3 DEF Responses
  <2>3. CASE t # s
    <3>1. cur'[t] = cur[t] BY <1>1, <2>1, <2>3 DEF TypeOK, GatewayType
    <3>2. cur[t] # NoCall => cur[t] \in Calls /\ cur[t] # c BY <1>1, <2>3, CurrentFacts
    <3>3. cur[t] # NoCall => cst'[cur[t]] = cst[cur[t]] BY <1>1, <2>1, <3>2 DEF TypeOK, CallType
    <3>4. Steady(t) BY <1>2, <3>1, <3>3 DEF Steady
    <3> QED BY <1>1, <3>4, SteadyKeeps
  <2> QED BY <2>2, <2>3
<1> QED BY <1>3, <1>4

\* A chunk moves from the wire to its caller.
LEMMA RecvResponses ==
  ASSUME ContentInv, NEW t \in Slots, NEW c \in Calls, Recv(c)
  PROVE  Responses(t)'
<1> DEFINE s == slotOf[c]
           f == Head(toGw[s])
<1>1. Custody /\ TypeOK /\ Responses(t) BY DEF ContentInv, Custody, Content, SlotContent
<1>2. /\ s \in Slots /\ cur[s] = c /\ cst[c] = "open"
      /\ toGw[s] \in Seq(Frame) /\ toGw[s] # <<>> /\ f.k \in {"data", "end"}
  BY RecvFacts
<1>3. UNCHANGED <<produced, hpc>> /\ toGw' = [toGw EXCEPT ![s] = Tail(@)] BY DEF Recv, agv
<1>4. CASE t # s
  <2>1. toGw'[t] = toGw[t] /\ cur'[t] = cur[t]
    BY <1>1, <1>2, <1>3, <1>4 DEF Recv, TypeOK, WireType, GatewayType
  <2>2. cur[t] # NoCall => cur[t] \in Calls /\ cur[t] # c BY <1>1, <1>4, CurrentFacts
  <2>3. \A d \in Calls \ {c} : got'[d] = got[d] /\ cst'[d] = cst[d]
    BY <1>1 DEF Recv, EndCall, TypeOK, CallType
  <2>4. Steady(t) BY <1>3, <2>1, <2>2, <2>3 DEF Steady
  <2> QED BY <1>1, <2>4, SteadyKeeps
<1>5. CASE t = s /\ f.k = "end"
  <2>1. cur'[t] = NoCall BY <1>1, <1>2, <1>5 DEF Recv, TypeOK, GatewayType
  <2> QED BY <2>1 DEF Responses
<1>6. CASE t = s /\ f.k = "data"
  <2>1. cur' = cur /\ cst' = cst /\ got' = [got EXCEPT ![c] = @ + 1] /\ cur[t] = c
    BY <1>2, <1>6 DEF Recv
  <2>2. got[c] \in Nat /\ produced[c] \in Nat /\ got'[c] = got[c] + 1
    BY <1>1, <2>1 DEF TypeOK, CallType, AgentType
  <2>3. /\ hpc[t] \in {"run", "end"} => got[c] + Len(toGw[t]) = produced[c]
        /\ \A e \in DOMAIN toGw[t] : toGw[t][e].k = "end" => got[c] + e = produced[c] + 1
    BY <1>1, <1>2, <2>1 DEF Responses
  <2>4. /\ toGw'[t] = Tail(toGw[t]) /\ Len(toGw[t]) \in Nat \ {0}
        /\ Len(toGw'[t]) = Len(toGw[t]) - 1
        /\ \A e \in DOMAIN toGw'[t] : /\ e \in Nat /\ e + 1 \in DOMAIN toGw[t]
                                      /\ toGw'[t][e] = toGw[t][e + 1]
    <3>1. toGw'[t] = Tail(toGw[t]) BY <1>1, <1>2, <1>3, <1>6 DEF TypeOK, WireType
    <3>2. Tail(toGw[t]) \in Seq(Frame) /\ DOMAIN Tail(toGw[t]) = 1 .. (Len(toGw[t]) - 1)
          /\ Len(toGw[t]) \in Nat \ {0} /\ DOMAIN toGw[t] = 1 .. Len(toGw[t])
          /\ \A i \in 1 .. (Len(toGw[t]) - 1) : Tail(toGw[t])[i] = toGw[t][i + 1]
      BY <1>2, <1>6, PopFacts
    <3> QED BY <1>2, <1>6, <3>1, <3>2, LenProperties
  <2> DEFINE g == got[c]
             p == produced[c]
             l == Len(toGw[t])
  <2>5. g \in Nat /\ p \in Nat /\ l \in Nat \ {0} BY <2>2, <2>4
  <2>6. hpc'[t] \in {"run", "end"} => got'[c] + Len(toGw'[t]) = produced'[c]
    <3>1. hpc'[t] \in {"run", "end"} => g + l = p BY <1>3, <2>3
    <3>2. got'[c] = g + 1 /\ Len(toGw'[t]) = l - 1 /\ produced'[c] = p BY <1>3, <2>2, <2>4
    <3> HIDE DEF g, p, l
    <3> QED BY <2>5, <3>1, <3>2
  <2>7. ASSUME NEW e \in DOMAIN toGw'[t], toGw'[t][e].k = "end"
        PROVE  got'[c] + e = produced'[c] + 1
    <3>1. e \in Nat /\ g + (e + 1) = p + 1 BY <2>3, <2>4, <2>7
    <3>2. got'[c] = g + 1 /\ produced'[c] = p BY <1>3, <2>2
    <3> HIDE DEF g, p
    <3> QED BY <2>5, <3>1, <3>2
  <2> QED BY <2>1, <2>6, <2>7 DEF Responses
<1> QED BY <1>2, <1>4, <1>5, <1>6

\* The Agent starts on a request: it has produced nothing.
LEMMA StartResponses ==
  ASSUME ContentInv, NEW t \in Slots, NEW s \in Slots, RecvHeaders(s)
  PROVE  Responses(t)'
<1>1. /\ Custody /\ TypeOK /\ Responses(t) /\ SlotInv(s)
      /\ UNCHANGED <<cur, cst, got, produced>>
  BY DEF ContentInv, Custody, Content, SlotContent, RecvHeaders, callv
<1>2. /\ 1 \in DOMAIN toAg[s] /\ toAg[s][1].k = "headers"
      /\ hpc' = [hpc EXCEPT ![s] = "run"] /\ UNCHANGED toGw
  BY HeadersTaken DEF RecvHeaders
<1>3. CASE t # s
  <2>1. hpc'[t] = hpc[t] BY <1>1, <1>2, <1>3 DEF TypeOK, AgentType
  <2> QED BY <1>1, <1>2, <2>1, QuietSteady, SteadyKeeps
<1>4. CASE t = s
  <2> DEFINE c == toAg[s][1].c
  <2>1. c \in Calls /\ OnSlot(s, c) /\ toGw[s] = <<>>
    BY <1>1, <1>2 DEF SlotInv, HeadersInFlight
  <2>2. Unseen(c) BY <1>2 DEF Unseen
  <2>3. got[c] = 0 /\ produced[c] = 0
    BY <2>1, <2>2 DEF ContentInv, Content, CallContent, Fresh
  <2>4. cur[s] # NoCall => cur[s] = c BY <1>1, <2>1, CurrentFacts DEF OnSlot
  <2>5. DOMAIN toGw'[t] = {} /\ Len(toGw'[t]) = 0 BY <1>2, <1>4, <2>1, EmptySeq
  <2> QED BY <1>1, <1>4, <2>3, <2>4, <2>5 DEF Responses
<1> QED BY <1>3, <1>4

\* The handler sends a chunk, its end, or offers the slot again.
LEMMA HandlerResponses ==
  ASSUME ContentInv, NEW t \in Slots, NEW s \in Slots, HandlerStep(s)
  PROVE  Responses(t)'
<1>1. /\ Custody /\ TypeOK /\ Responses(t) /\ SlotInv(s) /\ toGw[s] \in Seq(Frame)
      /\ UNCHANGED <<cur, cst, got>>
  BY DEF ContentInv, Custody, Content, SlotContent, TypeOK, WireType,
         HandlerStep, SinkData, HandlerReturn, SendRespEnd, Retire, Park, gwv, callv, wire
<1>2. CASE t # s
  <2>1. toGw'[t] = toGw[t] /\ hpc'[t] = hpc[t]
    BY <1>1, <1>2 DEF TypeOK, WireType, AgentType, HandlerStep, SinkData, HandlerReturn,
                      SendRespEnd, Retire, Park, wire
  <2>2. cur[t] # NoCall => produced'[cur[t]] = produced[cur[t]]
    <3>1. hpc[s] = "run" => slotOf[hreq[s]] = s BY <1>1 DEF SlotInv, HandlerServes
    <3>2. cur[t] # NoCall => slotOf[cur[t]] = t BY <1>1, CurrentFacts
    <3>3. CASE SinkData(s)
      <4>1. produced' = [produced EXCEPT ![hreq[s]] = @ + 1] /\ hpc[s] = "run"
        BY <3>3 DEF SinkData
      <4>2. cur[t] # NoCall => cur[t] \in Calls /\ cur[t] # hreq[s]
        BY <1>1, <1>2, <3>1, <3>2, <4>1, CurrentFacts
      <4> QED BY <1>1, <4>1, <4>2 DEF TypeOK, AgentType
    <3>4. CASE ~SinkData(s)
      BY <3>4 DEF HandlerStep, HandlerReturn, SendRespEnd, Retire, Park
    <3> QED BY <3>3, <3>4
  <2>3. Steady(t) BY <1>1, <2>1, <2>2 DEF Steady
  <2> QED BY <1>1, <2>3, SteadyKeeps
<1>3. ASSUME t = s, UNCHANGED <<toGw, produced>>, hpc'[t] \in {"run", "end"} => hpc[t] \in {"run", "end"}
      PROVE  Responses(t)'
  BY <1>1, <1>3, QuietSteady, SteadyKeeps
<1>4. ASSUME t = s, cur[s] # NoCall, cst[cur[s]] \in Waiting
      PROVE  /\ got[cur[s]] \in Nat /\ produced[cur[s]] \in Nat /\ Len(toGw[s]) \in Nat
             /\ hpc[s] \in {"run", "end"} =>
                  /\ cur[s] = hreq[s] /\ got[cur[s]] + Len(toGw[s]) = produced[cur[s]]
                  /\ \A e \in DOMAIN toGw[s] : toGw[s][e].k # "end"
             /\ \A e \in DOMAIN toGw[s] :
                  toGw[s][e].k = "end" => got[cur[s]] + e = produced[cur[s]] + 1
  <2>1. cur[s] \in Calls /\ (hpc[s] \in {"run", "end"} => hreq[s] = cur[s])
    BY <1>1, <1>4, CurrentFacts
  <2> QED BY <1>1, <1>4, <2>1, LenProperties
          DEF Responses, Waiting, TypeOK, CallType, AgentType, SlotInv, HandlerServes
<1>5. ASSUME t = s, NEW f \in Frame, toGw' = [toGw EXCEPT ![s] = Append(@, f)]
      PROVE  /\ DOMAIN toGw'[s] = 1 .. (Len(toGw[s]) + 1) /\ DOMAIN toGw[s] = 1 .. Len(toGw[s])
             /\ Len(toGw'[s]) = Len(toGw[s]) + 1
             /\ \A i \in 1 .. Len(toGw[s]) : toGw'[s][i] = toGw[s][i]
             /\ toGw'[s][Len(toGw[s]) + 1] = f
  <2>1. toGw'[s] = Append(toGw[s], f) BY <1>1, <1>5 DEF TypeOK, WireType
  <2> QED BY <1>1, <2>1, PushFacts, LenProperties
<1>6. ASSUME t = s, SinkData(s) PROVE Responses(t)'
  <2> SUFFICES ASSUME cur[s] # NoCall, cst[cur[s]] \in Waiting
               PROVE  /\ got[cur[s]] + Len(toGw'[s]) = produced'[cur[s]]
                      /\ \A e \in DOMAIN toGw'[s] : toGw'[s][e].k # "end"
    BY <1>1, <1>6 DEF Responses, Waiting
  <2> DEFINE c == cur[s]
             f == Msg(IF hreq[s] \in BigCalls THEN "big" ELSE "data", hreq[s])
  <2>1. hpc[s] = "run" /\ toGw' = [toGw EXCEPT ![s] = Append(@, f)]
        /\ produced' = [produced EXCEPT ![hreq[s]] = @ + 1]
    BY <1>6 DEF SinkData
  <2>2. c = hreq[s] /\ c \in Calls BY <1>1, <2>1, CurrentFacts
  <2>3. f \in Frame /\ f.k # "end" BY <2>2, FrameFacts
  <2>4. produced'[c] = produced[c] + 1 BY <1>1, <2>1, <2>2 DEF TypeOK, AgentType
  <2>5. /\ got[c] \in Nat /\ produced[c] \in Nat /\ Len(toGw[s]) \in Nat
        /\ got[c] + Len(toGw[s]) = produced[c]
        /\ \A e \in DOMAIN toGw[s] : toGw[s][e].k # "end"
    BY <1>4, <1>6, <2>1
  <2> HIDE DEF c, f
  <2>6. /\ DOMAIN toGw'[s] = 1 .. (Len(toGw[s]) + 1) /\ DOMAIN toGw[s] = 1 .. Len(toGw[s])
        /\ Len(toGw'[s]) = Len(toGw[s]) + 1
        /\ \A i \in 1 .. Len(toGw[s]) : toGw'[s][i] = toGw[s][i]
        /\ toGw'[s][Len(toGw[s]) + 1] = f
    BY <1>5, <1>6, <2>1, <2>3
  <2>7. got[c] + Len(toGw'[s]) = produced'[c]
    <3> DEFINE g == got[c]
               p == produced[c]
               l == Len(toGw[s])
    <3>1. g \in Nat /\ p \in Nat /\ l \in Nat /\ g + l = p BY <2>5
    <3>2. produced'[c] = p + 1 /\ Len(toGw'[s]) = l + 1 BY <2>4, <2>6
    <3> HIDE DEF g, p, l
    <3>3. g + (l + 1) = p + 1 BY <3>1
    <3> QED BY <3>2, <3>3 DEF g
  <2>8. \A e \in DOMAIN toGw'[s] : toGw'[s][e].k # "end" BY <2>3, <2>5, <2>6
  <2> QED BY <2>7, <2>8 DEF c
<1>7. ASSUME t = s, SendRespEnd(s), stream[s] = "open" PROVE Responses(t)'
  <2>1. /\ hpc[s] = "end" /\ hpc'[s] \in {"park", "retire"} /\ UNCHANGED produced
        /\ toGw' = [toGw EXCEPT ![s] = Append(@, Msg("end", hreq[s]))]
    BY <1>1, <1>7 DEF SendRespEnd, TypeOK, AgentType
  <2> SUFFICES ASSUME cur[s] # NoCall, cst[cur[s]] \in Waiting, NEW e \in DOMAIN toGw'[s],
                      toGw'[s][e].k = "end"
               PROVE  got[cur[s]] + e = produced[cur[s]] + 1
    BY <1>1, <1>7, <2>1 DEF Responses, Waiting
  <2>2. hreq[s] \in Calls BY <1>1, <2>1 DEF SlotInv, HandlerServes
  <2>3. Msg("end", hreq[s]) \in Frame BY <2>2, FrameFacts
  <2>4. /\ DOMAIN toGw'[s] = 1 .. (Len(toGw[s]) + 1) /\ DOMAIN toGw[s] = 1 .. Len(toGw[s])
        /\ \A i \in 1 .. Len(toGw[s]) : toGw'[s][i] = toGw[s][i]
    BY <1>5, <1>7, <2>1, <2>3
  <2>5. /\ got[cur[s]] \in Nat /\ produced[cur[s]] \in Nat /\ Len(toGw[s]) \in Nat
        /\ got[cur[s]] + Len(toGw[s]) = produced[cur[s]]
        /\ \A i \in DOMAIN toGw[s] : toGw[s][i].k # "end"
    BY <1>4, <1>7, <2>1
  <2>6. e = Len(toGw[s]) + 1
    <3>1. CASE e \in 1 .. Len(toGw[s]) BY <2>4, <2>5, <3>1
    <3>2. CASE e \notin 1 .. Len(toGw[s])
      <4>1. e \in 1 .. (Len(toGw[s]) + 1) /\ Len(toGw[s]) \in Nat BY <2>4, <2>5
      <4> QED BY <3>2, <4>1
    <3> QED BY <3>1, <3>2
  <2> QED BY <2>5, <2>6
<1>8. ASSUME t = s, Park(s), stream[s] = "open" PROVE Responses(t)'
  <2>1. /\ hpc'[s] = "idle" /\ UNCHANGED produced
        /\ toGw' = [toGw EXCEPT ![s] = Append(@, Ready)]
    BY <1>1, <1>8 DEF Park, TypeOK, AgentType
  <2> SUFFICES ASSUME cur[s] # NoCall, cst[cur[s]] \in Waiting, NEW e \in DOMAIN toGw'[s],
                      toGw'[s][e].k = "end"
               PROVE  got[cur[s]] + e = produced[cur[s]] + 1
    BY <1>1, <1>8, <2>1 DEF Responses, Waiting
  <2>2. Ready \in Frame /\ Ready.k # "end" BY FrameFacts DEF Ready
  <2>3. /\ DOMAIN toGw'[s] = 1 .. (Len(toGw[s]) + 1) /\ DOMAIN toGw[s] = 1 .. Len(toGw[s])
        /\ \A i \in 1 .. Len(toGw[s]) : toGw'[s][i] = toGw[s][i]
        /\ toGw'[s][Len(toGw[s]) + 1] = Ready
    BY <1>5, <1>8, <2>1, <2>2
  <2>4. Len(toGw[s]) \in Nat BY <1>1, LenProperties
  <2>5. e \in DOMAIN toGw[s] /\ toGw[s][e].k = "end" BY <2>2, <2>3, <2>4
  <2> QED BY <1>4, <1>8, <2>5
<1>9. CASE HandlerReturn(s)
  BY <1>1, <1>2, <1>3, <1>9 DEF HandlerReturn, wire
<1>10. CASE Retire(s)
  BY <1>1, <1>2, <1>3, <1>10 DEF Retire, TypeOK, AgentType
<1>11. CASE (SendRespEnd(s) \/ Park(s)) /\ stream[s] # "open"
  BY <1>1, <1>2, <1>3, <1>11 DEF SendRespEnd, Park, TypeOK, AgentType
<1> QED BY <1>2, <1>6, <1>7, <1>8, <1>9, <1>10, <1>11 DEF HandlerStep

\* Every step keeps what is on its way to a waiting caller complete.
LEMMA ResponseStep ==
  ASSUME ContentInv, [Next]_vars, NEW t \in Slots
  PROVE  Responses(t)'
<1>1. Custody /\ TypeOK /\ Responses(t) BY DEF ContentInv, Custody, Content, SlotContent
<1>2. ASSUME UNCHANGED <<toGw, cur, cst, got, produced, hpc>> PROVE Responses(t)'
  BY <1>1, <1>2, QuietSteady, SteadyKeeps
<1>3. ASSUME NEW s \in Slots, Reader(s) \/ CloseDrained(s) PROVE Responses(t)'
  BY <1>1, <1>3, ReaderResponses, SteadyKeeps
<1>4. ASSUME NEW c \in Calls, Dispatch(c) \/ Response(c) PROVE Responses(t)'
  <2>1. CASE Begin(c) BY <2>1, BeginResponses
  <2>2. CASE Recv(c) BY <2>2, RecvResponses
  <2>3. CASE ~Begin(c) /\ ~Recv(c)
    BY <1>1, <1>4, <2>3, CallerResponses, SteadyKeeps DEF Dispatch, Response
  <2> QED BY <2>1, <2>2, <2>3
<1>5. ASSUME NEW s \in Slots, HandlerStep(s) PROVE Responses(t)'
  BY <1>5, HandlerResponses
<1>6. ASSUME NEW s \in Slots, AgentLoop(s) PROVE Responses(t)'
  <2>1. CASE RecvHeaders(s) BY <2>1, StartResponses
  <2>2. CASE OpenSlot(s)
    <3>1. SlotInv(s) BY <1>1 DEF Custody
    <3>2. cur[s] = NoCall /\ UNCHANGED <<cur, cst, got, produced, hpc>>
      BY <2>2, <3>1 DEF OpenSlot, SlotInv, Unborn, gwv, callv
    <3>3. t # s => toGw'[t] = toGw[t] BY <1>1, <2>2 DEF OpenSlot, TypeOK, WireType
    <3>4. Steady(t) BY <3>2, <3>3 DEF Steady
    <3> QED BY <1>1, <3>4, SteadyKeeps
  <2>3. CASE RecvData(s) \/ RecvEnd(s) \/ RecvCancel(s) \/ RecvErr(s) \/ RunReturns(s)
    BY <1>2, <2>3 DEF RecvData, RecvEnd, RecvCancel, RecvErr, RunReturns, wire, gwv, callv
  <2> QED BY <1>6, <2>1, <2>2, <2>3 DEF AgentLoop
<1>7. ASSUME NEW s \in Slots, NetworkCut(s) \/ PoolRetire(s) PROVE Responses(t)'
  BY <1>2, <1>7 DEF NetworkCut, PoolRetire, gwv, callv, agv
<1>8. CASE NodeDrain \/ ControlReconnects \/ UNCHANGED vars
  BY <1>2, <1>8 DEF NodeDrain, ControlReconnects, wire, gwv, callv, agv, vars
<1> QED BY <1>3, <1>4, <1>5, <1>6, <1>7, <1>8 DEF Next

LEMMA InitContent == Init => Content
<1> SUFFICES ASSUME Init PROVE Content OBVIOUS
<1> USE DEF Init
<1>1. ASSUME NEW s \in Slots PROVE SlotContent(s)
  <2>1. DOMAIN toAg[s] = {} /\ hpc[s] = "idle" /\ cur[s] = NoCall BY EmptySeq
  <2>2. \A c \in Calls : cst[c] = "new" OBVIOUS
  <2> QED BY <2>1, <2>2 DEF SlotContent, Requests, Bodies, Writer, Sealed, Cancels, Responses
<1>2. ASSUME NEW c \in Calls PROVE CallContent(c)
  BY DEF CallContent, Fresh, Verdict, Intact
<1> QED BY <1>1, <1>2 DEF Content

LEMMA ContentStep == ContentInv /\ [Next]_vars => ContentInv'
<1> SUFFICES ASSUME ContentInv, [Next]_vars PROVE ContentInv' OBVIOUS
<1>1. Custody' BY CustodyStep DEF ContentInv
<1>2. \A s \in Slots : SlotContent(s)'
  BY RequestStep, ResponseStep DEF RequestInv, SlotContent
<1>3. \A c \in Calls : CallContent(c)' BY CallStep
<1> QED BY <1>1, <1>2, <1>3 DEF ContentInv, Content

\* Every frame on a slot belongs to the request the slot is in the hands of, in
\* order and without a gap, in both directions: whatever is cancelled, cut, drained
\* or retried, for any number of slots, calls, chunks and shared request ids.
THEOREM ContentAlways == Spec => []ContentInv
<1>1. Init => ContentInv BY InitCustody, InitContent DEF ContentInv
<1>2. ContentInv /\ [Next]_vars => ContentInv' BY ContentStep
<1> QED BY <1>1, <1>2, PTL DEF Spec

\* The Agent's cancelRequest only ever stops a request whose caller gave up.
THEOREM OwnCancelOnlyHolds == Spec => []OwnCancelOnly
<1>1. ContentInv => OwnCancelOnly
  BY DEF ContentInv, Content, CallContent, Verdict, GivenUp, OwnCancelOnly
<1> QED BY <1>1, ContentAlways, PTL

\* A response that Response.Recv reports as ended is all its handler produced.
THEOREM CompleteResponseHolds == Spec => []CompleteResponse
<1>1. ContentInv => CompleteResponse
  BY DEF ContentInv, Content, CallContent, Verdict, CompleteResponse
<1> QED BY <1>1, ContentAlways, PTL

\* closeBody tells a handler that its body ended only after every chunk.
THEOREM BodyIntactHolds == Spec => []BodyIntact
<1>1. ContentInv => BodyIntact
  BY DEF ContentInv, Content, CallContent, Intact, BodyIntact
<1> QED BY <1>1, ContentAlways, PTL
=============================================================================
