----------------------------- MODULE TunnelSlot -----------------------------
(***************************************************************************)
(* The data plane between one Gateway replica and one Agent: Serve streams  *)
(* ("slots") that the Agent opens and parks, that the Gateway fills with    *)
(* one request at a time, and that the Agent parks again afterwards.        *)
(*                                                                         *)
(* Gateway side   service/aiServeWeaveGateway/tunnelserver/slot.go, call.go *)
(*                and park/acquire/unpark/kill of node.go                   *)
(* Agent side     service/aiServeWeaveAgent/tunnel/slot.go                  *)
(*                                                                         *)
(* A member of Slots is one stream for its whole life: a rotated slot is    *)
(* replaced by another member.  A member of Calls is one Dispatch.  The     *)
(* module is one slot class of one node; classes share nothing but the      *)
(* draining flag.  A frame carries the call it belongs to; the code only    *)
(* sees that call's request_id, which is IdOf, and two calls may share it   *)
(* (call.go:188 takes the id of the caller's HTTP request, so a retry       *)
(* repeats it).                                                             *)
(***************************************************************************)
EXTENDS Naturals, Sequences

CONSTANTS
  Slots,          \* Serve streams
  Calls,          \* dispatches
  NoCall,         \* a nil *call / *slotRequest
  Ids, IdOf,      \* request ids, and the one each call carries
  BodyCalls,      \* calls whose request has a streamed Body
  BigCalls,       \* calls answered with a chunk over the frame limit
  Chunks,         \* chunks of a streamed request body
  MaxData,        \* bound on the response chunks of one request
  MaxRequestsPerSlot,
  NetworkFails, PoolRetires, NodeDrains  \* which disturbances may happen

NoSlot == "noslot"

ASSUME ConstantsAssumption ==
  /\ NoCall \notin Calls /\ NoSlot \notin Slots
  /\ IdOf \in [Calls -> Ids]
  /\ BodyCalls \subseteq Calls /\ BigCalls \subseteq Calls
  /\ Chunks \in Nat /\ MaxData \in Nat /\ MaxRequestsPerSlot \in Nat \ {0}
  /\ {NetworkFails, PoolRetires, NodeDrains} \subseteq BOOLEAN

VARIABLES
  stream,    \* the gRPC stream: none, open, cut (reset) or ended (server returned)
  toGw,      \* frames on their way to the Gateway, per slot
  toAg,      \* frames on their way to the Agent, per slot
  \* Gateway
  gpc,       \* the Serve goroutine: none, parking, read or gone
  parked, dead, cur,             \* slot.parked, slot.dead, slot.cur
  idle,      \* node.idle[class], most recently parked last
  draining,  \* node.draining
  closing,   \* slots a drain has taken out of idle and not yet closed
  faulted,   \* history: slots a side closed for a protocol fault while usable
  \* the caller's half of a request
  cst,       \* new, taken, hdr, body, open, closing, closed
  slotOf,    \* the slot a call was given
  aborted,   \* call.aborted is closed
  sent,      \* request body chunks written
  got,       \* response chunks received
  outcome,   \* what the caller was told
  \* Agent
  apc,       \* slot.run: unopened, open, closing or closed
  active,    \* slot.active
  hpc,       \* the handler goroutine: idle, run, end, park, retire
  hreq,      \* the request that goroutine serves
  cause,     \* why the request's context is done: none, gateway, slot
  served,    \* slot.served
  fed,       \* request body chunks handed to a call's handler
  bodyClosed,\* slotRequest.bodyClosed, per call
  produced,  \* response chunks the call's handler sent
  result     \* how the call's handler returned: none, ok, err

wire  == <<stream, toGw, toAg>>
gwv   == <<gpc, parked, dead, cur, idle, draining, closing, faulted>>
callv == <<cst, slotOf, aborted, sent, got, outcome>>
agv   == <<apc, active, hpc, hreq, cause, served, fed, bodyClosed, produced, result>>
vars  == <<wire, gwv, callv, agv>>

CallOrNone == Calls \cup {NoCall}
Frame == [k : {"ready"}, c : {NoCall}]
         \cup [k : {"headers", "data", "big", "end", "cancel"}, c : Calls]
Ready == [k |-> "ready", c |-> NoCall]
Msg(kind, c) == [k |-> kind, c |-> c]
SameId(c, d) == IdOf[c] = IdOf[d]

Init ==
  /\ stream = [s \in Slots |-> "none"]
  /\ toGw = [s \in Slots |-> <<>>] /\ toAg = [s \in Slots |-> <<>>]
  /\ gpc = [s \in Slots |-> "none"]
  /\ parked = [s \in Slots |-> FALSE] /\ dead = [s \in Slots |-> FALSE]
  /\ cur = [s \in Slots |-> NoCall]
  /\ idle = <<>> /\ draining = FALSE /\ closing = {} /\ faulted = {}
  /\ cst = [c \in Calls |-> "new"] /\ slotOf = [c \in Calls |-> NoSlot]
  /\ aborted = [c \in Calls |-> FALSE]
  /\ sent = [c \in Calls |-> 0] /\ got = [c \in Calls |-> 0]
  /\ outcome = [c \in Calls |-> "none"]
  /\ apc = [s \in Slots |-> "unopened"] /\ active = [s \in Slots |-> NoCall]
  /\ hpc = [s \in Slots |-> "idle"] /\ hreq = [s \in Slots |-> NoCall]
  /\ cause = [c \in Calls |-> "none"] /\ served = [s \in Slots |-> 0]
  /\ fed = [c \in Calls |-> 0] /\ bodyClosed = [c \in Calls |-> FALSE]
  /\ produced = [c \in Calls |-> 0] /\ result = [c \in Calls |-> "none"]

-----------------------------------------------------------------------------
(* The wire (external: google.golang.org/grpc).  Frames of an open stream   *)
(* arrive in order.  A cut stream loses what was not read yet, at whichever *)
(* point each reader notices; an ended one still delivers what the Gateway  *)
(* had written before its handler returned.                                 *)

CutStream(s) == [stream EXCEPT ![s] = IF @ = "open" THEN "cut" ELSE @]
EndStream(s) == [stream EXCEPT ![s] = IF @ = "open" THEN "ended" ELSE @]

NetworkCut(s) ==
  /\ NetworkFails /\ stream[s] = "open"
  /\ stream' = CutStream(s)
  /\ UNCHANGED <<toGw, toAg, gwv, callv, agv>>

-----------------------------------------------------------------------------
(* Gateway: the slot.                                                       *)

\* node.unpark removes the first occurrence only.
Unpark(seq, s) ==
  IF \E i \in DOMAIN seq : seq[i] = s
    THEN LET i == CHOOSE i \in DOMAIN seq :
                    seq[i] = s /\ \A j \in DOMAIN seq : seq[j] = s => i <= j
         IN  SubSeq(seq, 1, i - 1) \o SubSeq(seq, i + 1, Len(seq))
    ELSE seq

\* Mutant: close forgets the request that was on the slot.
CloseSlotKeepsCall(s) ==
  /\ dead' = [dead EXCEPT ![s] = TRUE]
  /\ cur' = [cur EXCEPT ![s] = NoCall]
  /\ parked' = [parked EXCEPT ![s] = FALSE]
  /\ idle' = IF dead[s] THEN idle ELSE Unpark(idle, s)
  /\ UNCHANGED aborted

\* slot.close: once per slot.  It releases the request on the slot with a
\* non-retryable error and takes the slot out of the idle set.  The stream
\* stays up until the Serve goroutine returns.
CloseSlot(s) ==
  /\ dead' = [dead EXCEPT ![s] = TRUE]
  /\ cur' = [cur EXCEPT ![s] = NoCall]
  /\ parked' = [parked EXCEPT ![s] = FALSE]
  /\ idle' = IF dead[s] THEN idle ELSE Unpark(idle, s)
  /\ aborted' = [c \in Calls |-> aborted[c] \/ c = cur[s]]

\* Serve returns: its deferred close, and the end of the stream.  Frames it has
\* not read are dropped.
ServeReturns(s) ==
  /\ CloseSlot(s)
  /\ toGw' = [toGw EXCEPT ![s] = <<>>]
  /\ gpc' = [gpc EXCEPT ![s] = "gone"]
  /\ stream' = EndStream(s)

\* The first Ready of a stream: Serve up to and including the first half of
\* slot.park.
ServeFirst(s) ==
  /\ gpc[s] = "none" /\ toGw[s] # <<>> /\ Head(toGw[s]).k = "ready"
  /\ toGw' = [toGw EXCEPT ![s] = Tail(@)]
  /\ parked' = [parked EXCEPT ![s] = TRUE]
  /\ gpc' = [gpc EXCEPT ![s] = "parking"]
  /\ UNCHANGED <<stream, toAg, dead, cur, idle, draining, closing, faulted, callv, agv>>

\* The second half of slot.park: node.park offers the slot, or refuses it
\* because the node drains, and then Serve returns.
ParkOffer(s) ==
  /\ gpc[s] = "parking"
  /\ \/ /\ ~draining
        /\ idle' = Append(idle, s)
        /\ gpc' = [gpc EXCEPT ![s] = "read"]
        /\ UNCHANGED <<stream, toGw, parked, dead, cur, aborted>>
     \/ /\ draining
        /\ ServeReturns(s)
  /\ UNCHANGED <<toAg, draining, closing, faulted, cst, slotOf, sent, got, outcome, agv>>

\* readLoop on a later Ready.
ReadReady(s) ==
  /\ gpc[s] = "read" /\ toGw[s] # <<>> /\ Head(toGw[s]).k = "ready"
  /\ IF cur[s] # NoCall \/ dead[s]
       THEN /\ ServeReturns(s)
            /\ faulted' = IF dead[s] THEN faulted ELSE faulted \cup {s}
       ELSE /\ toGw' = [toGw EXCEPT ![s] = Tail(@)]
            /\ parked' = [parked EXCEPT ![s] = TRUE]
            /\ gpc' = [gpc EXCEPT ![s] = "parking"]
            /\ UNCHANGED <<stream, dead, cur, idle, aborted, faulted>>
  /\ UNCHANGED <<toAg, draining, closing, cst, slotOf, sent, got, outcome, agv>>

IsResponse(f) == f.k \in {"data", "big", "end"}

\* route when no request is on the slot: a protocol fault.
RouteIdle(s) ==
  /\ gpc[s] = "read" /\ toGw[s] # <<>> /\ IsResponse(Head(toGw[s]))
  /\ cur[s] = NoCall
  /\ ServeReturns(s)
  /\ faulted' = IF dead[s] THEN faulted ELSE faulted \cup {s}
  /\ UNCHANGED <<toAg, draining, closing, cst, slotOf, sent, got, outcome, agv>>

\* Mutant: deliver also gives up on the caller's context, before Close.
ReleasedOnContext(c) == cst[c] \in {"closing", "closed"}
\* Mutant: deliver does not wait for a caller that is not in Recv.
ReleasedEagerly(c) == cst[c] # "open"

\* deliver gives up once the caller has released the call.
Released(c) == cst[c] = "closed"

\* route when the frame goes nowhere: it names a request that is no longer on
\* the slot, or its caller has gone.  A ResponseEnd still frees the slot.
RouteDrop(s) ==
  LET f == Head(toGw[s]) IN
  /\ gpc[s] = "read" /\ toGw[s] # <<>> /\ IsResponse(f)
  /\ cur[s] # NoCall
  /\ SameId(f.c, cur[s]) => f.k # "big" /\ Released(cur[s])
  /\ toGw' = [toGw EXCEPT ![s] = Tail(@)]
  /\ cur' = [cur EXCEPT ![s] =
               IF SameId(f.c, cur[s]) /\ f.k = "end" THEN NoCall ELSE @]
  /\ UNCHANGED <<stream, toAg, gpc, parked, dead, idle, draining, closing, faulted, callv, agv>>

\* route on a chunk over the frame limit: abort the request, fault the slot.
RouteTooLarge(s) ==
  LET f == Head(toGw[s]) IN
  /\ gpc[s] = "read" /\ toGw[s] # <<>> /\ f.k = "big"
  /\ cur[s] # NoCall /\ SameId(f.c, cur[s])
  /\ ServeReturns(s)
  /\ faulted' = faulted \cup {s}
  /\ UNCHANGED <<toAg, draining, closing, cst, slotOf, sent, got, outcome, agv>>

\* readLoop sees the stream end.
StreamEnds(s) ==
  /\ gpc[s] \in {"none", "read"} /\ stream[s] = "cut"
  /\ ServeReturns(s)
  /\ UNCHANGED <<toAg, draining, closing, faulted, cst, slotOf, sent, got, outcome, agv>>

\* A Draining notice (control.go) or node.kill takes the idle set away and
\* then closes what was in it.
NodeDrain ==
  /\ NodeDrains /\ ~draining
  /\ draining' = TRUE
  /\ closing' = closing \cup {idle[i] : i \in DOMAIN idle}
  /\ idle' = <<>>
  /\ UNCHANGED <<wire, gpc, parked, dead, cur, faulted, callv, agv>>

\* A new Control stream of the node clears the flag.
ControlReconnects ==
  /\ draining
  /\ draining' = FALSE
  /\ UNCHANGED <<wire, gpc, parked, dead, cur, idle, closing, faulted, callv, agv>>

CloseDrained(s) ==
  /\ s \in closing
  /\ closing' = closing \ {s}
  /\ CloseSlot(s)
  /\ UNCHANGED <<wire, gpc, draining, faulted, cst, slotOf, sent, got, outcome, agv>>

-----------------------------------------------------------------------------
(* Gateway: one dispatch, step by step.                                     *)

Takeable(s) == ~dead[s] /\ parked[s]
EndCall(c, how) ==
  /\ cst' = [cst EXCEPT ![c] = "closed"]
  /\ outcome' = [outcome EXCEPT ![c] = how]

\* node.acquire: pop until take succeeds; an empty set is backpressure.
Acquire(c) ==
  LET ready == {i \in DOMAIN idle : Takeable(idle[i])} IN
  /\ cst[c] = "new"
  /\ \/ /\ draining \/ ready = {}
        /\ idle' = IF draining THEN idle ELSE <<>>
        /\ EndCall(c, "backpressure")
        /\ UNCHANGED <<parked, slotOf>>
     \/ /\ ~draining
        /\ \E i \in ready :
             /\ \A j \in ready : j <= i
             /\ idle' = SubSeq(idle, 1, i - 1)
             /\ parked' = [parked EXCEPT ![idle[i]] = FALSE]
             /\ slotOf' = [slotOf EXCEPT ![c] = idle[i]]
        /\ cst' = [cst EXCEPT ![c] = "taken"]
        /\ UNCHANGED outcome
  /\ UNCHANGED <<wire, gpc, dead, cur, draining, closing, faulted, aborted, sent, got, agv>>

\* slot.begin.  A slot that died meanwhile, or has a request, is closed and
\* the dispatch fails with a retryable error.
Begin(c) ==
  LET s == slotOf[c] IN
  /\ cst[c] = "taken"
  /\ IF dead[s] \/ cur[s] # NoCall
       THEN /\ CloseSlot(s) /\ EndCall(c, "retry")
       ELSE /\ cur' = [cur EXCEPT ![s] = c]
            /\ cst' = [cst EXCEPT ![c] = "hdr"]
            /\ UNCHANGED <<dead, parked, idle, aborted, outcome>>
  /\ UNCHANGED <<wire, gpc, draining, closing, faulted, slotOf, sent, got, agv>>

\* slot.send.  On a cut stream a write may still succeed locally and be lost.
SendOk(s, f) ==
  /\ stream[s] \in {"open", "cut"}
  /\ toAg' = IF stream[s] = "open" THEN [toAg EXCEPT ![s] = Append(@, f)] ELSE toAg

SendHeaders(c) ==
  /\ cst[c] = "hdr"
  /\ SendOk(slotOf[c], Msg("headers", c))
  /\ cst' = [cst EXCEPT ![c] = "body"]
  /\ UNCHANGED <<stream, toGw, gwv, slotOf, aborted, sent, got, outcome, agv>>

SendChunk(c) ==
  /\ cst[c] = "body" /\ c \in BodyCalls /\ sent[c] < Chunks
  /\ SendOk(slotOf[c], Msg("data", c))
  /\ sent' = [sent EXCEPT ![c] = @ + 1]
  /\ UNCHANGED <<stream, toGw, gwv, cst, slotOf, aborted, got, outcome, agv>>

\* Mutant: RequestEnd goes out although the body is not complete.
SendEndEarly(c) ==
  /\ cst[c] = "body"
  /\ SendOk(slotOf[c], Msg("end", c))
  /\ cst' = [cst EXCEPT ![c] = "open"]
  /\ UNCHANGED <<stream, toGw, gwv, slotOf, aborted, sent, got, outcome, agv>>

SendEnd(c) ==
  /\ cst[c] = "body" /\ (c \in BodyCalls => sent[c] = Chunks)
  /\ SendOk(slotOf[c], Msg("end", c))
  /\ cst' = [cst EXCEPT ![c] = "open"]
  /\ UNCHANGED <<stream, toGw, gwv, slotOf, aborted, sent, got, outcome, agv>>

\* A write fails, or the body's source does: the slot is closed and Dispatch
\* returns a retryable error.  No Cancel is sent.
DispatchFails(c) ==
  /\ cst[c] \in {"hdr", "body"}
  /\ \/ stream[slotOf[c]] # "open"
     \/ cst[c] = "body" /\ c \in BodyCalls
  /\ CloseSlot(slotOf[c])
  /\ EndCall(c, "retry")
  /\ UNCHANGED <<wire, gpc, draining, closing, faulted, slotOf, sent, got, agv>>

\* Response.Recv meets call.deliver: the unbuffered hand-over of one frame.
\* The ResponseEnd also ends the call and frees the slot.
Recv(c) ==
  LET s == slotOf[c]
      f == Head(toGw[s])
  IN
  /\ cst[c] = "open"
  /\ gpc[s] = "read" /\ cur[s] = c /\ toGw[s] # <<>>
  /\ f.k \in {"data", "end"} /\ SameId(f.c, c)
  /\ toGw' = [toGw EXCEPT ![s] = Tail(@)]
  /\ IF f.k = "data"
       THEN /\ got' = [got EXCEPT ![c] = @ + 1]
            /\ UNCHANGED <<cur, cst, outcome>>
       ELSE /\ cur' = [cur EXCEPT ![s] = NoCall]
            /\ EndCall(c, result[f.c])
            /\ UNCHANGED got
  /\ UNCHANGED <<stream, toAg, gpc, parked, dead, idle, draining, closing, faulted,
                 slotOf, aborted, sent, agv>>

\* Recv returns the abort error, or the caller's context ends first.
RecvFails(c) ==
  /\ cst[c] = "open"
  /\ \E how \in {"cancelled"} \cup (IF aborted[c] THEN {"aborted"} ELSE {}) :
       outcome' = [outcome EXCEPT ![c] = how]
  /\ cst' = [cst EXCEPT ![c] = "closing"]
  /\ UNCHANGED <<wire, gwv, slotOf, aborted, sent, got, agv>>

\* Response.Close of an unfinished response: Cancel goes out, and only then is
\* the call released.
CloseResponse(c) ==
  /\ cst[c] = "closing"
  /\ cst' = [cst EXCEPT ![c] = "closed"]
  /\ toAg' = IF stream[slotOf[c]] = "open"
               THEN [toAg EXCEPT ![slotOf[c]] = Append(@, Msg("cancel", c))]
               ELSE toAg
  /\ UNCHANGED <<stream, toGw, gwv, slotOf, aborted, sent, got, outcome, agv>>

-----------------------------------------------------------------------------
(* Agent: the receive loop of slot.run.                                     *)

\* slot.abort: cancels the running request and the stream's context.
CancelActive(s, why) ==
  cause' = [c \in Calls |-> IF c = active[s] /\ cause[c] = "none" THEN why ELSE cause[c]]

\* The receive loop stops; frames it has not read are dropped.
StopLoop(s) ==
  /\ apc' = [apc EXCEPT ![s] = "closing"]
  /\ toAg' = [toAg EXCEPT ![s] = <<>>]

\* run opens the stream and parks it.
OpenSlot(s) ==
  /\ apc[s] = "unopened"
  /\ apc' = [apc EXCEPT ![s] = "open"]
  /\ stream' = [stream EXCEPT ![s] = "open"]
  /\ toGw' = [toGw EXCEPT ![s] = Append(@, Ready)]
  /\ UNCHANGED <<toAg, gwv, callv, active, hpc, hreq, cause, served, fed,
                 bodyClosed, produced, result>>

AgentTakes(s, kind) ==
  /\ apc[s] = "open" /\ toAg[s] # <<>> /\ Head(toAg[s]).k = kind
  /\ toAg' = [toAg EXCEPT ![s] = Tail(@)]

\* begin: a request for a busy slot is a protocol fault that closes the slot.
RecvHeaders(s) ==
  LET c == Head(toAg[s]).c IN
  /\ apc[s] = "open" /\ toAg[s] # <<>> /\ Head(toAg[s]).k = "headers"
  /\ IF active[s] # NoCall
       THEN /\ faulted' = faulted \cup {s}
            /\ CancelActive(s, "slot")
            /\ toGw' = [toGw EXCEPT ![s] = IF stream[s] = "open"
                                              THEN Append(@, Msg("end", c)) ELSE @]
            /\ stream' = CutStream(s)
            /\ StopLoop(s)
            /\ UNCHANGED <<active, hreq, hpc>>
       ELSE /\ toAg' = [toAg EXCEPT ![s] = Tail(@)]
            /\ active' = [active EXCEPT ![s] = c]
            /\ hreq' = [hreq EXCEPT ![s] = c]
            /\ hpc' = [hpc EXCEPT ![s] = "run"]
            /\ UNCHANGED <<toGw, stream, apc, faulted, cause>>
  /\ UNCHANGED <<gpc, parked, dead, cur, idle, draining, closing, callv, served,
                 fed, bodyClosed, produced, result>>

\* match: the running request, when the frame names it.
Matches(s, c) == active[s] # NoCall /\ SameId(active[s], c)

\* feed: the handler takes the chunk, or the chunk is dropped because it names
\* another request or the request's context is done.
RecvData(s) ==
  LET c == Head(toAg[s]).c
      a == active[s]
  IN
  /\ AgentTakes(s, "data")
  /\ \/ Matches(s, c) /\ cause[a] = "none" /\ fed' = [fed EXCEPT ![a] = @ + 1]
     \/ (Matches(s, c) => cause[a] # "none") /\ fed' = fed
  /\ UNCHANGED <<stream, toGw, gwv, callv, apc, active, hpc, hreq, cause, served,
                 bodyClosed, produced, result>>

\* closeBody.
RecvEnd(s) ==
  LET c == Head(toAg[s]).c IN
  /\ AgentTakes(s, "end")
  /\ bodyClosed' = IF Matches(s, c) THEN [bodyClosed EXCEPT ![active[s]] = TRUE]
                                    ELSE bodyClosed
  /\ UNCHANGED <<stream, toGw, gwv, callv, apc, active, hpc, hreq, cause, served,
                 fed, produced, result>>

\* cancelRequest: only the request the Cancel names.
RecvCancel(s) ==
  LET c == Head(toAg[s]).c IN
  /\ AgentTakes(s, "cancel")
  /\ IF Matches(s, c) THEN CancelActive(s, "gateway") ELSE UNCHANGED cause
  /\ UNCHANGED <<stream, toGw, gwv, callv, apc, active, hpc, hreq, served, fed,
                 bodyClosed, produced, result>>

\* Mutant: a stream the Gateway ended in good order is not noticed.
RecvErrOnResetOnly(s) ==
  /\ apc[s] = "open" /\ stream[s] = "cut"
  /\ CancelActive(s, "slot")
  /\ StopLoop(s)
  /\ UNCHANGED <<stream, toGw, gwv, callv, active, hpc, hreq, served, fed, bodyClosed,
                 produced, result>>

\* Recv fails: run aborts the slot and then waits for its handler.
RecvErr(s) ==
  /\ apc[s] = "open"
  /\ stream[s] = "cut" \/ (stream[s] = "ended" /\ toAg[s] = <<>>)
  /\ CancelActive(s, "slot")
  /\ StopLoop(s)
  /\ UNCHANGED <<stream, toGw, gwv, callv, active, hpc, hreq, served, fed, bodyClosed,
                 produced, result>>

\* run returns: the handler is done, the pool is told.
RunReturns(s) ==
  /\ apc[s] = "closing" /\ hpc[s] = "idle"
  /\ apc' = [apc EXCEPT ![s] = "closed"]
  /\ UNCHANGED <<wire, gwv, callv, active, hpc, hreq, cause, served, fed,
                 bodyClosed, produced, result>>

\* The pool retires a slot: reaping, or Stop with a request still running.
PoolRetire(s) ==
  /\ PoolRetires /\ apc[s] = "open" /\ stream[s] = "open"
  /\ CancelActive(s, "slot")
  /\ stream' = CutStream(s)
  /\ UNCHANGED <<toGw, toAg, gwv, callv, apc, active, hpc, hreq, served, fed,
                 bodyClosed, produced, result>>

-----------------------------------------------------------------------------
(* Agent: the handler goroutine, slot.serve.                                *)

\* slotSink.Data: one frame per event, refused once the request is cancelled.
SinkData(s) ==
  LET c == hreq[s] IN
  /\ hpc[s] = "run" /\ cause[c] = "none" /\ stream[s] = "open"
  /\ produced[c] < MaxData
  /\ produced' = [produced EXCEPT ![c] = @ + 1]
  /\ toGw' = [toGw EXCEPT ![s] =
                Append(@, Msg(IF c \in BigCalls THEN "big" ELSE "data", c))]
  /\ UNCHANGED <<stream, toAg, gwv, callv, apc, active, hpc, hreq, cause, served,
                 fed, bodyClosed, result>>

\* Mutant: active is not cleared before the slot is offered again.
HandlerReturnKeepsActive(s) ==
  /\ hpc[s] = "run"
  /\ \E r \in {"ok", "err"} : result' = [result EXCEPT ![hreq[s]] = r]
  /\ served' = [served EXCEPT ![s] = @ + 1]
  /\ hpc' = [hpc EXCEPT ![s] = "end"]
  /\ UNCHANGED <<wire, gwv, callv, apc, active, hreq, cause, fed, bodyClosed, produced>>

\* The Handler returns (a panic is an error): active is cleared first.
HandlerReturn(s) ==
  /\ hpc[s] = "run"
  /\ \E r \in {"ok", "err"} : result' = [result EXCEPT ![hreq[s]] = r]
  /\ active' = [active EXCEPT ![s] = NoCall]
  /\ served' = [served EXCEPT ![s] = @ + 1]
  /\ hpc' = [hpc EXCEPT ![s] = "end"]
  /\ UNCHANGED <<wire, gwv, callv, apc, hreq, cause, fed, bodyClosed, produced>>

\* Mutant: Ready overtakes the ResponseEnd.
SendRespEndAfterReady(s) ==
  /\ hpc[s] = "end"
  /\ hpc' = [hpc EXCEPT ![s] = "idle"]
  /\ toGw' = [toGw EXCEPT ![s] = Append(Append(@, Ready), Msg("end", hreq[s]))]
  /\ UNCHANGED <<stream, toAg, gwv, callv, apc, active, hreq, cause, served, fed,
                 bodyClosed, produced, result>>

\* sendEnd, then rotation (by request count, or by age at any time) or park.
\* A failed send retires the slot.
SendRespEnd(s) ==
  /\ hpc[s] = "end"
  /\ IF stream[s] = "open"
       THEN /\ toGw' = [toGw EXCEPT ![s] = Append(@, Msg("end", hreq[s]))]
            /\ \E next \in {"park", "retire"} :
                 /\ served[s] >= MaxRequestsPerSlot => next = "retire"
                 /\ hpc' = [hpc EXCEPT ![s] = next]
       ELSE /\ hpc' = [hpc EXCEPT ![s] = "retire"]
            /\ UNCHANGED toGw
  /\ UNCHANGED <<stream, toAg, gwv, callv, apc, active, hreq, cause, served, fed,
                 bodyClosed, produced, result>>

\* retire: abort with no request running.
Retire(s) ==
  /\ hpc[s] = "retire"
  /\ stream' = CutStream(s)
  /\ hpc' = [hpc EXCEPT ![s] = "idle"]
  /\ UNCHANGED <<toGw, toAg, gwv, callv, apc, active, hreq, cause, served, fed,
                 bodyClosed, produced, result>>

\* park: Ready goes out again; a failed send retires the slot.
Park(s) ==
  /\ hpc[s] = "park"
  /\ IF stream[s] = "open"
       THEN /\ toGw' = [toGw EXCEPT ![s] = Append(@, Ready)]
            /\ hpc' = [hpc EXCEPT ![s] = "idle"]
       ELSE /\ hpc' = [hpc EXCEPT ![s] = "retire"]
            /\ UNCHANGED toGw
  /\ UNCHANGED <<stream, toAg, gwv, callv, apc, active, hreq, cause, served, fed,
                 bodyClosed, produced, result>>

-----------------------------------------------------------------------------
Reader(s) == \/ ServeFirst(s) \/ ParkOffer(s) \/ ReadReady(s) \/ RouteIdle(s)
             \/ RouteDrop(s) \/ RouteTooLarge(s) \/ StreamEnds(s)
Dispatch(c) == \/ Acquire(c) \/ Begin(c) \/ SendHeaders(c) \/ SendChunk(c)
               \/ SendEnd(c) \/ DispatchFails(c)
Response(c) == Recv(c) \/ RecvFails(c) \/ CloseResponse(c)
AgentLoop(s) == \/ OpenSlot(s) \/ RecvHeaders(s) \/ RecvData(s) \/ RecvEnd(s)
                \/ RecvCancel(s) \/ RecvErr(s) \/ RunReturns(s)
HandlerStep(s) == SinkData(s) \/ HandlerReturn(s) \/ SendRespEnd(s) \/ Retire(s) \/ Park(s)

Next ==
  \/ NodeDrain \/ ControlReconnects
  \/ \E s \in Slots : \/ Reader(s) \/ AgentLoop(s) \/ HandlerStep(s)
                      \/ CloseDrained(s) \/ NetworkCut(s) \/ PoolRetire(s)
  \/ \E c \in Calls : Dispatch(c) \/ Response(c)

Spec == Init /\ [][Next]_vars

\* Fairness.  Every goroutine that can take a step eventually takes one: the
\* reader, the dispatching caller (Recv and Close are its contract), the
\* Agent's receive loop and the handler, which must return (slot.go: "A Handler
\* must return promptly once ctx is done", and dispatch.go bounds every request
\* by a local maximum).  Nothing obliges a slot to open, a caller to start or
\* to give up, a request body to fail, or a disturbance to happen.
Fairness ==
  /\ \A s \in Slots :
       /\ WF_vars(Reader(s)) /\ WF_vars(CloseDrained(s))
       /\ WF_vars(AgentLoop(s) /\ apc[s] # "unopened")
       /\ WF_vars(HandlerReturn(s)) /\ WF_vars(SendRespEnd(s) \/ Retire(s) \/ Park(s))
  /\ \A c \in Calls :
       /\ WF_vars(Dispatch(c) /\ cst[c] # "new") /\ WF_vars(Recv(c))
       /\ WF_vars(RecvFails(c) /\ aborted[c]) /\ WF_vars(CloseResponse(c))

FairSpec == Spec /\ Fairness

-----------------------------------------------------------------------------
(* Properties.                                                              *)

\* A call in one of these states has a slot and is not finished with it.
Holding == {"taken", "hdr", "body", "open", "closing"}

WireType ==
  /\ stream \in [Slots -> {"none", "open", "cut", "ended"}]
  /\ toGw \in [Slots -> Seq(Frame)]
  /\ toAg \in [Slots -> Seq(Frame)]

GatewayType ==
  /\ gpc \in [Slots -> {"none", "parking", "read", "gone"}]
  /\ parked \in [Slots -> BOOLEAN]
  /\ dead \in [Slots -> BOOLEAN]
  /\ cur \in [Slots -> CallOrNone]
  /\ idle \in Seq(Slots)
  /\ draining \in BOOLEAN
  /\ closing \subseteq Slots
  /\ faulted \subseteq Slots

CallType ==
  /\ cst \in [Calls -> {"new", "taken", "hdr", "body", "open", "closing", "closed"}]
  /\ slotOf \in [Calls -> Slots \cup {NoSlot}]
  /\ \A c \in Calls : /\ cst[c] \in Holding => slotOf[c] \in Slots
                      /\ cst[c] = "new" => slotOf[c] = NoSlot
  /\ aborted \in [Calls -> BOOLEAN]
  /\ sent \in [Calls -> Nat]
  /\ got \in [Calls -> Nat]
  /\ outcome \in [Calls -> {"none", "backpressure", "retry", "ok", "err",
                            "cancelled", "aborted"}]

AgentType ==
  /\ apc \in [Slots -> {"unopened", "open", "closing", "closed"}]
  /\ active \in [Slots -> CallOrNone]
  /\ hpc \in [Slots -> {"idle", "run", "end", "park", "retire"}]
  /\ hreq \in [Slots -> CallOrNone]
  /\ \A s \in Slots : hpc[s] # "idle" => hreq[s] \in Calls
  /\ cause \in [Calls -> {"none", "gateway", "slot"}]
  /\ served \in [Slots -> Nat]
  /\ fed \in [Calls -> Nat]
  /\ bodyClosed \in [Calls -> BOOLEAN]
  /\ produced \in [Calls -> Nat]
  /\ result \in [Calls -> {"none", "ok", "err"}]

\* Type correctness: every variable of the two sides, of the calls and of the
\* wire keeps to its values, a call that holds a slot has a real one, and a
\* handler that runs has a real request.
TypeOK == WireType /\ GatewayType /\ CallType /\ AgentType

\* A slot serves one request at a time: two dispatches never hold the same
\* usable slot, however the Agent's Ready, drains, reuse and repeated request
\* ids interleave.
ExclusiveUse ==
  \A c, d \in Calls :
    /\ c # d /\ cst[c] \in Holding /\ cst[d] \in Holding
    /\ slotOf[c] = slotOf[d]
    => dead[slotOf[c]]

\* The slot the Gateway offers for the next request is clean: its previous
\* handler has finished, its last response frame was read, and no request is
\* on its way, so nothing of the old request can meet the new one.
CleanOffer ==
  \A s \in Slots :
    /\ parked[s] /\ stream[s] = "open"
    => /\ active[s] = NoCall /\ hpc[s] = "idle"
       /\ toGw[s] = <<>> /\ cur[s] = NoCall
       /\ \A i \in DOMAIN toAg[s] : toAg[s][i].k # "headers"

\* Two conforming sides never see a protocol fault on a usable slot: Ready
\* while in flight, a response on an idle slot, or a request for a busy slot.
\* Only a chunk over the frame limit may close one that way.
NoSpuriousFault ==
  \A s \in faulted : \E c \in BigCalls : slotOf[c] = s

\* A Cancel stops only the request it was sent for, even when a retry reuses
\* the same request id on the same slot: a request cancelled by the Gateway
\* has a caller that gave up.
OwnCancelOnly ==
  \A c \in Calls : cause[c] = "gateway" => outcome[c] \in {"cancelled", "aborted"}

\* A response reported as finished is whole: every chunk its own handler
\* produced was received before the end, and the verdict is that handler's.
CompleteResponse ==
  \A c \in Calls :
    outcome[c] \in {"ok", "err"} => got[c] = produced[c] /\ outcome[c] = result[c]

\* A request the Agent has answered does not reach its caller as a slot death.
\* tunnel/README.md promises it for the slot's own rotation: a busy slot
\* retires after the current ResponseEnd and never interrupts a request.
AnswerSurvives ==
  \A c \in Calls : result[c] # "none" => outcome[c] # "aborted"

\* A handler that sees its request body end has received all of it: a body
\* that fails half way is never mistaken for a shorter one.
BodyIntact ==
  \A c \in BodyCalls : bodyClosed[c] /\ cause[c] = "none" => fed[c] = Chunks

-----------------------------------------------------------------------------
(* The inductive invariant behind ExclusiveUse, CleanOffer and              *)
(* NoSpuriousFault: who has a slot at any moment.  A slot is in at most one *)
(* hand: offered by the Agent (Ready on the wire, being parked, parked),    *)
(* given to a call that has not written its headers, on its way to the      *)
(* Agent (headers on the wire), or with the Agent's handler.                *)

HasReady(s) == \E i \in DOMAIN toGw[s] : toGw[s][i].k = "ready"
HasHeaders(s) == \E i \in DOMAIN toAg[s] : toAg[s][i].k = "headers"
Offered(s) == parked[s]
Given(s) == \E c \in Calls : cst[c] \in {"taken", "hdr"} /\ slotOf[c] = s
HandlerBusy(s) == hpc[s] # "idle"
OnSlot(s, c) == dead[s] \/ cur[s] = c
Written == {"body", "open", "closing", "closed"}

OneHand(s) ==
  /\ HasReady(s) => ~HasHeaders(s) /\ ~Offered(s) /\ ~Given(s) /\ ~HandlerBusy(s)
  /\ HasHeaders(s) => ~Offered(s) /\ ~Given(s) /\ ~HandlerBusy(s)
  /\ Offered(s) => ~Given(s) /\ ~HandlerBusy(s)
  /\ Given(s) => ~HandlerBusy(s)

\* Nothing refers to a slot the Gateway has not heard of yet.
Unborn(s) ==
  /\ apc[s] = "unopened" => stream[s] = "none" /\ gpc[s] = "none" /\ toGw[s] = <<>>
  /\ gpc[s] = "none" =>
       /\ ~parked[s] /\ ~dead[s] /\ cur[s] = NoCall /\ toAg[s] = <<>> /\ hpc[s] = "idle"
       /\ \A c \in Calls : slotOf[c] # s

\* An offered slot carries nothing of an earlier request, and no call has it.
OfferedClean(s) ==
  /\ gpc[s] = "parking" => Offered(s)
  /\ Offered(s) => /\ ~dead[s] /\ cur[s] = NoCall /\ toGw[s] = <<>>
                   /\ \A c \in Calls : cst[c] \in Holding => slotOf[c] # s

\* A given slot has one taker and nothing on the wire towards the Gateway.
GivenClean(s) ==
  \A c \in Calls : cst[c] \in {"taken", "hdr"} /\ slotOf[c] = s =>
    /\ toGw[s] = <<>>
    /\ cst[c] = "taken" => cur[s] = NoCall
    /\ \A d \in Calls \ {c} : cst[d] \in Holding => slotOf[d] # s

\* A call that holds a slot is the request on it, unless the slot died.
HolderIsCurrent(s) ==
  /\ \A c \in Calls : cst[c] \in Holding \ {"taken"} /\ slotOf[c] = s => OnSlot(s, c)
  /\ cur[s] # NoCall => /\ slotOf[cur[s]] = s /\ cst[cur[s]] \in Written \cup {"hdr"}
                        /\ ~dead[s]

\* Headers on the wire belong to the request on the slot, nothing answers them yet.
HeadersInFlight(s) ==
  \A i \in DOMAIN toAg[s] : toAg[s][i].k = "headers" =>
    LET c == toAg[s][i].c IN
    /\ c \in Calls /\ slotOf[c] = s /\ cst[c] \in Written /\ OnSlot(s, c)
    /\ toGw[s] = <<>>
    /\ \A j \in DOMAIN toAg[s] : toAg[s][j].k = "headers" => j = i

\* The handler serves the request on the slot; until it has sent its
\* ResponseEnd the wire holds chunks only.
HandlerServes(s) ==
  /\ active[s] = IF hpc[s] = "run" THEN hreq[s] ELSE NoCall
  /\ hpc[s] \in {"run", "end"} =>
       /\ hreq[s] \in Calls /\ slotOf[hreq[s]] = s /\ cst[hreq[s]] \in Written
       /\ OnSlot(s, hreq[s])
       /\ \A i \in DOMAIN toGw[s] : toGw[s][i].k \in {"data", "big"}

\* Ready is the last frame on the wire, and a ResponseEnd is last or followed
\* by that Ready.
WireOrder(s) ==
  \A i, j \in DOMAIN toGw[s] :
    i < j => /\ toGw[s][i].k # "ready"
             /\ toGw[s][i].k = "end" => toGw[s][j].k = "ready"

\* Response frames belong to the request on the slot.
WireOwner(s) ==
  \A i \in DOMAIN toGw[s] :
    LET f == toGw[s][i] IN
    f.k # "ready" => /\ IsResponse(f) /\ f.c \in Calls /\ slotOf[f.c] = s
                     /\ OnSlot(s, f.c)
                     /\ f.k = "big" => f.c \in BigCalls

\* While the Gateway has a request on the slot, a Ready only follows its
\* ResponseEnd.
ReadyAfterEnd(s) ==
  (HasReady(s) \/ hpc[s] = "park") /\ cur[s] # NoCall
    => \E i \in DOMAIN toGw[s] : toGw[s][i].k = "end"

\* The idle set lists each parked slot once.
IdleShape ==
  /\ \A i \in DOMAIN idle : parked[idle[i]] /\ gpc[idle[i]] = "read"
  /\ \A i, j \in DOMAIN idle : idle[i] = idle[j] => i = j
  /\ \A s \in closing : gpc[s] # "parking" /\ gpc[s] # "none" /\ (parked[s] \/ dead[s])
  /\ \A s \in closing, i \in DOMAIN idle : idle[i] # s

\* What holds of one slot.
SlotInv(s) ==
  /\ OneHand(s) /\ Unborn(s) /\ OfferedClean(s) /\ GivenClean(s)
  /\ HolderIsCurrent(s) /\ HeadersInFlight(s) /\ HandlerServes(s)
  /\ WireOrder(s) /\ WireOwner(s) /\ ReadyAfterEnd(s)

\* The inductive invariant: slot.take/begin/park on the Gateway and begin/serve/
\* park on the Agent hand every slot over, and never share it.
Custody == TypeOK /\ IdleShape /\ NoSpuriousFault /\ \A s \in Slots : SlotInv(s)

-----------------------------------------------------------------------------
\* Every dispatch that was given a slot comes to an end, without any timeout
\* of its own: by its answer, or because its slot died.
EveryCallEnds == \A c \in Calls : cst[c] = "taken" ~> cst[c] = "closed"

\* A slot the Gateway closed under a request it had already written is given
\* up by both sides, although nobody told the Agent to stop.
AbandonedSlotReclaimed ==
  \A s \in Slots : dead[s] /\ active[s] # NoCall ~> apc[s] = "closed" /\ gpc[s] = "gone"
=============================================================================
