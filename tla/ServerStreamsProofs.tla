------------------------- MODULE ServerStreamsProofs -------------------------
(***************************************************************************)
(* Proofs about ServerStreams, for every set of replies and every capacity  *)
(* and bound: its type correctness, with the capacity of the inbox and recv *)
(* channels; that the stats events of a stream are well formed however its  *)
(* worker, its handler, Stop and CloseStream race through finalize, and that*)
(* Stop ends what it found begun; that a handler receives the caller's Data *)
(* in order and without a gap; that no stale teardown takes the entry of a  *)
(* live one; and that what a caller reads keeps its order.                  *)
(***************************************************************************)
EXTENDS ServerStreams, DataLines, SequenceTheorems, TLAPS

-----------------------------------------------------------------------------
(* The values the model is built from                                       *)

CallerState == [called : BOOLEAN, half : BOOLEAN, aborted : BOOLEAN, data : Nat, frames : Nat]

\* A stream is a reply and a generation.
LEMMA StreamParts ==
  ASSUME NEW s \in Stream
  PROVE  Reply(s) \in Replies /\ Gen(s) \in 1..MaxGen
BY DEF Stream, Reply, Gen

\* There is a stream for AnyStream to choose.
LEMMA AnyStreamIsStream == AnyStream \in Stream
<1>1. PICK r \in Replies : TRUE
  BY ServerAssumption
<1>2. <<r, 1>> \in Stream
  BY <1>1, ServerAssumption DEF Stream
<1> QED
  BY <1>2 DEF AnyStream

\* The frames of the two subjects.
LEMMA FrameTypes ==
  ASSUME NEW n \in Nat
  PROVE  /\ Frame("Call", 0) \in Request /\ Frame("Data", n) \in Request
         /\ Frame("EndOK", 0) \in Request /\ Frame("EndErr", 0) \in Request
         /\ Frame("Ping", 0) \in Request /\ NoFrame \in Request
         /\ Frame("Begin", 0) \in Response /\ Frame("Data", n) \in Response
         /\ Frame("EndOK", 0) \in Response /\ Frame("EndErr", 0) \in Response
         /\ Frame("Pong", 0) \in Response
BY DEF Frame, NoFrame, Request, Response

\* A caller that publishes a request.
LEMMA CallerWritesTyped ==
  ASSUME TypeOK, NEW r \in Replies, NEW f \in Request, NEW state \in CallerState,
         CallerWrites(r, f, state)
  PROVE  TypeOK'
<1>1. WireOK'
  <2>1. requests' \in [Replies -> Seq(Request)]
    BY DEF CallerWrites, TypeOK, WireOK
  <2>2. caller' \in [Replies -> CallerState]
    <3>1. state.frames + 1 \in Nat
      BY DEF CallerState
    <3>2. [state EXCEPT !.frames = @ + 1] \in CallerState
      BY <3>1 DEF CallerState
    <3> QED
      BY <3>2 DEF CallerWrites, TypeOK, WireOK, CallerState
  <2> QED
    BY <2>1, <2>2 DEF CallerWrites, TypeOK, WireOK, CallerState
<1> QED
  BY <1>1 DEF CallerWrites, TypeOK, AdminOK, FramesOK, StatsOK, StreamsOK, GoroutinesOK,
              adminVars, frameVars, statsVars

\* Every step keeps the types.
LEMMA CallerTyped ==
  ASSUME TypeOK, NEW r \in Replies,
         CallerCall(r) \/ CallerData(r) \/ CallerCloseSend(r) \/ CallerAborts(r) \/ CallerPings(r)
  PROVE  TypeOK'
<1> caller[r] \in CallerState /\ caller[r].data + 1 \in Nat
  BY DEF TypeOK, WireOK, CallerState
<1>1. CASE CallerCall(r)
  BY <1>1, FrameTypes, CallerWritesTyped DEF CallerCall, CallerState
<1>2. CASE CallerData(r)
  BY <1>2, FrameTypes, CallerWritesTyped DEF CallerData, CallerState
<1>3. CASE CallerCloseSend(r)
  BY <1>3, FrameTypes, CallerWritesTyped DEF CallerCloseSend, CallerState
<1>4. CASE CallerAborts(r)
  BY <1>4, FrameTypes, CallerWritesTyped DEF CallerAborts, CallerState
<1>5. CASE CallerPings(r)
  BY <1>5, FrameTypes, CallerWritesTyped DEF CallerPings, CallerState
<1> QED
  BY <1>1, <1>2, <1>3, <1>4, <1>5

\* onMessage takes a request off the wire and finds or creates its stream.
LEMMA OnMessageTyped ==
  ASSUME TypeOK, NEW r \in Replies, OnMessage(r)
  PROVE  TypeOK'
<1>1. /\ requests[r] \in Seq(Request) /\ requests[r] # <<>>
      /\ Head(requests[r]) \in Request /\ Tail(requests[r]) \in Seq(Request)
  BY HeadTailProperties DEF OnMessage, TypeOK, WireOK
<1>2. WireOK'
  BY <1>1 DEF OnMessage, TypeOK, WireOK
<1>3. FramesOK' /\ StreamsOK' /\ GoroutinesOK'
  <2>1. CASE streams[r] # 0 /\ UNCHANGED <<gen, streams, ctxDone, worker>>
                            /\ dispatcher' = <<<<r, streams[r]>>, Head(requests[r])>>
    <3>1. <<r, streams[r]>> \in Stream
      BY <2>1, ServerAssumption DEF TypeOK, StreamsOK, Stream
    <3> QED
      BY <1>1, <2>1, <3>1 DEF OnMessage, TypeOK, FramesOK, StreamsOK, GoroutinesOK
  <2>2. CASE /\ gen[r] < MaxGen
             /\ gen' = [gen EXCEPT ![r] = @ + 1]
             /\ streams' = [streams EXCEPT ![r] = gen[r] + 1]
             /\ ctxDone' = [ctxDone EXCEPT ![<<r, gen[r] + 1>>] = StreamContextDone]
             /\ worker' = [worker EXCEPT ![<<r, gen[r] + 1>>].pc = "idle"]
             /\ dispatcher' = <<<<r, gen[r] + 1>>, Head(requests[r])>>
    <3>1. <<r, gen[r] + 1>> \in Stream /\ gen[r] + 1 \in 0..MaxGen
      BY <2>2, ServerAssumption DEF TypeOK, FramesOK, Stream
    <3>2. FramesOK'
      BY <1>1, <2>2, <3>1 DEF OnMessage, TypeOK, FramesOK
    <3>3. StreamsOK'
      BY <2>2, <3>1 DEF OnMessage, TypeOK, StreamsOK, AdminOK, StreamContextDone
    <3>4. GoroutinesOK'
      BY <2>2, <3>1 DEF OnMessage, TypeOK, GoroutinesOK, WorkerPC
    <3> QED
      BY <3>2, <3>3, <3>4
  <2> QED
    BY <2>1, <2>2 DEF OnMessage
<1> QED
  BY <1>2, <1>3 DEF OnMessage, TypeOK, AdminOK, StatsOK, adminVars, statsVars

\* enqueue appends a frame where there is room, or drops it.
LEMMA EnqueueTyped ==
  ASSUME TypeOK, Enqueue
  PROVE  TypeOK'
<1> DEFINE s == dispatcher[1]
           f == dispatcher[2]
<1>1. s \in Stream /\ f \in Request
  BY DEF Enqueue, TypeOK, FramesOK
<1>2. FramesOK'
  <2>1. CASE Len(inbox[s]) < InboxCap /\ EnqueueFrame(s, Append(inbox[s], f))
    <3>1. inbox[s] \in Seq(Request)
      BY <1>1 DEF TypeOK, FramesOK
    <3>2. /\ Append(inbox[s], f) \in Seq(Request)
          /\ Len(Append(inbox[s], f)) <= InboxCap
      BY <1>1, <2>1, <3>1, ServerAssumption
    <3> QED
      BY <1>1, <2>1, <3>2 DEF EnqueueFrame, TypeOK, FramesOK
  <2>2. CASE EnqueueFrame(s, inbox[s])
    BY <1>1, <2>2 DEF EnqueueFrame, TypeOK, FramesOK
  <2> QED
    BY <2>1, <2>2 DEF Enqueue
<1> QED
  BY <1>2 DEF Enqueue, EnqueueFrame, TypeOK, WireOK, AdminOK, StatsOK, StreamsOK, GoroutinesOK,
              wireVars, adminVars, statsVars

\* The three steps of finalize.
LEMMA FinalizeTyped ==
  ASSUME TypeOK, NEW s \in Stream, NEW pc, Finalize(s, pc),
         UNCHANGED <<beginOnce, statsBegun, hasBegun>>
  PROVE  StatsOK' /\ StreamsOK'
<1>1. CASE pc = "once" /\ EndOnceDo(s) /\ UNCHANGED <<ctxDone, streams>>
  <2>1. Append(events[s], "End") \in Seq({"Begin", "End"})
    BY DEF TypeOK, StatsOK
  <2>2. events' \in [Stream -> Seq({"Begin", "End"})]
    BY <1>1, <2>1 DEF EndOnceDo, TypeOK, StatsOK
  <2> QED
    BY <1>1, <2>2 DEF EndOnceDo, TypeOK, StatsOK, StreamsOK
<1>2. CASE /\ ctxDone' = [ctxDone EXCEPT ![s] = TRUE]
           /\ UNCHANGED <<endOnce, events, streams>>
  BY <1>2 DEF TypeOK, StatsOK, StreamsOK
<1>3. CASE Remove(Reply(s)) /\ UNCHANGED <<endOnce, events, ctxDone>>
  BY <1>3, StreamParts, ServerAssumption DEF Remove, TypeOK, StatsOK, StreamsOK
<1> QED
  BY <1>1, <1>2, <1>3 DEF Finalize

\* What Take leaves of the inbox, and the frame it takes.
LEMMA TakeTyped ==
  ASSUME TypeOK, NEW s \in Stream, NEW t, Take(s, t),
         UNCHANGED <<gen, dispatcher, recv>>, recvClosed' \in [Stream -> BOOLEAN]
  PROVE  FramesOK' /\ Head(inbox[s]) \in Request
<1>1. inbox[s] \in Seq(Request) /\ inbox[s] # <<>> /\ Len(inbox[s]) <= InboxCap
  BY DEF Take, TypeOK, FramesOK
<1>2. /\ Head(inbox[s]) \in Request /\ Tail(inbox[s]) \in Seq(Request)
      /\ Len(Tail(inbox[s])) <= InboxCap
  BY <1>1, HeadTailProperties, ServerAssumption
<1> QED
  BY <1>2 DEF Take, TypeOK, FramesOK

\* What the server publishes are responses.
LEMMA PublishTyped ==
  ASSUME TypeOK, NEW r \in Replies, NEW fs \in Seq(Response), Publish(r, fs),
         UNCHANGED <<kind, caller, requests>>
  PROVE  WireOK'
<1>1. responses[r] \o fs \in Seq(Response)
  BY ConcatProperties DEF TypeOK, WireOK
<1> QED
  BY <1>1 DEF Publish, TypeOK, WireOK

\* Begin, if it is due, and one or no frame after it.
LEMMA BeginMaybeTyped ==
  ASSUME NEW s \in Stream, NEW f \in Response
  PROVE  /\ BeginMaybe(s) \in Seq(Response)
         /\ BeginMaybe(s) \o <<f>> \in Seq(Response)
         /\ BeginMaybe(s) \o <<>> \in Seq(Response)
<1>1. BeginMaybe(s) \in Seq(Response)
  BY FrameTypes, 0 \in Nat DEF BeginMaybe
<1>2. <<f>> \in Seq(Response) /\ <<>> \in Seq(Response)
  OBVIOUS
<1> QED
  BY <1>1, <1>2, ConcatProperties

\* close's two publishes, either of which may be refused.
LEMMA CloseWritesTyped ==
  ASSUME TypeOK, NEW s \in Stream, NEW end \in Response, CloseWrites(s, end),
         UNCHANGED <<kind, caller, requests>>
  PROVE  WireOK'
<1>1. PICK begin \in Unchecked(BeginMaybe(s)), sent \in Unchecked(<<end>>) :
        Publish(Reply(s), begin \o sent)
  BY DEF CloseWrites
<1>2. begin \in Seq(Response) /\ sent \in Seq(Response)
  <2>1. BeginMaybe(s) \in Seq(Response) /\ <<end>> \in Seq(Response) /\ <<>> \in Seq(Response)
    BY BeginMaybeTyped
  <2> QED
    BY <1>1, <2>1, Zenon DEF Unchecked
<1>3. begin \o sent \in Seq(Response)
  BY <1>2, ConcatProperties
<1> QED
  BY <1>1, <1>3, StreamParts, PublishTyped

\* statsBegin, from processCall or processData.
LEMMA StatsBeginTyped ==
  ASSUME TypeOK, NEW s \in Stream, NEW t, Take(s, t),
         NEW next \in {"spawn", "push"}, StatsBegin(s, next)
  PROVE  TypeOK'
<1>1. FramesOK' /\ Head(inbox[s]) \in Request
  BY TakeTyped DEF StatsBegin, TypeOK, FramesOK
<1>2. StatsOK' /\ GoroutinesOK'
  <2>1. CASE /\ beginOnce' = [beginOnce EXCEPT ![s] = TRUE]
             /\ events' = [events EXCEPT ![s] = Append(@, "Begin")]
             /\ Holding(s, "begun")
    <3>1. Append(events[s], "Begin") \in Seq({"Begin", "End"})
      BY DEF TypeOK, StatsOK
    <3>2. events' \in [Stream -> Seq({"Begin", "End"})]
      BY <2>1, <3>1 DEF TypeOK, StatsOK
    <3> QED
      BY <1>1, <2>1, <3>2
         DEF StatsBegin, Holding, TypeOK, StatsOK, GoroutinesOK, WorkerPC
  <2>2. CASE Holding(s, next) /\ UNCHANGED <<beginOnce, events>>
    BY <1>1, <2>2 DEF StatsBegin, Holding, TypeOK, StatsOK, GoroutinesOK, WorkerPC
  <2> QED
    BY <2>1, <2>2 DEF StatsBegin
<1> QED
  BY <1>1, <1>2 DEF StatsBegin, TypeOK, WireOK, AdminOK, StreamsOK, wireVars, adminVars

\* The worker.
LEMMA WorkerTyped ==
  ASSUME TypeOK, NEW s \in Stream, Worker(s)
  PROVE  TypeOK'
<1>1. CASE WorkerExit(s)
  <2>1. GoroutinesOK'
    BY <1>1 DEF WorkerExit, Goto, TypeOK, GoroutinesOK, WorkerPC
  <2> QED
    BY <1>1, <2>1 DEF WorkerExit, TypeOK, WireOK, AdminOK, FramesOK, StatsOK, StreamsOK,
                      wireVars, adminVars, frameVars, statsVars
<1>2. CASE ProcessCallUnimplemented(s)
  <2>1. WireOK'
    BY <1>2, FrameTypes, 0 \in Nat, CloseWritesTyped DEF ProcessCallUnimplemented
  <2>2. FramesOK'
    BY <1>2, TakeTyped DEF ProcessCallUnimplemented, TypeOK, FramesOK
  <2>3. StreamsOK' /\ GoroutinesOK'
    BY <1>2 DEF ProcessCallUnimplemented, Goto, TypeOK, StreamsOK, GoroutinesOK, WorkerPC, Teardown
  <2> QED
    BY <1>2, <2>1, <2>2, <2>3
       DEF ProcessCallUnimplemented, TypeOK, AdminOK, StatsOK, adminVars, statsVars
<1>3. CASE ProcessCall(s)
  BY <1>3, StatsBeginTyped DEF ProcessCall
<1>4. CASE SetStatsBegun(s)
  <2>1. StatsOK' /\ GoroutinesOK'
    BY <1>4 DEF SetStatsBegun, Goto, TypeOK, StatsOK, GoroutinesOK, WorkerPC
  <2> QED
    BY <1>4, <2>1 DEF SetStatsBegun, TypeOK, WireOK, AdminOK, FramesOK, StreamsOK,
                      wireVars, adminVars, frameVars
<1>5. CASE SpawnHandler(s)
  <2>1. GoroutinesOK'
    BY <1>5, FrameTypes, 0 \in Nat
       DEF SpawnHandler, Loop, TypeOK, GoroutinesOK, WorkerPC, HandlerPC
  <2> QED
    BY <1>5, <2>1 DEF SpawnHandler, TypeOK, WireOK, AdminOK, FramesOK, StatsOK, StreamsOK,
                      wireVars, adminVars, frameVars, statsVars
<1>6. CASE ProcessDataDropped(s)
  <2>1. FramesOK'
    BY <1>6, TakeTyped DEF ProcessDataDropped, TypeOK, FramesOK
  <2> QED
    BY <1>6, <2>1 DEF ProcessDataDropped, TypeOK, WireOK, AdminOK, StatsOK, StreamsOK,
                      GoroutinesOK, wireVars, adminVars, statsVars
<1>7. CASE ProcessData(s)
  BY <1>7, StatsBeginTyped DEF ProcessData
<1>8. CASE PushData(s)
  <2>1. /\ recv[s] \in Seq(Nat) /\ worker[s].frame.n \in Nat
    BY DEF TypeOK, FramesOK, GoroutinesOK, Request
  <2>2. /\ Append(recv[s], worker[s].frame.n) \in Seq(Nat)
        /\ Len(Append(recv[s], worker[s].frame.n)) <= RecvCap
    BY <1>8, <2>1, ServerAssumption DEF PushData
  <2>3. FramesOK'
    BY <1>8, <2>2 DEF PushData, HandOver, TypeOK, FramesOK
  <2>4. GoroutinesOK'
    BY <1>8, FrameTypes, 0 \in Nat DEF PushData, HandOver, Loop, TypeOK, GoroutinesOK, WorkerPC
  <2> QED
    BY <1>8, <2>3, <2>4 DEF PushData, HandOver, TypeOK, WireOK, AdminOK, StatsOK, StreamsOK,
                            wireVars, adminVars, statsVars
<1>9. CASE ProcessHalfClose(s)
  <2>1. recvClosed' \in [Stream -> BOOLEAN]
    BY <1>9 DEF ProcessHalfClose, TypeOK, FramesOK
  <2>2. FramesOK'
    BY <1>9, <2>1, TakeTyped DEF ProcessHalfClose
  <2> QED
    BY <1>9, <2>2 DEF ProcessHalfClose, TypeOK, WireOK, AdminOK, StatsOK, StreamsOK,
                      GoroutinesOK, wireVars, adminVars, statsVars
<1>10. CASE ProcessAbort(s)
  <2>1. FramesOK'
    BY <1>10, TakeTyped DEF ProcessAbort, TypeOK, FramesOK
  <2>2. GoroutinesOK'
    BY <1>10 DEF ProcessAbort, Goto, TypeOK, GoroutinesOK, WorkerPC, Teardown
  <2> QED
    BY <1>10, <2>1, <2>2 DEF ProcessAbort, TypeOK, WireOK, AdminOK, StatsOK, StreamsOK,
                             wireVars, adminVars, statsVars
<1>11. CASE ProcessPing(s)
  <2>1. FramesOK'
    BY <1>11, TakeTyped DEF ProcessPing, TypeOK, FramesOK
  <2>2. <<Frame("Pong", 0)>> \in Seq(Response)
    BY FrameTypes, 0 \in Nat
  <2>3. WireOK'
    BY <1>11, <2>2, StreamParts, PublishTyped DEF ProcessPing
  <2> QED
    BY <1>11, <2>1, <2>3 DEF ProcessPing, TypeOK, AdminOK, StatsOK, StreamsOK,
                             GoroutinesOK, adminVars, statsVars
<1>12. CASE WorkerFinalize(s)
  <2>0. /\ worker[s].pc \in Teardown /\ UNCHANGED handler
        /\ Loop(s) \/ Goto(s, AfterStep(worker[s].pc, "idle"))
    BY <1>12, Zenon DEF WorkerFinalize
  <2>1. StatsOK' /\ StreamsOK'
    BY <1>12, FinalizeTyped DEF WorkerFinalize
  <2>2. AfterStep(worker[s].pc, "idle") \in WorkerPC
    BY <2>0 DEF AfterStep, WorkerPC, Teardown
  <2>3. GoroutinesOK'
    <3>1. CASE Loop(s)
      BY <2>0, <3>1, FrameTypes, 0 \in Nat DEF Loop, TypeOK, GoroutinesOK, WorkerPC
    <3>2. CASE Goto(s, AfterStep(worker[s].pc, "idle"))
      BY <2>0, <2>2, <3>2 DEF Goto, TypeOK, GoroutinesOK
    <3> QED
      BY <2>0, <3>1, <3>2
  <2> QED
    BY <1>12, <2>1, <2>3 DEF WorkerFinalize, TypeOK, WireOK, AdminOK, FramesOK,
                             wireVars, adminVars, frameVars
<1> QED
  BY <1>1, <1>2, <1>3, <1>4, <1>5, <1>6, <1>7, <1>8, <1>9, <1>10, <1>11, <1>12 DEF Worker

\* A step of the handler that only moves its pc.
LEMMA HandlerStepTyped ==
  ASSUME TypeOK, NEW s \in Stream, NEW pc \in HandlerPC, HandlerStep(s, pc)
  PROVE  TypeOK'
<1>1. GoroutinesOK'
  BY DEF HandlerStep, TypeOK, GoroutinesOK
<1> QED
  BY <1>1 DEF HandlerStep, TypeOK, WireOK, AdminOK, FramesOK, StatsOK, StreamsOK,
              wireVars, adminVars, frameVars, statsVars

\* A message leaves the recv channel for the handler.
LEMMA ReceiveTyped ==
  ASSUME TypeOK, NEW s \in Stream, NEW pc \in HandlerPC, recv[s] # <<>>,
         recv' = [recv EXCEPT ![s] = Tail(@)],
         handler' = [handler EXCEPT ![s].got = Append(@, Head(recv[s])), ![s].pc = pc],
         UNCHANGED <<wireVars, adminVars, gen, dispatcher, inbox, recvClosed, statsVars, streams,
                     ctxDone, hasBegun, worker>>
  PROVE  TypeOK'
<1>1. recv[s] \in Seq(Nat) /\ Len(recv[s]) <= RecvCap
  BY DEF TypeOK, FramesOK
<1>2. Head(recv[s]) \in Nat /\ Tail(recv[s]) \in Seq(Nat) /\ Len(Tail(recv[s])) <= RecvCap
  BY <1>1, HeadTailProperties, ServerAssumption
<1>3. FramesOK'
  BY <1>2 DEF TypeOK, FramesOK
<1>4. GoroutinesOK'
  <2>1. Append(handler[s].got, Head(recv[s])) \in Seq(Nat)
    BY <1>2 DEF TypeOK, GoroutinesOK
  <2> QED
    BY <2>1 DEF TypeOK, GoroutinesOK
<1> QED
  BY <1>3, <1>4 DEF TypeOK, WireOK, AdminOK, StatsOK, StreamsOK, wireVars, adminVars, statsVars

\* SendMsg, whether its frames are refused or not.
LEMMA SendTyped ==
  ASSUME TypeOK, NEW s \in Stream, NEW next \in HandlerPC, NEW resume \in {"failed", "exited"},
         SendData(s, next) \/ SendFails(s, resume)
  PROVE  TypeOK'
<1>1. CASE SendData(s, next)
  <2>1. handler[s].sends \in Nat /\ handler[s].sends + 1 \in Nat
    BY DEF TypeOK, GoroutinesOK
  <2>2. Frame("Data", handler[s].sends + 1) \in Response
    BY <2>1, FrameTypes
  <2>3. WireOK'
    BY <1>1, <2>2, StreamParts, BeginMaybeTyped, PublishTyped DEF SendData, Unchecked
  <2>4. StreamsOK'
    BY <1>1 DEF SendData, TypeOK, StreamsOK
  <2>5. GoroutinesOK'
    BY <1>1, <2>1 DEF SendData, TypeOK, GoroutinesOK
  <2> QED
    BY <1>1, <2>3, <2>4, <2>5
       DEF SendData, TypeOK, AdminOK, FramesOK, StatsOK, adminVars, frameVars, statsVars
<1>2. CASE SendFails(s, resume)
  <2>1. <<>> \in Seq(Response) /\ <<Frame("EndErr", 0)>> \in Seq(Response)
    BY FrameTypes, 0 \in Nat
  <2>2. WireOK'
    BY <1>2, <2>1, StreamParts, PublishTyped DEF SendFails, Unchecked
  <2>3. StreamsOK'
    BY <1>2 DEF SendFails, TypeOK, StreamsOK
  <2>4. GoroutinesOK'
    <3>1. /\ handler' = [handler EXCEPT ![s].pc = "once", ![s].resume = resume]
          /\ UNCHANGED worker
      BY <1>2 DEF SendFails
    <3> QED
      BY <3>1 DEF TypeOK, GoroutinesOK, HandlerPC, Teardown
  <2> QED
    BY <1>2, <2>2, <2>3, <2>4
       DEF SendFails, TypeOK, AdminOK, FramesOK, StatsOK, adminVars, frameVars, statsVars
<1> QED
  BY <1>1, <1>2

\* The handler.
LEMMA HandlerTyped ==
  ASSUME TypeOK, NEW s \in Stream, Handler(s)
  PROVE  TypeOK'
<1>0. {"user", "failed", "exited", "close", "ucheck", "usend"} \subseteq HandlerPC
  BY DEF HandlerPC
<1>1. CASE HandlerRecv(s)
  <2>1. handler' = [handler EXCEPT ![s].got = Append(@, Head(recv[s])), ![s].pc = "user"]
    BY <1>1 DEF HandlerRecv, TypeOK, GoroutinesOK
  <2> QED
    BY <1>0, <1>1, <2>1, ReceiveTyped DEF HandlerRecv
<1>2. CASE HandlerSend(s)
  BY <1>0, <1>2, SendTyped DEF HandlerSend
<1>3. CASE HandlerReturns(s)
  BY <1>0, <1>3, HandlerStepTyped DEF HandlerReturns
<1>4. CASE UnaryRecv(s)
  BY <1>0, <1>4, ReceiveTyped, HandlerStepTyped DEF UnaryRecv
<1>5. CASE UnaryCheck(s)
  BY <1>0, <1>5, HandlerStepTyped DEF UnaryCheck
<1>6. CASE UnarySend(s)
  BY <1>0, <1>6, SendTyped DEF UnarySend
<1>7. CASE HandlerClose(s)
  <2>1. EndFrames(s) \subseteq Response
    BY FrameTypes, 0 \in Nat DEF EndFrames
  <2>2. WireOK'
    BY <1>7, <2>1, CloseWritesTyped DEF HandlerClose
  <2>3. StreamsOK'
    BY <1>7 DEF HandlerClose, TypeOK, StreamsOK
  <2>4. GoroutinesOK'
    BY <1>7 DEF HandlerClose, TypeOK, GoroutinesOK, HandlerPC, Teardown
  <2> QED
    BY <1>7, <2>2, <2>3, <2>4
       DEF HandlerClose, TypeOK, AdminOK, FramesOK, StatsOK, adminVars, frameVars, statsVars
<1>8. CASE HandlerFinalize(s)
  <2>1. StatsOK' /\ StreamsOK'
    BY <1>8, FinalizeTyped DEF HandlerFinalize
  <2>2. AfterStep(handler[s].pc, handler[s].resume) \in HandlerPC
    BY <1>8 DEF HandlerFinalize, AfterStep, TypeOK, GoroutinesOK, HandlerPC, Teardown
  <2>3. GoroutinesOK'
    BY <1>8, <2>2 DEF HandlerFinalize, TypeOK, GoroutinesOK
  <2> QED
    BY <1>8, <2>1, <2>3 DEF HandlerFinalize, TypeOK, WireOK, AdminOK, FramesOK,
                            wireVars, adminVars, frameVars
<1>9. CASE HandlerSendHeader(s)
  <2>1. BeginMaybe(s) \in Seq(Response) /\ <<>> \in Seq(Response)
    BY FrameTypes, 0 \in Nat, BeginMaybeTyped
  <2>2. WireOK'
    BY <1>9, <2>1, StreamParts, PublishTyped DEF HandlerSendHeader, Unchecked
  <2>3. StreamsOK'
    BY <1>9 DEF HandlerSendHeader, TypeOK, StreamsOK
  <2> QED
    BY <1>9, <2>2, <2>3 DEF HandlerSendHeader, TypeOK, AdminOK, FramesOK, StatsOK, GoroutinesOK,
                            adminVars, frameVars, statsVars
<1> QED
  BY <1>1, <1>2, <1>3, <1>4, <1>5, <1>6, <1>7, <1>8, <1>9 DEF Handler

\* Server.Stop.
LEMMA StopTyped ==
  ASSUME TypeOK, Stop
  PROVE  TypeOK'
<1>1. CASE StopSnapshot
  <2>1. AdminOK'
    BY <1>1 DEF StopSnapshot, StopBegins, InMap, TypeOK, AdminOK
  <2> QED
    BY <1>1, <2>1 DEF StopSnapshot, StopBegins, TypeOK, WireOK, FramesOK, StatsOK, StreamsOK,
                      GoroutinesOK, wireVars, frameVars, statsVars
<1>2. CASE StopNext
  <2>1. AdminOK'
    BY <1>2 DEF StopNext, TypeOK, AdminOK, Teardown
  <2> QED
    BY <1>2, <2>1 DEF StopNext, TypeOK, WireOK, FramesOK, StatsOK, StreamsOK,
                      GoroutinesOK, wireVars, frameVars, statsVars
<1>3. CASE StopFinalize
  <2>1. stopper.at \in Stream
    BY DEF TypeOK, AdminOK
  <2>2. StatsOK' /\ StreamsOK'
    BY <1>3, <2>1, FinalizeTyped DEF StopFinalize
  <2>3. AfterStep(stopper.pc, "loop") \in {"loop"} \cup Teardown
    BY <1>3 DEF StopFinalize, AfterStep, Teardown
  <2>4. AdminOK'
    BY <1>3, <2>1, <2>3, AnyStreamIsStream DEF StopFinalize, TypeOK, AdminOK
  <2> QED
    BY <1>3, <2>2, <2>4 DEF StopFinalize, TypeOK, WireOK, FramesOK, GoroutinesOK,
                            wireVars, frameVars
<1>4. CASE StopCancel
  <2>1. AdminOK'
    BY <1>4 DEF StopCancel, TypeOK, AdminOK
  <2>2. StreamsOK'
    <3>1. \A s \in Stream : (ctxDone[s] \/ Gen(s) <= gen[Reply(s)]) \in BOOLEAN
      OBVIOUS
    <3> QED
      BY <1>4, <3>1 DEF StopCancel, TypeOK, StreamsOK
  <2> QED
    BY <1>4, <2>1, <2>2 DEF StopCancel, TypeOK, WireOK, FramesOK, StatsOK, GoroutinesOK,
                            wireVars, frameVars, statsVars
<1>5. CASE StopUnsubscribe
  <2>1. AdminOK'
    BY <1>5 DEF StopUnsubscribe, TypeOK, AdminOK
  <2> QED
    BY <1>5, <2>1 DEF StopUnsubscribe, TypeOK, WireOK, FramesOK, StatsOK, StreamsOK,
                      GoroutinesOK, wireVars, frameVars, statsVars
<1> QED
  BY <1>1, <1>2, <1>3, <1>4, <1>5 DEF Stop

\* Server.CloseStream.
LEMMA CloseStreamTyped ==
  ASSUME TypeOK, CloseStream
  PROVE  TypeOK'
<1>1. CASE CloseStreamBegin
  <2>1. {Reply(s) : s \in InMap} \subseteq Replies
    BY StreamParts DEF InMap
  <2>2. AdminOK'
    BY <1>1, <2>1 DEF CloseStreamBegin, TypeOK, AdminOK
  <2> QED
    BY <1>1, <2>2 DEF CloseStreamBegin, TypeOK, WireOK, FramesOK, StatsOK, StreamsOK,
                      GoroutinesOK, wireVars, frameVars, statsVars
<1>2. CASE CloseStreamNext
  <2>1. AdminOK'
    <3>1. ASSUME NEW r \in closer.left, closer' = [closer EXCEPT !.left = @ \ {r}]
          PROVE  AdminOK'
      BY <1>2, <3>1 DEF CloseStreamNext, TypeOK, AdminOK
    <3>2. ASSUME NEW r \in closer.left, streams[r] # 0,
                 closer' = [pc |-> "once", left |-> closer.left \ {r}, at |-> <<r, streams[r]>>]
          PROVE  AdminOK'
      <4>1. r \in Replies
        BY DEF TypeOK, AdminOK
      <4>2. <<r, streams[r]>> \in Stream
        BY <3>2, <4>1, ServerAssumption DEF TypeOK, StreamsOK, Stream
      <4> QED
        BY <1>2, <3>2, <4>2 DEF CloseStreamNext, TypeOK, AdminOK, Teardown
    <3>3. ASSUME closer' = [closer EXCEPT !.pc = "closed"]
          PROVE  AdminOK'
      BY <1>2, <3>3 DEF CloseStreamNext, TypeOK, AdminOK
    <3> QED
      BY <1>2, <3>1, <3>2, <3>3 DEF CloseStreamNext
  <2> QED
    BY <1>2, <2>1 DEF CloseStreamNext, TypeOK, WireOK, FramesOK, StatsOK, StreamsOK,
                      GoroutinesOK, wireVars, frameVars, statsVars
<1>3. CASE CloseStreamFinalize
  <2>1. closer.at \in Stream
    BY DEF TypeOK, AdminOK
  <2>2. StatsOK' /\ StreamsOK'
    BY <1>3, <2>1, FinalizeTyped DEF CloseStreamFinalize
  <2>3. AfterStep(closer.pc, "loop") \in {"loop"} \cup Teardown
    BY <1>3 DEF CloseStreamFinalize, AfterStep, Teardown
  <2>4. AdminOK'
    BY <1>3, <2>1, <2>3, AnyStreamIsStream DEF CloseStreamFinalize, TypeOK, AdminOK
  <2> QED
    BY <1>3, <2>2, <2>4 DEF CloseStreamFinalize, TypeOK, WireOK, FramesOK, GoroutinesOK,
                            wireVars, frameVars
<1> QED
  BY <1>1, <1>2, <1>3 DEF CloseStream

-----------------------------------------------------------------------------
\* The initial state is typed.
LEMMA InitTyped == Init => TypeOK
<1> SUFFICES ASSUME Init PROVE TypeOK
  OBVIOUS
<1>1. WireOK
  BY DEF Init, WireOK
<1>2. AdminOK
  BY AnyStreamIsStream DEF Init, AdminOK
<1>3. FramesOK
  <2>1. Len(<<>>) = 0
    OBVIOUS
  <2> QED
    BY <2>1, ServerAssumption DEF Init, FramesOK
<1>4. StatsOK /\ StreamsOK
  BY ServerAssumption DEF Init, StatsOK, StreamsOK
<1>5. GoroutinesOK
  BY FrameTypes, 0 \in Nat DEF Init, GoroutinesOK, WorkerPC, HandlerPC
<1> QED
  BY <1>1, <1>2, <1>3, <1>4, <1>5 DEF TypeOK

\* Every step keeps the types.
LEMMA NextTyped == TypeOK /\ [Next]_vars => TypeOK'
<1> SUFFICES ASSUME TypeOK, [Next]_vars PROVE TypeOK'
  OBVIOUS
<1>1. CASE Caller
  BY <1>1, CallerTyped DEF Caller
<1>2. CASE Server
  BY <1>2, OnMessageTyped, EnqueueTyped, WorkerTyped, HandlerTyped, StopTyped, CloseStreamTyped
     DEF Server
<1>3. CASE UNCHANGED vars
  BY <1>3 DEF vars, wireVars, adminVars, frameVars, statsVars, TypeOK, WireOK, AdminOK, FramesOK,
              StatsOK, StreamsOK, GoroutinesOK
<1> QED
  BY <1>1, <1>2, <1>3 DEF Next

\* Every variable keeps its type and every channel its capacity, for every number
\* of replies, every capacity and every bound.
THEOREM TypeCorrect == Spec => []TypeOK
BY InitTyped, NextTyped, PTL DEF Spec

-----------------------------------------------------------------------------
(* The stats events of a stream                                             *)

\* How the events of a stream follow from its two sync.Once: End is out only
\* behind endOnce, and statsBegun, which End looks at, only behind beginOnce.
StatsFollow(s) ==
  /\ worker[s].pc = "begun" => beginOnce[s]
  /\ \/ ~beginOnce[s] /\ ~statsBegun[s] /\ events[s] = <<>>
     \/ beginOnce[s] /\ events[s] = <<"Begin">>
     \/ beginOnce[s] /\ endOnce[s] /\ events[s] = <<"Begin", "End">>

\* The inductive invariant behind StatsWellFormed.
StatsInv == \A s \in Stream : StatsFollow(s)

\* Steps that leave the events alone and do not emit Begin.
LEMMA StatsUntouched ==
  ASSUME StatsInv, UNCHANGED statsVars,
         \A s \in Stream : worker'[s].pc = "begun" => worker[s].pc = "begun"
  PROVE  StatsInv'
BY DEF StatsInv, StatsFollow, statsVars

\* The events of a stream once its End is appended.
LEMMA BeginThenEnd == Append(<<"Begin">>, "End") = <<"Begin", "End">>
<1> DEFINE s == Append(<<"Begin">>, "End")
           t == <<"Begin", "End">>
           S == {"Begin", "End"}
<1>1. <<"Begin">> \in Seq(S) /\ Len(<<"Begin">>) = 1 /\ <<"Begin">>[1] = "Begin"
  OBVIOUS
<1>2. s \in Seq(S) /\ Len(s) = 2 /\ s[1] = "Begin" /\ s[2] = "End"
  BY <1>1, AppendProperties
<1>3. t \in Seq(S) /\ Len(t) = 2 /\ t[1] = "Begin" /\ t[2] = "End"
  OBVIOUS
<1>4. Len(s) = Len(t) /\ \A i \in 1..Len(s) : s[i] = t[i]
  <2>1. 1..2 = {1, 2}
    OBVIOUS
  <2> HIDE DEF s, t
  <2> QED
    BY <1>2, <1>3, <2>1
<1> HIDE DEF s, t, S
<1>5. s = t
  BY <1>2, <1>3, <1>4, SeqEqual
<1> QED
  BY <1>5 DEF s, t

\* The three steps of finalize: End follows Begin, and only once.
LEMMA FinalizeStats ==
  ASSUME TypeOK, StatsInv, NEW s \in Stream, NEW pc, Finalize(s, pc),
         UNCHANGED <<beginOnce, statsBegun>>,
         \A t \in Stream : worker'[t].pc = "begun" => worker[t].pc = "begun"
  PROVE  StatsInv'
<1>1. CASE EndOnceDo(s)
  <2> SUFFICES ASSUME NEW t \in Stream PROVE StatsFollow(t)'
    BY DEF StatsInv
  <2>1. StatsFollow(t) /\ (worker'[t].pc = "begun" => worker[t].pc = "begun")
    BY DEF StatsInv
  <2>2. CASE t = s /\ ~endOnce[s] /\ statsBegun[s]
    <3>1. beginOnce[s] /\ events[s] = <<"Begin">>
      BY <2>1, <2>2 DEF StatsFollow
    <3>2. events'[s] = <<"Begin", "End">>
      <4>1. events' = [events EXCEPT ![s] = Append(@, "End")]
        BY <1>1, <2>2 DEF EndOnceDo
      <4> QED
        BY <3>1, <4>1, BeginThenEnd DEF TypeOK, StatsOK
    <3>3. endOnce'[s]
      BY <1>1 DEF EndOnceDo, TypeOK, StatsOK
    <3> QED
      BY <2>1, <2>2, <3>1, <3>2, <3>3 DEF StatsFollow
  <2>3. CASE ~(t = s /\ ~endOnce[s] /\ statsBegun[s])
    <3>1. events'[t] = events[t] /\ (endOnce[t] => endOnce'[t])
      BY <1>1, <2>3 DEF EndOnceDo, TypeOK, StatsOK
    <3> QED
      BY <2>1, <3>1 DEF StatsFollow
  <2> QED
    BY <2>2, <2>3
<1>2. CASE UNCHANGED <<endOnce, events>>
  BY <1>2, StatsUntouched DEF statsVars
<1> QED
  BY <1>1, <1>2 DEF Finalize

\* statsBegin: the first of its callers emits Begin.
LEMMA StatsBeginStats ==
  ASSUME TypeOK, StatsInv, NEW s \in Stream, NEW next \in {"spawn", "push"}, StatsBegin(s, next)
  PROVE  StatsInv'
<1>1. CASE /\ ~beginOnce[s]
           /\ beginOnce' = [beginOnce EXCEPT ![s] = TRUE]
           /\ events' = [events EXCEPT ![s] = Append(@, "Begin")]
           /\ Holding(s, "begun")
  <2> SUFFICES ASSUME NEW t \in Stream PROVE StatsFollow(t)'
    BY DEF StatsInv
  <2>1. StatsFollow(t) /\ UNCHANGED <<statsBegun, endOnce>>
    BY DEF StatsInv, StatsBegin
  <2>2. CASE t = s
    <3>1. events[s] = <<>>
      BY <1>1, <2>1, <2>2 DEF StatsFollow
    <3>2. events'[s] = <<"Begin">> /\ beginOnce'[s]
      BY <1>1, <3>1 DEF TypeOK, StatsOK
    <3> QED
      BY <2>2, <3>2 DEF StatsFollow
  <2>3. CASE t # s
    <3>1. worker'[t] = worker[t] /\ beginOnce'[t] = beginOnce[t] /\ events'[t] = events[t]
      BY <1>1, <2>3 DEF Holding, TypeOK, StatsOK, GoroutinesOK
    <3> QED
      BY <2>1, <3>1 DEF StatsFollow
  <2> QED
    BY <2>2, <2>3
<1>2. CASE Holding(s, next) /\ UNCHANGED <<beginOnce, events>>
  <2>1. \A t \in Stream : worker'[t].pc = "begun" => worker[t].pc = "begun"
    BY <1>2 DEF Holding, TypeOK, GoroutinesOK
  <2> QED
    BY <1>2, <2>1, StatsUntouched DEF StatsBegin, statsVars
<1> QED
  BY <1>1, <1>2 DEF StatsBegin

\* The worker.
LEMMA WorkerStats ==
  ASSUME TypeOK, StatsInv, NEW s \in Stream, Worker(s)
  PROVE  StatsInv'
<1>1. ASSUME NEW pc \in WorkerPC \ {"begun"}, Goto(s, pc)
      PROVE  \A t \in Stream : worker'[t].pc = "begun" => worker[t].pc = "begun"
  BY <1>1 DEF Goto, TypeOK, GoroutinesOK
<1>2. ASSUME Loop(s)
      PROVE  \A t \in Stream : worker'[t].pc = "begun" => worker[t].pc = "begun"
  BY <1>2 DEF Loop, TypeOK, GoroutinesOK
<1>3. CASE \/ WorkerExit(s) \/ ProcessCallUnimplemented(s) \/ ProcessAbort(s)
  <2>1. {"exited", "once"} \subseteq WorkerPC \ {"begun"}
    BY DEF WorkerPC, Teardown
  <2> QED
    BY <1>1, <1>3, <2>1, StatsUntouched DEF WorkerExit, ProcessCallUnimplemented, ProcessAbort
<1>4. CASE ProcessCall(s) \/ ProcessData(s)
  BY <1>4, StatsBeginStats DEF ProcessCall, ProcessData
<1>5. CASE SetStatsBegun(s)
  <2>1. {"spawn", "push"} \subseteq WorkerPC \ {"begun"}
    BY DEF WorkerPC
  <2>2. \A t \in Stream : worker'[t].pc = "begun" => worker[t].pc = "begun"
    BY <1>1, <1>5, <2>1 DEF SetStatsBegun
  <2> SUFFICES ASSUME NEW t \in Stream PROVE StatsFollow(t)'
    BY DEF StatsInv
  <2>3. beginOnce[s]
    BY <1>5 DEF SetStatsBegun, StatsInv, StatsFollow
  <2>4. t # s => statsBegun'[t] = statsBegun[t]
    BY <1>5 DEF SetStatsBegun, TypeOK, StatsOK
  <2> QED
    BY <1>5, <2>2, <2>3, <2>4 DEF SetStatsBegun, StatsInv, StatsFollow
<1>6. CASE SpawnHandler(s) \/ PushData(s)
  BY <1>2, <1>6, StatsUntouched DEF SpawnHandler, PushData, HandOver
<1>7. CASE ProcessDataDropped(s) \/ ProcessHalfClose(s) \/ ProcessPing(s)
  BY <1>7, StatsUntouched DEF ProcessDataDropped, ProcessHalfClose, ProcessPing
<1>8. CASE WorkerFinalize(s)
  <2>1. worker[s].pc \in Teardown /\ (Loop(s) \/ Goto(s, AfterStep(worker[s].pc, "idle")))
    BY <1>8, Zenon DEF WorkerFinalize
  <2>2. AfterStep(worker[s].pc, "idle") \in WorkerPC \ {"begun"}
    BY <2>1 DEF AfterStep, WorkerPC, Teardown
  <2>3. \A t \in Stream : worker'[t].pc = "begun" => worker[t].pc = "begun"
    BY <1>1, <1>2, <2>1, <2>2
  <2> QED
    BY <1>8, <2>3, FinalizeStats DEF WorkerFinalize
<1> QED
  BY <1>3, <1>4, <1>5, <1>6, <1>7, <1>8 DEF Worker

\* Every step preserves the invariant.
LEMMA NextStats == TypeOK /\ StatsInv /\ [Next]_vars => StatsInv'
<1> SUFFICES ASSUME TypeOK, StatsInv, [Next]_vars PROVE StatsInv'
  OBVIOUS
<1>1. CASE Caller
  BY <1>1, StatsUntouched
     DEF Caller, CallerCall, CallerData, CallerCloseSend, CallerAborts, CallerPings, CallerWrites
<1>2. ASSUME NEW r \in Replies, OnMessage(r) PROVE StatsInv'
  <2>1. \A s \in Stream : worker'[s].pc = "begun" => worker[s].pc = "begun"
    <3>1. \/ worker' = worker
          \/ worker' = [worker EXCEPT ![<<r, gen[r] + 1>>].pc = "idle"]
      BY <1>2 DEF OnMessage
    <3> QED
      BY <3>1 DEF TypeOK, GoroutinesOK
  <2> QED
    BY <1>2, <2>1, StatsUntouched DEF OnMessage
<1>3. CASE Enqueue
  BY <1>3, StatsUntouched DEF Enqueue, EnqueueFrame
<1>4. ASSUME NEW s \in Stream, Handler(s) PROVE StatsInv'
  <2>1. CASE HandlerFinalize(s)
    BY <2>1, FinalizeStats DEF HandlerFinalize
  <2>2. CASE \/ HandlerRecv(s) \/ HandlerSend(s) \/ HandlerReturns(s) \/ UnaryRecv(s)
             \/ UnaryCheck(s) \/ UnarySend(s) \/ HandlerClose(s) \/ HandlerSendHeader(s)
    BY <2>2, StatsUntouched
       DEF HandlerRecv, HandlerSend, HandlerReturns, UnaryRecv, UnaryCheck, UnarySend,
           HandlerClose, HandlerSendHeader, HandlerStep, SendData, SendFails
  <2> QED
    BY <1>4, <2>1, <2>2 DEF Handler
<1>5. CASE Stop
  <2>1. CASE StopFinalize
    BY <2>1, FinalizeStats DEF StopFinalize, TypeOK, AdminOK
  <2>2. CASE StopSnapshot \/ StopNext \/ StopCancel \/ StopUnsubscribe
    BY <2>2, StatsUntouched DEF StopSnapshot, StopBegins, StopNext, StopCancel, StopUnsubscribe
  <2> QED
    BY <1>5, <2>1, <2>2 DEF Stop
<1>6. CASE CloseStream
  <2>1. CASE CloseStreamFinalize
    BY <2>1, FinalizeStats DEF CloseStreamFinalize, TypeOK, AdminOK
  <2>2. CASE CloseStreamBegin \/ CloseStreamNext
    BY <2>2, StatsUntouched DEF CloseStreamBegin, CloseStreamNext
  <2> QED
    BY <1>6, <2>1, <2>2 DEF CloseStream
<1>7. CASE UNCHANGED vars
  BY <1>7, StatsUntouched DEF vars
<1> QED
  BY <1>1, <1>2, <1>3, <1>4, <1>5, <1>6, <1>7, WorkerStats DEF Next, Server

\* Of every stream object at most one Begin is reported, at most one End, and the
\* End after the Begin, whichever goroutines run finalize and in whatever order.
THEOREM StatsOnce == Spec => []StatsWellFormed
<1>1. Init => StatsInv
  BY DEF Init, StatsInv, StatsFollow
<1>2. StatsInv => StatsWellFormed
  BY DEF StatsInv, StatsFollow, StatsWellFormed
<1> QED
  BY <1>1, <1>2, TypeCorrect, NextStats, PTL DEF Spec

-----------------------------------------------------------------------------
(* Who touches what: a step of one stream's goroutines leaves every other    *)
(* stream object alone.                                                      *)

\* What a stream object holds.
View(s) ==
  <<inbox[s], recv[s], recvClosed[s], hasBegun[s], beginOnce[s], statsBegun[s], endOnce[s],
    events[s], ctxDone[s], worker[s], handler[s]>>

\* The object is the map entry of its reply.
Current(s) == streams[Reply(s)] = Gen(s)

\* Neither Stop nor CloseStream was called.
Calm == stopper.pc = "running" /\ closer.pc = "idle"

\* A stream is known by its reply and its generation.
LEMMA StreamIs ==
  ASSUME NEW s \in Stream
  PROVE  s = <<Reply(s), Gen(s)>>
BY DEF Stream, Reply, Gen

\* finalize of one stream, seen from another.
LEMMA FinalizeAside ==
  ASSUME TypeOK, NEW s \in Stream, NEW pc, Finalize(s, pc), NEW t \in Stream, t # s
  PROVE  UNCHANGED <<endOnce[t], events[t], ctxDone[t]>>
BY DEF Finalize, EndOnceDo, TypeOK, StatsOK, StreamsOK

\* finalize touches the map in its last step only.
LEMMA FinalizeMap ==
  ASSUME NEW s \in Stream, NEW pc, Finalize(s, pc)
  PROVE  UNCHANGED streams \/ (pc = "remove" /\ Remove(Reply(s)))
BY DEF Finalize

\* A step of the worker.
LEMMA WorkerAside ==
  ASSUME TypeOK, NEW s \in Stream, Worker(s)
  PROVE  /\ UNCHANGED <<kind, caller, requests, adminVars, gen, dispatcher>>
         /\ UNCHANGED streams \/ (worker[s].pc = "remove" /\ Remove(Reply(s)))
         /\ \A t \in Stream : t # s => UNCHANGED View(t)
<1> USE DEF View, frameVars, statsVars, wireVars
<1>0. /\ worker \in [Stream -> [pc : WorkerPC, frame : Request]]
      /\ handler \in [Stream -> [pc : HandlerPC, sends : Nat, got : Seq(Nat),
                                 resume : {"failed", "exited"}]]
      /\ inbox \in [Stream -> Seq(Request)] /\ recv \in [Stream -> Seq(Nat)]
      /\ recvClosed \in [Stream -> BOOLEAN] /\ hasBegun \in [Stream -> BOOLEAN]
      /\ statsBegun \in [Stream -> BOOLEAN] /\ beginOnce \in [Stream -> BOOLEAN]
      /\ events \in [Stream -> Seq({"Begin", "End"})]
  BY DEF TypeOK, FramesOK, StatsOK, StreamsOK, GoroutinesOK
<1>1. CASE WorkerExit(s)
  BY <1>0, <1>1 DEF WorkerExit, Goto
<1>2. CASE ProcessCallUnimplemented(s)
  BY <1>0, <1>2 DEF ProcessCallUnimplemented, Goto, Take
<1>3. CASE ProcessCall(s)
  BY <1>0, <1>3 DEF ProcessCall, StatsBegin, Holding, Take
<1>4. CASE SetStatsBegun(s)
  BY <1>0, <1>4 DEF SetStatsBegun, Goto
<1>5. CASE SpawnHandler(s)
  BY <1>0, <1>5 DEF SpawnHandler, Loop
<1>6. CASE ProcessDataDropped(s)
  BY <1>0, <1>6 DEF ProcessDataDropped, Take
<1>7. CASE ProcessData(s)
  BY <1>0, <1>7 DEF ProcessData, StatsBegin, Holding, Take
<1>8. CASE PushData(s)
  BY <1>0, <1>8 DEF PushData, HandOver, Loop
<1>9. CASE ProcessHalfClose(s)
  BY <1>0, <1>9 DEF ProcessHalfClose, Take
<1>10. CASE ProcessAbort(s)
  BY <1>0, <1>10 DEF ProcessAbort, Take, Goto
<1>11. CASE ProcessPing(s)
  BY <1>0, <1>11 DEF ProcessPing, Take
<1>12. CASE WorkerFinalize(s)
  <2>1. /\ Finalize(s, worker[s].pc)
        /\ Loop(s) \/ Goto(s, AfterStep(worker[s].pc, "idle"))
        /\ UNCHANGED <<wireVars, adminVars, frameVars, beginOnce, statsBegun, hasBegun, handler>>
    BY <1>12, Zenon DEF WorkerFinalize
  <2>2. \A t \in Stream : t # s => worker'[t] = worker[t]
    BY <1>0, <2>1 DEF Loop, Goto
  <2> QED
    BY <2>1, <2>2, FinalizeAside, FinalizeMap
<1> QED
  BY <1>1, <1>2, <1>3, <1>4, <1>5, <1>6, <1>7, <1>8, <1>9, <1>10, <1>11, <1>12 DEF Worker

\* A step of the handler.
LEMMA HandlerAside ==
  ASSUME TypeOK, NEW s \in Stream, Handler(s)
  PROVE  /\ UNCHANGED <<kind, caller, requests, adminVars, gen, dispatcher>>
         /\ UNCHANGED <<inbox, recvClosed, beginOnce, statsBegun, worker>>
         /\ UNCHANGED streams \/ (handler[s].pc = "remove" /\ Remove(Reply(s)))
         /\ \A t \in Stream : t # s => UNCHANGED View(t)
         /\ handler[s].pc # "none" /\ handler'[s].pc # "none"
<1> USE DEF View, frameVars, statsVars, wireVars
<1>0. /\ handler \in [Stream -> [pc : HandlerPC, sends : Nat, got : Seq(Nat),
                                 resume : {"failed", "exited"}]]
      /\ recv \in [Stream -> Seq(Nat)] /\ hasBegun \in [Stream -> BOOLEAN]
  BY DEF TypeOK, FramesOK, StreamsOK, GoroutinesOK
<1>1. CASE HandlerRecv(s)
  BY <1>0, <1>1 DEF HandlerRecv
<1>2. CASE HandlerSendHeader(s)
  BY <1>0, <1>2 DEF HandlerSendHeader
<1>3. CASE HandlerSend(s)
  BY <1>0, <1>3 DEF HandlerSend, SendData, SendFails
<1>4. CASE HandlerReturns(s)
  BY <1>0, <1>4 DEF HandlerReturns, HandlerStep
<1>5. CASE UnaryRecv(s)
  BY <1>0, <1>5 DEF UnaryRecv, HandlerStep
<1>6. CASE UnaryCheck(s)
  BY <1>0, <1>6 DEF UnaryCheck, HandlerStep
<1>7. CASE UnarySend(s)
  BY <1>0, <1>7 DEF UnarySend, SendData, SendFails
<1>8. CASE HandlerClose(s)
  BY <1>0, <1>8 DEF HandlerClose
<1>9. CASE HandlerFinalize(s)
  <2>1. AfterStep(handler[s].pc, handler[s].resume) # "none" /\ handler[s].pc # "none"
    BY <1>0, <1>9 DEF HandlerFinalize, AfterStep, Teardown
  <2>2. /\ Finalize(s, handler[s].pc)
        /\ handler' = [handler EXCEPT ![s].pc = AfterStep(@, handler[s].resume)]
        /\ UNCHANGED <<wireVars, adminVars, frameVars, beginOnce, statsBegun, hasBegun, worker>>
    BY <1>9 DEF HandlerFinalize
  <2> QED
    BY <1>0, <2>1, <2>2, FinalizeAside, FinalizeMap
<1> QED
  BY <1>1, <1>2, <1>3, <1>4, <1>5, <1>6, <1>7, <1>8, <1>9 DEF Handler

\* onMessage finds the object, or the object it creates is the next generation.
LEMMA OnMessageCases ==
  ASSUME TypeOK, NEW r \in Replies, OnMessage(r)
  PROVE  \E s \in Stream :
           /\ Reply(s) = r /\ streams'[r] = Gen(s) /\ dispatcher' = <<s, Head(requests[r])>>
           /\ dispatcher = <<>> /\ requests[r] # <<>> /\ requests' = [requests EXCEPT ![r] = Tail(@)]
           /\ UNCHANGED <<kind, caller, responses, adminVars, inbox, recv, recvClosed, statsVars,
                          hasBegun, handler>>
           /\ \/ Current(s) /\ UNCHANGED <<gen, streams, ctxDone, worker>>
              \/ /\ streams[r] = 0 /\ Gen(s) = gen[r] + 1
                 /\ gen' = [gen EXCEPT ![r] = @ + 1] /\ gen[r] + 1 <= MaxGen
                 /\ streams' = [streams EXCEPT ![r] = Gen(s)]
                 /\ ctxDone' = [ctxDone EXCEPT ![s] = serverDone]
                 /\ worker' = [worker EXCEPT ![s].pc = "idle"]
<1>1. CASE /\ streams[r] # 0
           /\ dispatcher' = <<<<r, streams[r]>>, Head(requests[r])>>
           /\ UNCHANGED <<gen, streams, ctxDone, worker>>
  <2>1. <<r, streams[r]>> \in Stream
    BY <1>1, ServerAssumption DEF TypeOK, StreamsOK, Stream
  <2> QED
    BY <1>1, <2>1 DEF OnMessage, Reply, Gen, Current
<1>2. CASE /\ streams[r] = 0 /\ gen[r] < MaxGen
           /\ gen' = [gen EXCEPT ![r] = @ + 1]
           /\ streams' = [streams EXCEPT ![r] = gen[r] + 1]
           /\ ctxDone' = [ctxDone EXCEPT ![<<r, gen[r] + 1>>] = StreamContextDone]
           /\ worker' = [worker EXCEPT ![<<r, gen[r] + 1>>].pc = "idle"]
           /\ dispatcher' = <<<<r, gen[r] + 1>>, Head(requests[r])>>
  <2>1. <<r, gen[r] + 1>> \in Stream /\ gen[r] + 1 <= MaxGen
    BY <1>2, ServerAssumption DEF TypeOK, FramesOK, Stream
  <2>2. streams'[r] = gen[r] + 1
    BY <1>2 DEF TypeOK, StreamsOK
  <2> QED
    BY <1>2, <2>1, <2>2 DEF OnMessage, Reply, Gen, StreamContextDone
<1> QED
  BY <1>1, <1>2 DEF OnMessage

\* enqueue puts the frame in the inbox of its stream, or drops it when that one is done.
LEMMA EnqueueCases ==
  ASSUME TypeOK, Enqueue
  PROVE  \E s \in Stream : \E f \in Request :
           /\ dispatcher = <<s, f>> /\ dispatcher' = <<>>
           /\ UNCHANGED <<wireVars, adminVars, gen, recv, recvClosed, statsVars, streams, ctxDone,
                          hasBegun, worker, handler>>
           /\ \A t \in Stream : t # s => inbox'[t] = inbox[t]
           /\ inbox'[s] = Append(inbox[s], f) \/ (ctxDone[s] /\ inbox'[s] = inbox[s])
<1>1. PICK s \in Stream, f \in Request : dispatcher = <<s, f>>
  BY DEF Enqueue, TypeOK, FramesOK
<1> QED
  BY <1>1 DEF Enqueue, EnqueueFrame, TypeOK, FramesOK

\* A step of Stop.
LEMMA StopAside ==
  ASSUME TypeOK, Stop
  PROVE  /\ UNCHANGED <<wireVars, closer, frameVars, beginOnce, statsBegun, hasBegun, worker, handler>>
         /\ stopper'.pc # "running"
         /\ UNCHANGED <<streams, endOnce, events>> \/ StopFinalize
<1>1. stopper \in [pc : {"running", "loop", "cancelled", "stopped"} \cup Teardown,
                   left : SUBSET Stream, at : Stream]
  BY DEF TypeOK, AdminOK
<1>2. CASE StopSnapshot
  BY <1>1, <1>2 DEF StopSnapshot, StopBegins, statsVars
<1>3. CASE StopNext
  BY <1>1, <1>3 DEF StopNext, statsVars
<1>4. CASE StopFinalize
  BY <1>1, <1>4 DEF StopFinalize, AfterStep
<1>5. CASE StopCancel
  BY <1>1, <1>5 DEF StopCancel, statsVars
<1>6. CASE StopUnsubscribe
  BY <1>1, <1>6 DEF StopUnsubscribe, statsVars
<1> QED
  BY <1>2, <1>3, <1>4, <1>5, <1>6 DEF Stop

\* A step of CloseStream.
LEMMA CloseAside ==
  ASSUME TypeOK, CloseStream
  PROVE  /\ UNCHANGED <<wireVars, serverDone, subscribed, stopper, snapBegun, frameVars,
                        beginOnce, statsBegun, hasBegun, worker, handler>>
         /\ closer'.pc # "idle"
         /\ UNCHANGED <<streams, endOnce, events, ctxDone>> \/ CloseStreamFinalize
<1>1. closer \in [pc : {"idle", "loop", "closed"} \cup Teardown, left : SUBSET Replies, at : Stream]
  BY DEF TypeOK, AdminOK
<1>2. CASE CloseStreamBegin
  BY <1>1, <1>2 DEF CloseStreamBegin, statsVars
<1>3. CASE CloseStreamNext
  BY <1>1, <1>3 DEF CloseStreamNext, statsVars
<1>4. CASE CloseStreamFinalize
  BY <1>1, <1>4 DEF CloseStreamFinalize, AfterStep
<1> QED
  BY <1>2, <1>3, <1>4 DEF CloseStream

-----------------------------------------------------------------------------
(* A stream object is blank until onMessage creates it                       *)

\* Nothing happened to it.
Blank(s) ==
  /\ inbox[s] = <<>> /\ recv[s] = <<>> /\ ~recvClosed[s] /\ ~hasBegun[s]
  /\ ~beginOnce[s] /\ ~statsBegun[s] /\ ~endOnce[s] /\ ~ctxDone[s]
  /\ worker[s].pc = "none" /\ handler[s].pc = "none" /\ handler[s].got = <<>>

\* The dispatcher, Stop or CloseStream has it at hand.
Visited(s) ==
  \/ dispatcher # <<>> /\ dispatcher[1] = s
  \/ s \in stopper.left
  \/ stopper.pc \in Teardown /\ stopper.at = s
  \/ closer.pc \in Teardown /\ closer.at = s

\* It was not created.
Unborn(s) == Gen(s) > gen[Reply(s)]

BirthInv ==
  /\ \A r \in Replies : streams[r] <= gen[r]
  /\ \A s \in Stream : Unborn(s) => Blank(s) /\ ~Visited(s)

\* A step that creates no object keeps to those there are.
LEMMA BirthKept ==
  ASSUME BirthInv, gen' = gen, \A r \in Replies : streams'[r] \in {streams[r], 0}, TypeOK,
         \A s \in Stream : Unborn(s) => UNCHANGED View(s) /\ (Visited(s)' => Visited(s))
  PROVE  BirthInv'
<1>1. \A r \in Replies : streams'[r] <= gen'[r]
  BY DEF BirthInv, TypeOK, FramesOK
<1>2. ASSUME NEW s \in Stream, Unborn(s)'
      PROVE  (Blank(s) /\ ~Visited(s))'
  <2>1. Unborn(s)
    BY <1>2 DEF Unborn
  <2>2. Blank(s) /\ ~Visited(s) /\ UNCHANGED View(s) /\ ~Visited(s)'
    BY <2>1 DEF BirthInv
  <2> QED
    BY <2>2 DEF Blank, View
<1> QED
  BY <1>1, <1>2 DEF BirthInv

\* What remove does to the map.
LEMMA RemoveMap ==
  ASSUME TypeOK, NEW s \in Stream, UNCHANGED streams \/ Remove(Reply(s))
  PROVE  /\ \A r \in Replies : streams'[r] \in {streams[r], 0}
         /\ \A r \in Replies : r # Reply(s) => streams'[r] = streams[r]
         /\ Remove(Reply(s)) => streams'[Reply(s)] = 0
BY StreamParts DEF Remove, TypeOK, StreamsOK

\* Every step preserves the invariant.
LEMMA NextBirth == TypeOK /\ BirthInv /\ [Next]_vars => BirthInv'
<1> SUFFICES ASSUME TypeOK, BirthInv, [Next]_vars PROVE BirthInv'
  OBVIOUS
<1>a. \A s \in Stream : worker[s].pc # "none" \/ handler[s].pc # "none" => ~Unborn(s)
  BY DEF BirthInv, Blank
<1>1. CASE Caller
  BY <1>1, BirthKept
     DEF Caller, CallerCall, CallerData, CallerCloseSend, CallerAborts, CallerPings, CallerWrites,
         View, Visited, frameVars, statsVars, adminVars
<1>2. ASSUME NEW r \in Replies, OnMessage(r) PROVE BirthInv'
  <2>1. PICK s \in Stream :
           /\ Reply(s) = r /\ streams'[r] = Gen(s) /\ dispatcher' = <<s, Head(requests[r])>>
           /\ UNCHANGED <<adminVars, inbox, recv, recvClosed, statsVars, hasBegun, handler>>
           /\ \/ Current(s) /\ UNCHANGED <<gen, streams, ctxDone, worker>>
              \/ /\ Gen(s) = gen[r] + 1
                 /\ gen' = [gen EXCEPT ![r] = @ + 1]
                 /\ streams' = [streams EXCEPT ![r] = Gen(s)]
                 /\ ctxDone' = [ctxDone EXCEPT ![s] = serverDone]
                 /\ worker' = [worker EXCEPT ![s].pc = "idle"]
    BY <1>2, OnMessageCases
  <2>v. \A t \in Stream : t # s => (Visited(t)' => Visited(t))
    BY <2>1 DEF Visited, adminVars
  <2>2. CASE Current(s) /\ UNCHANGED <<gen, streams, ctxDone, worker>>
    <3>1. ~Unborn(s)
      BY <2>2, StreamParts DEF BirthInv, Current, Unborn, TypeOK, FramesOK, StreamsOK
    <3>2. \A t \in Stream : UNCHANGED View(t)
      BY <2>1, <2>2 DEF View, statsVars
    <3> QED
      BY <2>2, <2>v, <3>1, <3>2, BirthKept
  <2>3. CASE /\ Gen(s) = gen[r] + 1
             /\ gen' = [gen EXCEPT ![r] = @ + 1]
             /\ streams' = [streams EXCEPT ![r] = Gen(s)]
             /\ ctxDone' = [ctxDone EXCEPT ![s] = serverDone]
             /\ worker' = [worker EXCEPT ![s].pc = "idle"]
    <3>1. \A q \in Replies : /\ gen[q] \in Nat /\ gen'[q] = IF q = r THEN gen[q] + 1 ELSE gen[q]
                             /\ streams'[q] = IF q = r THEN gen[q] + 1 ELSE streams[q]
      BY <2>3 DEF TypeOK, FramesOK, StreamsOK
    <3>2. \A q \in Replies : streams'[q] <= gen'[q]
      BY <3>1 DEF BirthInv
    <3>3. ASSUME NEW t \in Stream, Unborn(t)' PROVE (Blank(t) /\ ~Visited(t))'
      <4>1. Reply(t) \in Replies /\ Gen(t) \in Nat
        BY StreamParts
      <4>2. Unborn(t) /\ t # s
        BY <2>1, <2>3, <3>1, <3>3, <4>1 DEF Unborn
      <4>3. UNCHANGED View(t)
        BY <2>1, <2>3, <4>2 DEF View, statsVars, TypeOK, StreamsOK, GoroutinesOK
      <4>4. Blank(t) /\ ~Visited(t)
        BY <4>2 DEF BirthInv
      <4> QED
        BY <2>v, <4>2, <4>3, <4>4 DEF Blank, View
    <3> QED
      BY <3>2, <3>3 DEF BirthInv
  <2> QED
    BY <2>1, <2>2, <2>3
<1>3. CASE Enqueue
  <2>1. PICK s \in Stream, f \in Request :
           /\ dispatcher = <<s, f>> /\ dispatcher' = <<>>
           /\ UNCHANGED <<adminVars, gen, recv, recvClosed, statsVars, streams, ctxDone,
                          hasBegun, worker, handler>>
           /\ \A t \in Stream : t # s => inbox'[t] = inbox[t]
    BY <1>3, EnqueueCases
  <2>2. \A t \in Stream : Visited(t)' => Visited(t)
    BY <2>1 DEF Visited, adminVars
  <2>3. ~Unborn(s) /\ \A t \in Stream : t # s => UNCHANGED View(t)
    BY <2>1 DEF BirthInv, Visited, View, statsVars
  <2> QED
    BY <2>1, <2>2, <2>3, BirthKept
<1>4. ASSUME NEW s \in Stream, Worker(s) \/ Handler(s) PROVE BirthInv'
  <2>1. /\ UNCHANGED <<adminVars, gen, dispatcher>>
        /\ UNCHANGED streams \/ Remove(Reply(s))
        /\ \A t \in Stream : t # s => UNCHANGED View(t)
    BY <1>4, WorkerAside, HandlerAside
  <2>2. ~Unborn(s)
    <3>1. worker[s].pc # "none" \/ handler[s].pc # "none"
      BY <1>4, HandlerAside
         DEF Worker, WorkerExit, ProcessCallUnimplemented, ProcessCall, SetStatsBegun, SpawnHandler,
             ProcessDataDropped, ProcessData, PushData, ProcessHalfClose, ProcessAbort, ProcessPing,
             WorkerFinalize, Take, Teardown
    <3> QED
      BY <1>a, <3>1
  <2>3. \A t \in Stream : Visited(t)' => Visited(t)
    BY <2>1 DEF Visited, adminVars
  <2> QED
    BY <2>1, <2>2, <2>3, BirthKept, RemoveMap
<1>5. CASE Stop
  <2>0. stopper \in [pc : {"running", "loop", "cancelled", "stopped"} \cup Teardown,
                     left : SUBSET Stream, at : Stream]
    BY DEF TypeOK, AdminOK
  <2>1. /\ UNCHANGED <<closer, frameVars, beginOnce, statsBegun, hasBegun, worker, handler>>
        /\ UNCHANGED <<streams, endOnce, events>> \/ StopFinalize
    BY <1>5, StopAside
  <2>2. CASE StopSnapshot
    <3>1. \A t \in Stream : t \in InMap => ~Unborn(t)
      BY StreamParts DEF InMap, Unborn, BirthInv, TypeOK, FramesOK, StreamsOK
    <3>2. \A t \in Stream : Unborn(t) => (Visited(t)' => Visited(t))
      BY <2>0, <2>1, <2>2, <3>1 DEF StopSnapshot, StopBegins, Visited, frameVars, Teardown
    <3>3. \A t \in Stream : UNCHANGED View(t)
      BY <2>2 DEF StopSnapshot, StopBegins, View, frameVars, statsVars
    <3> QED
      BY <2>1, <2>2, <3>2, <3>3, BirthKept DEF StopSnapshot, StopBegins, frameVars
  <2>3. CASE StopNext
    <3>2. \A t \in Stream : Visited(t)' => Visited(t)
      BY <2>0, <2>1, <2>3 DEF StopNext, Visited, frameVars, Teardown
    <3>3. \A t \in Stream : UNCHANGED View(t)
      BY <2>3 DEF StopNext, View, frameVars, statsVars
    <3> QED
      BY <2>1, <2>3, <3>2, <3>3, BirthKept DEF StopNext, frameVars
  <2>4. CASE StopFinalize
    <3>1. stopper.at \in Stream /\ stopper.pc \in Teardown /\ Finalize(stopper.at, stopper.pc)
          /\ stopper' = [stopper EXCEPT !.pc = AfterStep(@, "loop"),
                                 !.at = IF AfterStep(stopper.pc, "loop") = "loop" THEN AnyStream ELSE @]
      BY <2>0, <2>4 DEF StopFinalize
    <3>2. ~Unborn(stopper.at)
      BY <3>1 DEF BirthInv, Visited
    <3>3. \A t \in Stream : Visited(t)' => Visited(t)
      <4>1. stopper'.left = stopper.left /\ (stopper'.pc \in Teardown => stopper'.at = stopper.at)
        BY <2>0, <3>1 DEF AfterStep, Teardown
      <4> QED
        BY <2>1, <3>1, <4>1 DEF Visited, frameVars
    <3>4. \A t \in Stream : t # stopper.at => UNCHANGED View(t)
      BY <2>1, <3>1, FinalizeAside DEF View, frameVars
    <3>5. \A r \in Replies : streams'[r] \in {streams[r], 0}
      BY <3>1, FinalizeMap, RemoveMap
    <3> QED
      BY <2>1, <3>2, <3>3, <3>4, <3>5, BirthKept DEF frameVars
  <2>5. CASE StopCancel
    <3>2. \A t \in Stream : Visited(t)' => Visited(t)
      BY <2>0, <2>1, <2>5 DEF StopCancel, Visited, frameVars, Teardown
    <3>3. \A t \in Stream : Unborn(t) => ctxDone'[t] = ctxDone[t]
      <4>1. \A t \in Stream : Unborn(t) => ~(Gen(t) <= gen[Reply(t)])
        BY StreamParts DEF Unborn, TypeOK, FramesOK
      <4>2. \A t \in Stream : Unborn(t) => ctxDone[t] = FALSE
        BY DEF BirthInv, Blank, TypeOK, StreamsOK
      <4>3. \A t \in Stream : ctxDone'[t] = (ctxDone[t] \/ Gen(t) <= gen[Reply(t)])
        BY <2>5 DEF StopCancel
      <4> QED
        BY <4>1, <4>2, <4>3
    <3>4. \A t \in Stream : Unborn(t) => UNCHANGED View(t)
      BY <2>5, <3>3 DEF StopCancel, View, frameVars, statsVars
    <3> QED
      BY <2>1, <2>5, <3>2, <3>4, BirthKept DEF StopCancel, frameVars
  <2>6. CASE StopUnsubscribe
    <3>2. \A t \in Stream : Visited(t)' => Visited(t)
      BY <2>0, <2>1, <2>6 DEF StopUnsubscribe, Visited, frameVars, Teardown
    <3>3. \A t \in Stream : UNCHANGED View(t)
      BY <2>6 DEF StopUnsubscribe, View, frameVars, statsVars
    <3> QED
      BY <2>1, <2>6, <3>2, <3>3, BirthKept DEF StopUnsubscribe, frameVars
  <2> QED
    BY <1>5, <2>2, <2>3, <2>4, <2>5, <2>6 DEF Stop
<1>6. CASE CloseStream
  <2>0. closer \in [pc : {"idle", "loop", "closed"} \cup Teardown, left : SUBSET Replies, at : Stream]
    BY DEF TypeOK, AdminOK
  <2>1. /\ UNCHANGED <<stopper, frameVars, beginOnce, statsBegun, hasBegun, worker, handler>>
        /\ UNCHANGED <<streams, endOnce, events, ctxDone>> \/ CloseStreamFinalize
    BY <1>6, CloseAside
  <2>2. CASE CloseStreamFinalize
    <3>1. closer.at \in Stream /\ closer.pc \in Teardown /\ Finalize(closer.at, closer.pc)
          /\ closer' = [closer EXCEPT !.pc = AfterStep(@, "loop"),
                               !.at = IF AfterStep(closer.pc, "loop") = "loop" THEN AnyStream ELSE @]
      BY <2>0, <2>2 DEF CloseStreamFinalize
    <3>2. ~Unborn(closer.at)
      BY <3>1 DEF BirthInv, Visited
    <3>3. \A t \in Stream : Visited(t)' => Visited(t)
      <4>1. closer'.pc \in Teardown => closer'.at = closer.at
        BY <2>0, <3>1 DEF AfterStep, Teardown
      <4> QED
        BY <2>1, <3>1, <4>1 DEF Visited, frameVars
    <3>4. \A t \in Stream : t # closer.at => UNCHANGED View(t)
      BY <2>1, <3>1, FinalizeAside DEF View, frameVars
    <3>5. \A r \in Replies : streams'[r] \in {streams[r], 0}
      BY <3>1, FinalizeMap, RemoveMap
    <3> QED
      BY <2>1, <3>2, <3>3, <3>4, <3>5, BirthKept DEF frameVars
  <2>3. CASE CloseStreamBegin \/ CloseStreamNext
    <3>1. UNCHANGED <<streams, endOnce, events, ctxDone>>
      BY <2>3 DEF CloseStreamBegin, CloseStreamNext, statsVars
    <3>2. \A t \in Stream : UNCHANGED View(t)
      BY <2>1, <3>1 DEF View, frameVars
    <3>3. \/ closer'.pc \notin Teardown
          \/ \E r \in closer.left : streams[r] # 0 /\ closer'.at = <<r, streams[r]>>
      <4>1. CASE CloseStreamBegin
        BY <2>0, <4>1 DEF CloseStreamBegin, Teardown
      <4>2. CASE CloseStreamNext
        <5>1. CASE \E r \in closer.left : closer' = [closer EXCEPT !.left = @ \ {r}]
          BY <2>0, <4>2, <5>1 DEF CloseStreamNext, Teardown
        <5>2. CASE \E r \in closer.left :
                     /\ streams[r] # 0
                     /\ closer' = [pc |-> "once", left |-> closer.left \ {r}, at |-> <<r, streams[r]>>]
          BY <5>2
        <5>3. CASE closer' = [closer EXCEPT !.pc = "closed"]
          BY <2>0, <5>3 DEF Teardown
        <5> QED
          BY <4>2, <5>1, <5>2, <5>3 DEF CloseStreamNext
      <4> QED
        BY <2>3, <4>1, <4>2
    <3>4. \A t \in Stream : Unborn(t) => (Visited(t)' => Visited(t))
      <4>1. \A r \in Replies : streams[r] <= gen[r]
        BY DEF BirthInv
      <4>2. \A r \in Replies : streams[r] # 0 => ~Unborn(<<r, streams[r]>>)
        BY <4>1 DEF Unborn, Gen, Reply, TypeOK, FramesOK, StreamsOK
      <4>3. closer.left \subseteq Replies
        BY <2>0
      <4> QED
        BY <2>1, <3>3, <4>2, <4>3 DEF Visited, frameVars
    <3> QED
      BY <2>1, <3>1, <3>2, <3>4, BirthKept DEF frameVars
  <2> QED
    BY <1>6, <2>2, <2>3 DEF CloseStream
<1>7. CASE UNCHANGED vars
  BY <1>7, BirthKept DEF vars, View, Visited, frameVars, statsVars, adminVars
<1> QED
  BY <1>1, <1>2, <1>3, <1>4, <1>5, <1>6, <1>7 DEF Next, Server

-----------------------------------------------------------------------------
(* Stop ends what it found begun                                             *)

\* Data and the handler come after statsBegun, which only the worker between Begin and
\* statsBegun has yet to set.
BegunAt(s) ==
  /\ worker[s].pc \in {"spawn", "push"} => statsBegun[s]
  /\ handler[s].pc # "none" => statsBegun[s]
  /\ beginOnce[s] /\ ~statsBegun[s] => worker[s].pc = "begun"

\* A stream still in the map whose endOnce is done has had its End, or has no Begin and is
\* on its way out.  What Stop found begun has had its End, or Stop will get to it.
EndAt(s) ==
  /\ Calm /\ Current(s) /\ endOnce[s] =>
       \/ events[s] = <<"Begin", "End">>
       \/ ~statsBegun[s] /\ worker[s].pc \in {"cancel", "remove"}
  /\ closer.pc = "idle" /\ s \in snapBegun =>
       /\ statsBegun[s]
       /\ endOnce[s] => events[s] = <<"Begin", "End">>
       /\ endOnce[s] \/ s \in stopper.left \/ (stopper.pc = "once" /\ stopper.at = s)

\* The inductive invariant behind StopEndsBegun, with StatsInv and BirthInv.
StopInv ==
  /\ stopper.pc = "running" => snapBegun = {}
  /\ stopper.pc \in {"cancelled", "stopped"} => stopper.left = {}
  /\ \A s \in Stream : BegunAt(s) /\ EndAt(s)

\* A step elsewhere.
LEMMA StopElsewhere ==
  ASSUME StopInv, NEW t \in Stream, UNCHANGED View(t), UNCHANGED <<stopper, closer, snapBegun>>,
         Current(t)' => Current(t)
  PROVE  BegunAt(t)' /\ EndAt(t)'
BY DEF StopInv, BegunAt, EndAt, View, Calm

\* The End of a stream whose statsBegun is set, reported by whoever comes first.
LEMMA EndReported ==
  ASSUME TypeOK, StatsInv, NEW s \in Stream, EndOnceDo(s), statsBegun[s],
         endOnce[s] => events[s] = <<"Begin", "End">>
  PROVE  events'[s] = <<"Begin", "End">>
<1>1. CASE endOnce[s]
  BY <1>1 DEF EndOnceDo
<1>2. CASE ~endOnce[s]
  <2>1. events[s] = <<"Begin">>
    BY <1>2 DEF StatsInv, StatsFollow
  <2>2. events' = [events EXCEPT ![s] = Append(@, "End")]
    BY <1>2 DEF EndOnceDo
  <2> QED
    BY <2>1, <2>2, BeginThenEnd DEF TypeOK, StatsOK
<1> QED
  BY <1>1, <1>2

\* An entry that is removed is not current any more.
LEMMA NotCurrent ==
  ASSUME TypeOK, NEW s \in Stream, NEW t \in Stream, Remove(Reply(s)), Reply(t) = Reply(s)
  PROVE  ~Current(t)'
BY StreamParts DEF Remove, Current, TypeOK, StreamsOK

\* Nor does remove make anything current.
LEMMA CurrentBefore ==
  ASSUME TypeOK, NEW s \in Stream, UNCHANGED streams \/ Remove(Reply(s)), NEW t \in Stream
  PROVE  Current(t)' => Current(t)
<1>1. CASE UNCHANGED streams
  BY <1>1 DEF Current
<1>2. CASE Remove(Reply(s))
  <2>1. Reply(t) # Reply(s) => streams'[Reply(t)] = streams[Reply(t)]
    BY <1>2, StreamParts DEF Remove, TypeOK, StreamsOK
  <2> QED
    BY <1>2, <2>1, NotCurrent DEF Current
<1> QED
  BY <1>1, <1>2

\* The worker, seen from its own stream.
LEMMA WorkerStop ==
  ASSUME TypeOK, StatsInv, StopInv, NEW s \in Stream, Worker(s)
  PROVE  BegunAt(s)' /\ EndAt(s)'
<1>0. /\ worker \in [Stream -> [pc : WorkerPC, frame : Request]]
      /\ handler \in [Stream -> [pc : HandlerPC, sends : Nat, got : Seq(Nat),
                                 resume : {"failed", "exited"}]]
      /\ beginOnce \in [Stream -> BOOLEAN] /\ statsBegun \in [Stream -> BOOLEAN]
      /\ endOnce \in [Stream -> BOOLEAN]
  BY DEF TypeOK, GoroutinesOK, StatsOK
<1>1. UNCHANGED <<stopper, closer, snapBegun>> /\ (Current(s)' => Current(s))
      /\ BegunAt(s) /\ EndAt(s) /\ StatsFollow(s)
  BY WorkerAside, CurrentBefore DEF adminVars, StopInv, StatsInv
<1>2. ASSUME UNCHANGED <<statsVars, handler>>, worker[s].pc \notin {"cancel", "remove"},
             worker'[s].pc \notin {"spawn", "push"} \/ statsBegun[s],
             worker[s].pc # "begun"
      PROVE  BegunAt(s)' /\ EndAt(s)'
  BY <1>1, <1>2 DEF BegunAt, EndAt, Calm, statsVars
<1>3. CASE WorkerExit(s)
  BY <1>0, <1>2, <1>3 DEF WorkerExit, Goto
<1>4. CASE ProcessCallUnimplemented(s)
  BY <1>0, <1>2, <1>4 DEF ProcessCallUnimplemented, Goto, Take
<1>5. CASE ProcessCall(s) \/ ProcessData(s)
  <2>1. PICK next \in {"spawn", "push"} : StatsBegin(s, next) /\ worker[s].pc = "idle"
    BY <1>5 DEF ProcessCall, ProcessData, Take
  <2>2. UNCHANGED <<statsBegun, endOnce, handler, streams>>
    BY <2>1 DEF StatsBegin
  <2>3. CASE /\ ~beginOnce[s]
             /\ beginOnce' = [beginOnce EXCEPT ![s] = TRUE]
             /\ Holding(s, "begun")
    <3>1. worker'[s].pc = "begun"
      BY <1>0, <2>3 DEF Holding
    <3>2. ~statsBegun[s] /\ events[s] = <<>>
      BY <1>1, <2>3 DEF StatsFollow
    <3>3. <<>> # <<"Begin", "End">>
      OBVIOUS
    <3> QED
      BY <1>1, <2>1, <2>2, <3>1, <3>2, <3>3 DEF BegunAt, EndAt, Calm
  <2>4. CASE beginOnce[s] /\ Holding(s, next) /\ UNCHANGED <<beginOnce, events>>
    <3>1. statsBegun[s]
      BY <1>1, <2>1, <2>4 DEF BegunAt
    <3> QED
      BY <1>2, <2>1, <2>2, <2>4, <3>1 DEF statsVars
  <2> QED
    BY <2>1, <2>3, <2>4 DEF StatsBegin
<1>6. CASE SetStatsBegun(s)
  <2>1. worker[s].pc = "begun" /\ statsBegun'[s] /\ UNCHANGED <<beginOnce, endOnce, events, handler>>
    BY <1>0, <1>6 DEF SetStatsBegun
  <2> QED
    BY <1>1, <2>1 DEF BegunAt, EndAt, Calm
<1>7. CASE SpawnHandler(s)
  <2>1. worker[s].pc = "spawn" /\ UNCHANGED statsVars
    BY <1>7 DEF SpawnHandler
  <2>2. statsBegun[s]
    BY <1>1, <2>1 DEF BegunAt
  <2> QED
    BY <1>1, <2>1, <2>2 DEF BegunAt, EndAt, Calm, statsVars
<1>8. CASE ProcessDataDropped(s)
  BY <1>0, <1>2, <1>8 DEF ProcessDataDropped, Take
<1>9. CASE PushData(s)
  <2>1. worker'[s].pc = "idle"
    BY <1>0, <1>9 DEF PushData, HandOver, Loop
  <2> QED
    BY <1>2, <1>9, <2>1 DEF PushData, HandOver
<1>10. CASE ProcessHalfClose(s)
  BY <1>0, <1>2, <1>10 DEF ProcessHalfClose, Take
<1>11. CASE ProcessAbort(s)
  BY <1>0, <1>2, <1>11 DEF ProcessAbort, Take, Goto
<1>12. CASE ProcessPing(s)
  BY <1>0, <1>2, <1>12 DEF ProcessPing, Take
<1>13. CASE WorkerFinalize(s)
  <2>1. /\ worker[s].pc \in Teardown /\ Finalize(s, worker[s].pc)
        /\ \/ Loop(s) /\ AfterStep(worker[s].pc, "idle") = "idle"
           \/ Goto(s, AfterStep(worker[s].pc, "idle"))
        /\ UNCHANGED <<beginOnce, statsBegun, handler>>
    BY <1>13, Zenon DEF WorkerFinalize
  <2>2. worker'[s].pc = AfterStep(worker[s].pc, "idle")
    BY <1>0, <2>1 DEF Loop, Goto
  <2>3. CASE worker[s].pc = "once"
    <3>1. EndOnceDo(s) /\ worker'[s].pc = "cancel" /\ endOnce'[s]
      BY <1>0, <2>1, <2>2, <2>3 DEF Finalize, AfterStep, EndOnceDo
    <3>2. statsBegun[s] /\ ((Calm /\ Current(s)) \/ (closer.pc = "idle" /\ s \in snapBegun))
            => events'[s] = <<"Begin", "End">>
      BY <1>1, <2>3, <3>1, EndReported DEF EndAt
    <3> QED
      BY <1>1, <2>1, <2>3, <3>1, <3>2 DEF BegunAt, EndAt, Calm
  <2>4. CASE worker[s].pc = "cancel"
    <3>1. UNCHANGED <<endOnce, events, streams>> /\ worker'[s].pc = "remove"
      BY <2>1, <2>2, <2>4 DEF Finalize, AfterStep
    <3> QED
      BY <1>1, <2>1, <2>4, <3>1 DEF BegunAt, EndAt, Calm
  <2>5. CASE worker[s].pc = "remove"
    <3>1. UNCHANGED <<endOnce, events>> /\ Remove(Reply(s)) /\ worker'[s].pc = "idle"
      BY <2>1, <2>2, <2>5 DEF Finalize, AfterStep
    <3>2. ~Current(s)'
      BY <3>1, NotCurrent
    <3> QED
      BY <1>1, <2>1, <2>5, <3>1, <3>2 DEF BegunAt, EndAt, Calm
  <2> QED
    BY <2>1, <2>3, <2>4, <2>5 DEF Teardown
<1> QED
  BY <1>3, <1>4, <1>5, <1>6, <1>7, <1>8, <1>9, <1>10, <1>11, <1>12, <1>13 DEF Worker

\* The handler, seen from its own stream.
LEMMA HandlerStop ==
  ASSUME TypeOK, StatsInv, StopInv, NEW s \in Stream, Handler(s)
  PROVE  BegunAt(s)' /\ EndAt(s)'
<1>1. UNCHANGED <<stopper, closer, snapBegun, beginOnce, statsBegun, worker>>
      /\ (Current(s)' => Current(s)) /\ BegunAt(s) /\ EndAt(s) /\ handler[s].pc # "none"
  BY HandlerAside, CurrentBefore DEF adminVars, StopInv
<1>2. statsBegun[s]
  BY <1>1 DEF BegunAt
<1>3. CASE HandlerFinalize(s)
  <2>1. Finalize(s, handler[s].pc)
    BY <1>3 DEF HandlerFinalize
  <2>2. CASE EndOnceDo(s)
    <3>1. ((Calm /\ Current(s)) \/ (closer.pc = "idle" /\ s \in snapBegun))
            => events'[s] = <<"Begin", "End">>
      BY <1>1, <1>2, <2>2, EndReported DEF EndAt
    <3>2. endOnce'[s]
      BY <2>2 DEF EndOnceDo, TypeOK, StatsOK
    <3> QED
      BY <1>1, <1>2, <3>1, <3>2 DEF BegunAt, EndAt, Calm
  <2>3. CASE UNCHANGED <<endOnce, events>>
    BY <1>1, <1>2, <2>3 DEF BegunAt, EndAt, Calm
  <2> QED
    BY <2>1, <2>2, <2>3 DEF Finalize
<1>4. CASE UNCHANGED statsVars
  BY <1>1, <1>2, <1>4 DEF BegunAt, EndAt, Calm, statsVars
<1> QED
  BY <1>3, <1>4
     DEF Handler, HandlerRecv, HandlerSendHeader, HandlerSend, SendData, SendFails, HandlerReturns,
         UnaryRecv, UnaryCheck, UnarySend, HandlerClose, HandlerStep

\* Server.Stop.
LEMMA StopStop ==
  ASSUME TypeOK, StatsInv, StopInv, Stop
  PROVE  StopInv'
<1>0. stopper \in [pc : {"running", "loop", "cancelled", "stopped"} \cup Teardown,
                   left : SUBSET Stream, at : Stream]
  BY DEF TypeOK, AdminOK
<1>1. UNCHANGED <<closer, beginOnce, statsBegun, worker, handler>> /\ ~Calm'
  BY StopAside DEF Calm
<1>2. \A t \in Stream : BegunAt(t)'
  BY <1>1 DEF StopInv, BegunAt
<1>3. CASE StopSnapshot
  <2>1. UNCHANGED statsVars
    BY <1>3 DEF StopSnapshot, StopBegins
  <2>2. stopper.pc = "running" /\ stopper'.pc = "loop" /\ stopper'.left = InMap
        /\ snapBegun' = {s \in InMap : statsBegun[s]}
    BY <1>0, <1>3 DEF StopSnapshot, StopBegins
  <2>3. ASSUME NEW t \in Stream, closer.pc = "idle", t \in snapBegun'
        PROVE  statsBegun[t] /\ (endOnce[t] => events[t] = <<"Begin", "End">>) /\ t \in stopper'.left
    <3>1. EndAt(t) /\ Calm /\ Current(t) /\ statsBegun[t] /\ t \in InMap
      BY <2>2, <2>3 DEF StopInv, Calm, InMap, Current
    <3> QED
      BY <2>2, <3>1 DEF EndAt
  <2>4. \A t \in Stream : EndAt(t)'
    BY <1>1, <2>1, <2>3 DEF EndAt, statsVars
  <2> QED
    BY <1>2, <2>2, <2>4 DEF StopInv
<1>4. CASE StopNext
  <2>1. PICK s \in stopper.left : stopper' = [pc |-> "once", left |-> stopper.left \ {s}, at |-> s]
    BY <1>4 DEF StopNext
  <2>2. UNCHANGED <<snapBegun, statsVars>> /\ stopper.pc = "loop"
    BY <1>4 DEF StopNext
  <2>3. \A t \in Stream : EndAt(t)'
    BY <1>1, <2>1, <2>2 DEF EndAt, statsVars, StopInv
  <2> QED
    BY <1>2, <2>1, <2>3 DEF StopInv
<1>5. CASE StopFinalize
  <2>1. /\ stopper.pc \in Teardown /\ stopper.at \in Stream /\ Finalize(stopper.at, stopper.pc)
        /\ stopper'.pc = AfterStep(stopper.pc, "loop") /\ stopper'.left = stopper.left
        /\ UNCHANGED snapBegun
    BY <1>0, <1>5 DEF StopFinalize
  <2>2. stopper'.pc \notin {"running", "cancelled", "stopped", "once"}
    BY <2>1 DEF AfterStep, Teardown
  <2>3. CASE stopper.pc = "once"
    <3>1. EndOnceDo(stopper.at)
      BY <2>1, <2>3 DEF Finalize
    <3>2. PICK s \in Stream : s = stopper.at
      BY <2>1
    <3>3. \A t \in Stream : t # s => UNCHANGED <<endOnce[t], events[t]>>
      BY <3>1, <3>2 DEF EndOnceDo, TypeOK, StatsOK
    <3>4. endOnce'[s]
      BY <3>1, <3>2 DEF EndOnceDo, TypeOK, StatsOK
    <3>5. closer.pc = "idle" /\ s \in snapBegun =>
            statsBegun[s] /\ events'[s] = <<"Begin", "End">>
      BY <3>1, <3>2, EndReported DEF StopInv, EndAt
    <3>6. ASSUME NEW t \in Stream PROVE EndAt(t)'
      <4>1. EndAt(t)
        BY DEF StopInv
      <4>2. CASE t = s
        BY <1>1, <2>1, <3>4, <3>5, <4>2 DEF EndAt
      <4>3. CASE t # s
        BY <1>1, <2>1, <3>2, <3>3, <4>1, <4>3 DEF EndAt
      <4> QED
        BY <4>2, <4>3
    <3> QED
      BY <1>2, <2>2, <3>6 DEF StopInv
  <2>4. CASE stopper.pc # "once"
    <3>1. UNCHANGED <<endOnce, events>>
      BY <2>1, <2>4 DEF Finalize
    <3>2. \A t \in Stream : EndAt(t)'
      BY <1>1, <2>1, <2>4, <3>1 DEF EndAt, StopInv
    <3> QED
      BY <1>2, <2>2, <3>2 DEF StopInv
  <2> QED
    BY <2>3, <2>4
<1>6. CASE StopCancel \/ StopUnsubscribe
  <2>1. /\ stopper.pc # "once" /\ stopper.left = {} /\ stopper'.left = {}
        /\ stopper'.pc # "running" /\ UNCHANGED <<snapBegun, statsVars>>
    BY <1>0, <1>6 DEF StopCancel, StopUnsubscribe, StopInv
  <2>2. \A t \in Stream : EndAt(t)'
    BY <1>1, <2>1 DEF EndAt, StopInv, statsVars
  <2> QED
    BY <1>2, <2>1, <2>2 DEF StopInv
<1> QED
  BY <1>3, <1>4, <1>5, <1>6 DEF Stop

\* Every step preserves the invariant.
LEMMA NextStop == TypeOK /\ StatsInv /\ BirthInv /\ StopInv /\ [Next]_vars => StopInv'
<1> SUFFICES ASSUME TypeOK, StatsInv, BirthInv, StopInv, [Next]_vars PROVE StopInv'
  OBVIOUS
<1>1. CASE Caller
  BY <1>1, StopElsewhere
     DEF Caller, CallerCall, CallerData, CallerCloseSend, CallerAborts, CallerPings, CallerWrites,
         View, Current, frameVars, statsVars, adminVars, StopInv
<1>2. ASSUME NEW r \in Replies, OnMessage(r) PROVE StopInv'
  <2>1. PICK s \in Stream :
           /\ Reply(s) = r
           /\ UNCHANGED <<adminVars, inbox, recv, recvClosed, statsVars, hasBegun, handler>>
           /\ \/ Current(s) /\ UNCHANGED <<gen, streams, ctxDone, worker>>
              \/ /\ Gen(s) = gen[r] + 1
                 /\ streams' = [streams EXCEPT ![r] = Gen(s)]
                 /\ ctxDone' = [ctxDone EXCEPT ![s] = serverDone]
                 /\ worker' = [worker EXCEPT ![s].pc = "idle"]
    BY <1>2, OnMessageCases
  <2>2. CASE UNCHANGED <<gen, streams, ctxDone, worker>>
    <3>1. \A t \in Stream : UNCHANGED View(t) /\ (Current(t)' => Current(t))
      BY <2>1, <2>2 DEF View, statsVars, Current
    <3> QED
      BY <2>1, <3>1, StopElsewhere DEF StopInv, adminVars
  <2>3. CASE /\ Gen(s) = gen[r] + 1
             /\ streams' = [streams EXCEPT ![r] = Gen(s)]
             /\ ctxDone' = [ctxDone EXCEPT ![s] = serverDone]
             /\ worker' = [worker EXCEPT ![s].pc = "idle"]
    <3>1. Blank(s)
      <4>1. gen[r] \in Nat
        BY DEF TypeOK, FramesOK
      <4> QED
        BY <2>1, <2>3, <4>1 DEF BirthInv, Unborn
    <3>2. worker'[s].pc = "idle"
      BY <2>3 DEF TypeOK, GoroutinesOK
    <3>3. BegunAt(s)' /\ EndAt(s)'
      BY <2>1, <3>1, <3>2 DEF BegunAt, EndAt, Blank, statsVars, adminVars, StopInv
    <3>4. ASSUME NEW t \in Stream, t # s PROVE BegunAt(t)' /\ EndAt(t)'
      <4>1. UNCHANGED View(t)
        BY <2>1, <2>3, <3>4 DEF View, statsVars, TypeOK, StreamsOK, GoroutinesOK
      <4>2. Current(t)' => Current(t)
        <5>1. CASE Reply(t) = r
          <6>1. Gen(t) # Gen(s)
            BY <2>1, <3>4, <5>1, StreamIs
          <6> QED
            BY <2>3, <5>1, <6>1 DEF Current, TypeOK, StreamsOK
        <5>2. CASE Reply(t) # r
          BY <2>3, <5>2, StreamParts DEF Current, TypeOK, StreamsOK
        <5> QED
          BY <5>1, <5>2
      <4> QED
        BY <2>1, <4>1, <4>2, StopElsewhere DEF adminVars
    <3> QED
      BY <2>1, <3>3, <3>4 DEF StopInv, adminVars
  <2> QED
    BY <2>1, <2>2, <2>3
<1>3. CASE Enqueue
  BY <1>3 DEF Enqueue, EnqueueFrame, StopInv, BegunAt, EndAt, Calm, Current, adminVars, statsVars
<1>4. ASSUME NEW s \in Stream, Worker(s) \/ Handler(s) PROVE StopInv'
  <2>1. /\ UNCHANGED <<stopper, closer, snapBegun>>
        /\ UNCHANGED streams \/ Remove(Reply(s))
        /\ \A t \in Stream : t # s => UNCHANGED View(t)
    BY <1>4, WorkerAside, HandlerAside DEF adminVars
  <2>2. \A t \in Stream : Current(t)' => Current(t)
    BY <2>1, CurrentBefore
  <2>3. \A t \in Stream : t # s => BegunAt(t)' /\ EndAt(t)'
    BY <2>1, <2>2, StopElsewhere
  <2>4. BegunAt(s)' /\ EndAt(s)'
    BY <1>4, WorkerStop, HandlerStop
  <2> QED
    BY <2>1, <2>3, <2>4 DEF StopInv
<1>5. CASE CloseStream
  BY <1>5, CloseAside DEF StopInv, BegunAt, EndAt, Calm
<1>6. CASE UNCHANGED vars
  BY <1>6 DEF vars, adminVars, statsVars, StopInv, BegunAt, EndAt, Calm, Current
<1> QED
  BY <1>1, <1>2, <1>3, <1>4, <1>5, <1>6, StopStop DEF Next, Server

\* The objects of the initial state are blank.
LEMMA InitBirth == Init => BirthInv
<1> SUFFICES ASSUME Init PROVE BirthInv
  OBVIOUS
<1>1. \A r \in Replies : streams[r] <= gen[r]
  <2>1. streams = [r \in Replies |-> 0] /\ gen = [r \in Replies |-> 0]
    BY DEF Init
  <2> SUFFICES ASSUME NEW r \in Replies PROVE streams[r] <= gen[r]
    OBVIOUS
  <2>2. streams[r] = 0 /\ gen[r] = 0
    BY <2>1
  <2> QED
    BY <2>2
<1>2. \A s \in Stream : Blank(s) /\ ~Visited(s)
  BY DEF Init, Blank, Visited, Teardown
<1> QED
  BY <1>1, <1>2 DEF BirthInv

\* When Stop has returned, each stream that it found in the map with statsBegun set has
\* had its End, although the stream's own goroutines tear it down at the same time.
THEOREM StopEnds == Spec => []StopEndsBegun
<1>1. Init => StatsInv /\ StopInv
  BY DEF Init, StatsInv, StatsFollow, StopInv, BegunAt, EndAt
<1>2. TypeOK /\ StopInv => StopEndsBegun
  BY DEF StopInv, EndAt, StopEndsBegun, TypeOK, AdminOK
<1> QED
  BY <1>1, <1>2, InitBirth, TypeCorrect, NextStats, NextBirth, NextStop, PTL DEF Spec

-----------------------------------------------------------------------------
(* The Data of a caller on its way to the handler                            *)

\* A frame of the type is in the queue.
Has(q, t) == \E i \in 1..Len(q) : q[i].type = t

\* The dispatcher has a frame of the type at hand for the stream.
InHand(s, t) == dispatcher # <<>> /\ dispatcher[1] = s /\ dispatcher[2].type = t

\* The stream has it, and its worker has not taken it.
Held(s, t) == InHand(s, t) \/ Has(inbox[s], t)

\* What onMessage put into the inbox or is about to, and what is to come.
Near(s) == IF dispatcher # <<>> /\ dispatcher[1] = s THEN Append(inbox[s], dispatcher[2]) ELSE inbox[s]
Far(s) == IF Current(s) THEN requests[Reply(s)] ELSE <<>>
Line(s) == Near(s) \o Far(s)

\* The Data the worker holds, and how many of the caller's left the line.
Holds(s) == worker[s].pc \in {"begun", "push"} /\ worker[s].frame.type = "Data"
Taken(s) == Len(handler[s].got) + Len(recv[s]) + (IF Holds(s) THEN 1 ELSE 0)

\* Those are the first ones, in order: the handler's, the channel's, the worker's.
InOrder(s) ==
  /\ \A i \in 1..Len(handler[s].got) : handler[s].got[i] = i
  /\ \A i \in 1..Len(recv[s]) : recv[s][i] = Len(handler[s].got) + i
  /\ Holds(s) => worker[s].frame.n = Taken(s)

\* The Call is not published or not dispatched.
Uncalled(r) == ~caller[r].called \/ Has(requests[r], "Call")

\* The stream has the caller's Call, had it, or is where it will arrive.
Owner(s) ==
  \/ handler[s].pc # "none"
  \/ worker[s].pc = "spawn"
  \/ worker[s].pc = "begun" /\ worker[s].frame.type = "Call"
  \/ Held(s, "Call")
  \/ Current(s) /\ Uncalled(Reply(s))

\* The rest of the Data is in line behind those taken, with no gap, and until the stream
\* leaves the map with no Data missing.
Fits(s) ==
  /\ Ordered(Line(s), Taken(s), caller[Reply(s)].data, {})
  /\ Current(s) => Whole(Line(s), Taken(s), caller[Reply(s)].data)

PrefixAt(s) == ~ctxDone[s] /\ Owner(s) => InOrder(s) /\ (~recvClosed[s] => Fits(s))

\* The frame a worker processes.
HoldsAt(s) ==
  /\ worker[s].pc = "push" => worker[s].frame.type = "Data"
  /\ worker[s].pc = "begun" => worker[s].frame.type \in {"Call", "Data"}

\* Call is written before the first Data.
CallFirst(q) == \A i, j \in 1..Len(q) : q[i].type = "Call" /\ q[j].type = "Data" => i < j

\* What a caller has published while its Call is not dispatched is all on the wire.
CallerAt(r) ==
  /\ ~caller[r].called =>
       caller[r].data = 0 /\ ~Has(requests[r], "Data") /\ ~Has(requests[r], "Call")
  /\ CallFirst(requests[r])
  /\ Uncalled(r) => /\ Ordered(requests[r], 0, caller[r].data, {})
                    /\ Whole(requests[r], 0, caller[r].data)

\* The inductive invariant behind HandlerSeesPrefix, with BirthInv.
PrefixInv ==
  /\ \A r \in Replies : CallerAt(r)
  /\ \A s \in Stream : PrefixAt(s) /\ HoldsAt(s)

\* What a queue has when it gets a frame or loses its first.
LEMMA HasAppend ==
  ASSUME NEW F, NEW q \in Seq(F), NEW f \in F, NEW t
  PROVE  Has(Append(q, f), t) <=> Has(q, t) \/ f.type = t
<1>1. PICK p \in Seq(F) : p = Append(q, f)
  BY AppendProperties
<1>2. /\ Len(q) \in Nat /\ Len(p) = Len(q) + 1 /\ p[Len(q) + 1] = f
      /\ \A i \in 1..Len(q) : i \in 1..Len(p) /\ p[i] = q[i]
      /\ \A i \in 1..Len(p) : i \in 1..Len(q) \/ i = Len(q) + 1
      /\ Len(q) + 1 \in 1..Len(p)
  BY <1>1, AppendProperties
<1> QED
  BY <1>1, <1>2 DEF Has

\* The same for a queue that loses its first.
LEMMA HasTail ==
  ASSUME NEW F, NEW q \in Seq(F), q # <<>>, NEW t
  PROVE  Has(q, t) <=> Head(q).type = t \/ Has(Tail(q), t)
<1>1. PICK p \in Seq(F) : p = Tail(q)
  BY HeadTailProperties
<1>2. /\ Len(q) \in Nat \ {0} /\ Len(p) = Len(q) - 1 /\ q[1] = Head(q) /\ 1 \in 1..Len(q)
      /\ \A i \in 1..Len(p) : i + 1 \in 1..Len(q) /\ p[i] = q[i + 1]
      /\ \A i \in 1..Len(q) : i = 1 \/ (i - 1 \in 1..Len(p) /\ p[i - 1] = q[i])
  BY <1>1, HeadTailProperties
<1> QED
  BY <1>1, <1>2 DEF Has

\* Call stays in front of the Data.
LEMMA CallFirstAppend ==
  ASSUME NEW F, NEW q \in Seq(F), NEW f \in F, CallFirst(q), f.type = "Call" => ~Has(q, "Data")
  PROVE  CallFirst(Append(q, f))
<1>1. PICK p \in Seq(F) : p = Append(q, f)
  BY AppendProperties
<1>2. /\ Len(q) \in Nat /\ Len(p) = Len(q) + 1 /\ p[Len(q) + 1] = f
      /\ \A i \in 1..Len(q) : p[i] = q[i]
      /\ \A i \in 1..Len(p) : i \in 1..Len(q) \/ i = Len(q) + 1
  BY <1>1, AppendProperties
<1>3. ASSUME NEW i \in 1..Len(p), NEW j \in 1..Len(p), p[i].type = "Call", p[j].type = "Data"
      PROVE  i < j
  <2>1. CASE i \in 1..Len(q) /\ j \in 1..Len(q)
    BY <1>2, <1>3, <2>1 DEF CallFirst
  <2>2. CASE i \in 1..Len(q) /\ j = Len(q) + 1
    BY <1>2, <2>2
  <2>3. CASE i = Len(q) + 1 /\ j \in 1..Len(q)
    BY <1>2, <1>3, <2>3 DEF Has
  <2>4. CASE i = Len(q) + 1 /\ j = Len(q) + 1
    BY <1>2, <1>3, <2>4
  <2> QED
    BY <1>2, <2>1, <2>2, <2>3, <2>4
<1> QED
  BY <1>1, <1>3 DEF CallFirst

\* A queue in front of whose Call no Data is.
LEMMA CallFirstTail ==
  ASSUME NEW F, NEW q \in Seq(F), q # <<>>, CallFirst(q)
  PROVE  /\ CallFirst(Tail(q))
         /\ Head(q).type = "Data" => ~Has(Tail(q), "Call")
<1>1. PICK p \in Seq(F) : p = Tail(q)
  BY HeadTailProperties
<1>2. /\ Len(q) \in Nat \ {0} /\ Len(p) = Len(q) - 1 /\ q[1] = Head(q) /\ 1 \in 1..Len(q)
      /\ \A i \in 1..Len(p) : i \in Nat /\ i + 1 \in 1..Len(q) /\ p[i] = q[i + 1] /\ ~(i + 1 < 1)
      /\ \A i, j \in 1..Len(p) : i + 1 < j + 1 => i < j
  BY <1>1, HeadTailProperties
<1>3. CallFirst(p)
  BY <1>2 DEF CallFirst
<1>4. Head(q).type = "Data" => ~Has(p, "Call")
  BY <1>2 DEF CallFirst, Has
<1> QED
  BY <1>1, <1>3, <1>4

\* A queue that gets a frame, seen from its head.
LEMMA AppendTail ==
  ASSUME NEW F, NEW q \in Seq(F), q # <<>>, NEW f \in F
  PROVE  Append(q, f) # <<>> /\ Head(Append(q, f)) = Head(q) /\ Tail(Append(q, f)) = Append(Tail(q), f)
<1>1. PICK p \in Seq(F) : p = Append(q, f)
  BY AppendProperties
<1>2. PICK u \in Seq(F) : u = Tail(q)
  BY HeadTailProperties
<1>3. PICK v \in Seq(F) : v = Append(u, f)
  BY AppendProperties
<1>4. PICK n \in Nat : Len(q) = n + 1
  <2>1. Len(q) \in Nat \ {0}
    OBVIOUS
  <2>2. Len(q) - 1 \in Nat /\ Len(q) = (Len(q) - 1) + 1
    BY <2>1
  <2> QED
    BY <2>2
<1>5. Len(p) = n + 2 /\ p[n + 2] = f /\ p # <<>> /\ \A i \in 1..(n + 1) : p[i] = q[i]
  BY <1>1, <1>4, AppendProperties
<1>6. Len(u) = n /\ \A i \in 1..n : u[i] = q[i + 1]
  BY <1>2, <1>4, HeadTailProperties
<1>7. Len(v) = n + 1 /\ v[n + 1] = f /\ \A i \in 1..n : v[i] = u[i]
  BY <1>3, <1>6, AppendProperties
<1>8. PICK w \in Seq(F) : w = Tail(p)
  BY <1>5, HeadTailProperties
<1>9. Len(w) = n + 1 /\ (\A i \in 1..(n + 1) : w[i] = p[i + 1]) /\ Head(p) = p[1]
  BY <1>5, <1>8, HeadTailProperties
<1>10. \A i \in 1..(n + 1) : w[i] = v[i]
  <2> SUFFICES ASSUME NEW i \in 1..(n + 1) PROVE w[i] = v[i]
    OBVIOUS
  <2>1. CASE i \in 1..n
    BY <1>5, <1>6, <1>7, <1>9, <2>1
  <2>2. CASE i = n + 1
    BY <1>5, <1>7, <1>9, <2>2
  <2> QED
    BY <2>1, <2>2
<1>11. w = v
  BY <1>7, <1>9, <1>10, SeqEqual
<1>12. Head(p) = Head(q)
  BY <1>4, <1>5, <1>9
<1> QED
  BY <1>1, <1>2, <1>3, <1>5, <1>8, <1>11, <1>12

\* Requests are numbered.
LEMMA RequestsNumbered == Numbers(Request)
BY DEF Numbers, Request

\* The pieces of a line.
LEMMA LineTyped ==
  ASSUME TypeOK, NEW s \in Stream
  PROVE  /\ Near(s) \in Seq(Request) /\ Far(s) \in Seq(Request) /\ Line(s) \in Seq(Request)
         /\ Taken(s) \in Nat /\ caller[Reply(s)].data \in Nat
         /\ inbox[s] \in Seq(Request) /\ requests[Reply(s)] \in Seq(Request)
<1>1. inbox[s] \in Seq(Request) /\ requests[Reply(s)] \in Seq(Request)
      /\ caller[Reply(s)].data \in Nat
  BY StreamParts DEF TypeOK, FramesOK, WireOK
<1>2. dispatcher # <<>> => dispatcher[2] \in Request
  BY DEF TypeOK, FramesOK
<1>3. Near(s) \in Seq(Request) /\ Far(s) \in Seq(Request)
  BY <1>1, <1>2, AppendProperties DEF Near, Far
<1>4. Line(s) \in Seq(Request)
  BY <1>3, ConcatProperties DEF Line
<1>5. Taken(s) \in Nat
  <2>1. recv[s] \in Seq(Nat) /\ handler[s].got \in Seq(Nat)
    BY DEF TypeOK, FramesOK, GoroutinesOK
  <2>2. Len(recv[s]) \in Nat /\ Len(handler[s].got) \in Nat
    BY <2>1
  <2>3. PICK a \in Nat, b \in Nat : a = Len(handler[s].got) /\ b = Len(recv[s])
    BY <2>2
  <2>4. Taken(s) = a + b + 1 \/ Taken(s) = a + b + 0
    BY <2>3 DEF Taken
  <2>5. a + b + 1 \in Nat /\ a + b + 0 \in Nat
    OBVIOUS
  <2> QED
    BY <2>4, <2>5
<1> QED
  BY <1>1, <1>3, <1>4, <1>5

\* A step that neither moves the line nor takes from it.
LEMMA PrefixStays ==
  ASSUME NEW s \in Stream, PrefixAt(s), ctxDone[s] => ctxDone'[s], Owner(s)' => Owner(s),
         UNCHANGED <<recv[s], recvClosed[s], handler[s].got, Holds(s)>>,
         Holds(s) => worker'[s].frame = worker[s].frame,
         Line(s)' = Line(s), caller'[Reply(s)].data = caller[Reply(s)].data, Current(s)' => Current(s)
  PROVE  PrefixAt(s)'
<1> USE DEF Taken
<1>1. Taken(s)' = Taken(s)
  OBVIOUS
<1>2. InOrder(s) => InOrder(s)'
  BY <1>1 DEF InOrder
<1>3. Fits(s) => Fits(s)'
  BY <1>1 DEF Fits
<1> QED
  BY <1>2, <1>3 DEF PrefixAt

\* A stream that leaves the map is cut off from the wire.
LEMMA PrefixCut ==
  ASSUME TypeOK, NEW s \in Stream, NEW t \in Stream, PrefixAt(t), ctxDone[t] => ctxDone'[t],
         UNCHANGED streams \/ Remove(Reply(s)),
         UNCHANGED <<caller, requests, dispatcher, inbox[t], recv[t], recvClosed[t]>>,
         worker'[t] = worker[t] \/ (worker'[t].pc \notin {"spawn", "begun", "push"} /\ ~Holds(t)),
         handler'[t].got = handler[t].got, handler'[t].pc # "none" => handler[t].pc # "none"
  PROVE  PrefixAt(t)'
<1>1. Current(t)' => Current(t)
  BY CurrentBefore
<1>2. Taken(t)' = Taken(t) /\ (InOrder(t) => InOrder(t)') /\ Near(t)' = Near(t)
  <2>1. Holds(t)' = Holds(t) /\ Near(t)' = Near(t) /\ (Holds(t) => worker'[t] = worker[t])
    BY DEF Holds, Near
  <2> QED
    BY <2>1 DEF Taken, InOrder
<1>3. Owner(t)' => Owner(t)
  BY <1>1 DEF Owner, Held, InHand, Uncalled
<1>4. CASE Current(t)' <=> Current(t)
  <2>1. Line(t)' = Line(t)
    BY <1>2, <1>4 DEF Line, Far
  <2> QED
    BY <1>1, <1>3, <2>1, PrefixStays DEF Holds
<1>5. CASE ~Current(t)' /\ Current(t)
  <2>1. Near(t) \in Seq(Request) /\ Far(t) \in Seq(Request) /\ Taken(t) \in Nat
        /\ caller[Reply(t)].data \in Nat
    BY LineTyped
  <2>2. Line(t)' = Near(t)
    BY <1>2, <1>5, <2>1, ConcatEmptySeq DEF Line, Far
  <2>3. Fits(t) => Ordered(Near(t), Taken(t), caller[Reply(t)].data, {})
    BY <2>1, OrderedPrefix DEF Fits, Line
  <2>4. Fits(t) => Fits(t)'
    BY <1>2, <1>5, <2>2, <2>3 DEF Fits
  <2> QED
    BY <1>2, <1>3, <2>4 DEF PrefixAt
<1> QED
  BY <1>1, <1>4, <1>5

\* A frame that is published goes to the end of the line of the stream in the map.
LEMMA LineGrows ==
  ASSUME TypeOK, NEW t \in Stream, NEW f \in Request,
         requests' = [requests EXCEPT ![Reply(t)] = Append(@, f)],
         UNCHANGED <<dispatcher, inbox, streams>>
  PROVE  Line(t)' = IF Current(t) THEN Append(Line(t), f) ELSE Line(t)
<1>1. Near(t)' = Near(t) /\ Current(t)' = Current(t)
  BY DEF Near, Current
<1>2. CASE Current(t)
  <2>1. PICK A \in Seq(Request), B \in Seq(Request) : A = Near(t) /\ B = Far(t)
    BY LineTyped
  <2>2. Far(t)' = Append(B, f)
    BY <1>1, <1>2, <2>1, StreamParts DEF Far, TypeOK, WireOK
  <2>3. A \o Append(B, f) = Append(A \o B, f)
    BY Joined
  <2> QED
    BY <1>1, <1>2, <2>1, <2>2, <2>3 DEF Line
<1>3. CASE ~Current(t)
  BY <1>1, <1>3 DEF Line, Far
<1> QED
  BY <1>2, <1>3

\* The next frame of a caller fits the end of its line.
LEMMA NextFits ==
  ASSUME NEW L \in Seq(Request), NEW f \in Request, NEW a \in Nat, NEW top \in Nat, NEW now,
         f.type # "Data" => now = top, f.type = "Data" => f.n = top + 1 /\ now = top + 1,
         Ordered(L, a, top, {}), Whole(L, a, top)
  PROVE  Ordered(Append(L, f), a, now, {}) /\ Whole(Append(L, f), a, now)
<1>1. CASE f.type # "Data"
  BY <1>1, RequestsNumbered, OrderedAppend
<1>2. CASE f.type = "Data"
  <2>1. \A i \in 1..Len(L) : L[i].type \notin {}
    OBVIOUS
  <2>2. "Data" \notin {} /\ f.n = top + 1 /\ now = top + 1
    BY <1>2
  <2>3. Ordered(Append(L, f), a, top + 1, {}) /\ Whole(Append(L, f), a, top + 1)
    BY <1>2, <2>1, <2>2, RequestsNumbered, OrderedAppend, Zenon
  <2> QED
    BY <2>2, <2>3
<1> QED
  BY <1>1, <1>2

\* What a caller publishes keeps its Data in order, on the wire and in every line.
LEMMA CallerPrefix ==
  ASSUME TypeOK, PrefixInv, NEW r \in Replies, NEW f \in Request,
         requests' = [requests EXCEPT ![r] = Append(@, f)],
         \A q \in Replies : q # r => caller'[q] = caller[q],
         caller'[r].called = (caller[r].called \/ f.type = "Call"),
         f.type = "Call" => ~caller[r].called,
         f.type # "Data" => caller'[r].data = caller[r].data,
         f.type = "Data" => caller[r].called /\ f.n = caller[r].data + 1 /\ caller'[r].data = caller[r].data + 1,
         UNCHANGED <<dispatcher, inbox, streams, ctxDone, recv, recvClosed, worker, handler>>
  PROVE  PrefixInv'
<1>0. /\ requests[r] \in Seq(Request) /\ requests'[r] = Append(requests[r], f)
      /\ caller[r].data \in Nat /\ caller[r].called \in BOOLEAN
      /\ \A q \in Replies : q # r => requests'[q] = requests[q]
  BY DEF TypeOK, WireOK
<1>1. CallerAt(r) /\ (Uncalled(r)' => Uncalled(r))
  <2>1. Has(requests'[r], "Call") <=> Has(requests[r], "Call") \/ f.type = "Call"
    BY <1>0, HasAppend
  <2> QED
    BY <1>0, <2>1 DEF PrefixInv, Uncalled
<1>2. CallerAt(r)'
  <2>1. \A t : Has(requests'[r], t) <=> Has(requests[r], t) \/ f.type = t
    BY <1>0, HasAppend
  <2>2. CallFirst(requests'[r])
    BY <1>0, <1>1, CallFirstAppend DEF CallerAt
  <2>3. ~caller'[r].called =>
          caller'[r].data = 0 /\ ~Has(requests'[r], "Data") /\ ~Has(requests'[r], "Call")
    BY <1>0, <1>1, <2>1 DEF CallerAt
  <2>4. Uncalled(r)' => /\ Ordered(requests'[r], 0, caller'[r].data, {})
                        /\ Whole(requests'[r], 0, caller'[r].data)
    <3>1. Uncalled(r)' => Ordered(requests[r], 0, caller[r].data, {}) /\ Whole(requests[r], 0, caller[r].data)
      BY <1>1 DEF CallerAt
    <3> QED
      BY <1>0, <3>1, NextFits
  <2> QED
    BY <2>2, <2>3, <2>4 DEF CallerAt
<1>3. ASSUME NEW q \in Replies, q # r PROVE CallerAt(q)'
  BY <1>0, <1>3 DEF PrefixInv, CallerAt, Uncalled
<1>4. ASSUME NEW t \in Stream PROVE PrefixAt(t)' /\ HoldsAt(t)'
  <2>1. PrefixAt(t) /\ HoldsAt(t) /\ HoldsAt(t)' /\ Reply(t) \in Replies
    BY StreamParts DEF PrefixInv, HoldsAt
  <2>2. Owner(t)' => Owner(t)
    BY <1>0, <1>1, <2>1 DEF Owner, Held, InHand, Current, Uncalled
  <2>3. Current(t)' = Current(t) /\ Holds(t)' = Holds(t)
    BY DEF Current, Holds
  <2>4. CASE Reply(t) # r
    <3>1. Line(t)' = Line(t)
      BY <1>0, <2>1, <2>4 DEF Line, Near, Far, Current
    <3> QED
      BY <2>1, <2>2, <2>3, <2>4, <3>1, PrefixStays
  <2>5. CASE Reply(t) = r
    <3>1. Line(t)' = IF Current(t) THEN Append(Line(t), f) ELSE Line(t)
      BY <2>5, LineGrows
    <3>2. /\ Line(t) \in Seq(Request) /\ Taken(t) \in Nat
      BY LineTyped
    <3>3. Taken(t)' = Taken(t) /\ (InOrder(t) => InOrder(t)')
      BY DEF Taken, Holds, InOrder
    <3>4. PICK L \in Seq(Request), a \in Nat : L = Line(t) /\ a = Taken(t)
      BY <3>2
    <3>5. CASE Current(t)
      <4>1. Fits(t) => Ordered(L, a, caller[r].data, {}) /\ Whole(L, a, caller[r].data)
        BY <2>5, <3>4, <3>5 DEF Fits
      <4>2. Fits(t) => Ordered(Append(L, f), a, caller'[r].data, {}) /\ Whole(Append(L, f), a, caller'[r].data)
        BY <1>0, <4>1, NextFits
      <4>3. Fits(t) => Fits(t)'
        BY <2>5, <3>1, <3>3, <3>4, <3>5, <4>2 DEF Fits
      <4> QED
        BY <2>1, <2>2, <3>3, <4>3 DEF PrefixAt
    <3>6. CASE ~Current(t)
      <4>1. Fits(t) => Ordered(L, a, caller[r].data, {})
        BY <2>5, <3>4 DEF Fits
      <4>2. Fits(t) => Ordered(L, a, caller'[r].data, {})
        BY <1>0, <4>1, RequestsNumbered, OrderedHigher
      <4>3. Fits(t) => Fits(t)'
        BY <2>3, <2>5, <3>1, <3>3, <3>4, <3>6, <4>2 DEF Fits
      <4> QED
        BY <2>1, <2>2, <3>3, <4>3 DEF PrefixAt
    <3> QED
      BY <3>5, <3>6
  <2> QED
    BY <2>1, <2>4, <2>5
<1> QED
  BY <1>2, <1>3, <1>4 DEF PrefixInv

\* onMessage passes the first frame on the wire into the hand of the dispatcher.
LEMMA OnMessagePrefix ==
  ASSUME TypeOK, BirthInv, PrefixInv, NEW r \in Replies, OnMessage(r)
  PROVE  PrefixInv'
<1>1. PICK s \in Stream :
           /\ Reply(s) = r /\ streams'[r] = Gen(s) /\ dispatcher' = <<s, Head(requests[r])>>
           /\ dispatcher = <<>> /\ requests[r] # <<>> /\ requests' = [requests EXCEPT ![r] = Tail(@)]
           /\ UNCHANGED <<caller, inbox, recv, recvClosed, handler>>
           /\ \/ Current(s) /\ UNCHANGED <<gen, streams, ctxDone, worker>>
              \/ /\ streams[r] = 0 /\ Gen(s) = gen[r] + 1
                 /\ streams' = [streams EXCEPT ![r] = Gen(s)]
                 /\ ctxDone' = [ctxDone EXCEPT ![s] = serverDone]
                 /\ worker' = [worker EXCEPT ![s].pc = "idle"]
  BY OnMessageCases
<1>2. PICK B \in Seq(Request) : B = requests[r]
  BY DEF TypeOK, WireOK
<1>3. B # <<>> /\ Head(B) \in Request /\ Tail(B) \in Seq(Request) /\ requests'[r] = Tail(B)
      /\ \A q \in Replies : q # r => requests'[q] = requests[q]
  BY <1>1, <1>2, HeadTailProperties DEF TypeOK, WireOK
<1>4. PICK h \in Request, T \in Seq(Request) : h = Head(B) /\ T = Tail(B)
  BY <1>3
<1>5. \A t : Has(B, t) <=> h.type = t \/ Has(T, t)
  BY <1>3, <1>4, HasTail
<1>6. CallerAt(r) /\ (Uncalled(r)' => Uncalled(r))
  BY <1>1, <1>2, <1>3, <1>4, <1>5 DEF PrefixInv, Uncalled
<1>7. CallerAt(r)'
  <2>1. CallFirst(T) /\ (h.type = "Data" => ~Has(T, "Call"))
    BY <1>2, <1>3, <1>4, <1>6, CallFirstTail DEF CallerAt
  <2>2. Uncalled(r)' => h.type # "Data"
    BY <1>1, <1>2, <1>3, <1>4, <1>5, <1>6, <2>1 DEF CallerAt, Uncalled
  <2>3. caller[r].data \in Nat
    BY DEF TypeOK, WireOK
  <2>4. Uncalled(r)' => Ordered(T, 0, caller[r].data, {}) /\ Whole(T, 0, caller[r].data)
    BY <1>2, <1>3, <1>4, <1>6, <2>2, <2>3, RequestsNumbered, OrderedTail DEF CallerAt
  <2> QED
    BY <1>1, <1>2, <1>3, <1>4, <1>5, <1>6, <2>1, <2>4 DEF CallerAt
<1>8. ASSUME NEW q \in Replies, q # r PROVE CallerAt(q)'
  BY <1>1, <1>3, <1>8 DEF PrefixInv, CallerAt, Uncalled
<1>9. ASSUME NEW t \in Stream, t # s PROVE PrefixAt(t)' /\ HoldsAt(t)'
  <2>1. PrefixAt(t) /\ HoldsAt(t) /\ Reply(t) \in Replies
    BY StreamParts DEF PrefixInv
  <2>2. UNCHANGED <<ctxDone[t], worker[t]>>
    BY <1>1, <1>9 DEF TypeOK, StreamsOK, GoroutinesOK
  <2>3. Current(t)' = Current(t) /\ (Reply(t) = r => ~Current(t))
    <3>1. CASE Reply(t) = r
      <4>1. Gen(t) # Gen(s) /\ Gen(t) # 0
        <5>1. t = <<Reply(t), Gen(t)>> /\ s = <<Reply(s), Gen(s)>>
          BY StreamIs
        <5>2. Gen(t) # Gen(s)
          BY <1>1, <1>9, <3>1, <5>1
        <5> QED
          BY <5>2, StreamParts
      <4> QED
        BY <1>1, <3>1, <4>1 DEF Current
    <3>2. CASE Reply(t) # r
      BY <1>1, <2>1, <3>2 DEF Current, TypeOK, StreamsOK
    <3> QED
      BY <3>1, <3>2
  <2>4. Near(t)' = Near(t) /\ Far(t)' = Far(t)
    BY <1>1, <1>3, <1>9, <2>1, <2>3 DEF Near, Far
  <2>5. Owner(t)' => Owner(t)
    BY <1>1, <1>3, <1>9, <2>1, <2>2, <2>3 DEF Owner, Held, InHand, Uncalled
  <2>6. Line(t)' = Line(t)
    BY <2>4 DEF Line
  <2> QED
    BY <1>1, <2>1, <2>2, <2>3, <2>5, <2>6, PrefixStays DEF Holds, HoldsAt
<1>10. PrefixAt(s)' /\ HoldsAt(s)'
  <2>1. PrefixAt(s) /\ HoldsAt(s) /\ Current(s)'
    BY <1>1 DEF PrefixInv, Current
  <2>2. PICK A \in Seq(Request) : A = inbox[s]
    BY LineTyped
  <2>3. Near(s) = A /\ Near(s)' = Append(A, h) /\ Far(s)' = T
    BY <1>1, <1>2, <1>3, <1>4, <2>1, <2>2 DEF Near, Far
  <2>4. Line(s)' = A \o B
    <3>1. Append(A, h) \o T = A \o B
      BY <1>3, <1>4, Joined
    <3> QED
      BY <2>3, <3>1 DEF Line
  <2>5. CASE Current(s) /\ UNCHANGED <<gen, streams, ctxDone, worker>>
    <3>1. Line(s)' = Line(s)
      BY <1>1, <1>2, <2>3, <2>4, <2>5 DEF Line, Far
    <3>2. Owner(s)' => Owner(s)
      BY <1>1, <1>2, <1>4, <1>5, <1>6, <2>5 DEF Owner, Held, InHand, Uncalled
    <3> QED
      BY <1>1, <2>1, <2>5, <3>1, <3>2, PrefixStays DEF Holds, HoldsAt
  <2>6. CASE /\ streams[r] = 0 /\ Gen(s) = gen[r] + 1
             /\ streams' = [streams EXCEPT ![r] = Gen(s)]
             /\ ctxDone' = [ctxDone EXCEPT ![s] = serverDone]
             /\ worker' = [worker EXCEPT ![s].pc = "idle"]
    <3>1. Blank(s)
      <4>1. gen[r] \in Nat
        BY DEF TypeOK, FramesOK
      <4> QED
        BY <1>1, <2>6, <4>1 DEF BirthInv, Unborn
    <3>2. worker'[s].pc = "idle"
      BY <2>6 DEF TypeOK, GoroutinesOK
    <3>3. Taken(s)' = 0 /\ InOrder(s)' /\ HoldsAt(s)'
      BY <1>1, <3>1, <3>2 DEF Taken, InOrder, Holds, HoldsAt, Blank
    <3>4. Line(s)' = B
      BY <2>2, <2>4, <3>1, ConcatEmptySeq DEF Blank
    <3>5. Owner(s)' => Uncalled(r)
      <4>1. ~Has(<<>>, "Call")
        BY DEF Has
      <4>2. InHand(s, "Call")' => Has(B, "Call")
        BY <1>1, <1>2, <1>4, <1>5 DEF InHand
      <4> QED
        BY <1>1, <1>2, <1>6, <3>1, <3>2, <4>1, <4>2 DEF Owner, Held, Blank, Uncalled
    <3>6. Owner(s)' => Fits(s)'
      BY <1>1, <1>2, <1>6, <3>3, <3>4, <3>5 DEF Fits, CallerAt
    <3> QED
      BY <3>3, <3>6 DEF PrefixAt
  <2> QED
    BY <1>1, <2>5, <2>6
<1> QED
  BY <1>7, <1>8, <1>9, <1>10 DEF PrefixInv

\* enqueue leaves the line as it is, or the stream is cancelled.
LEMMA EnqueuePrefix ==
  ASSUME TypeOK, PrefixInv, Enqueue
  PROVE  PrefixInv'
<1>1. PICK s \in Stream, f \in Request :
           /\ dispatcher = <<s, f>> /\ dispatcher' = <<>>
           /\ UNCHANGED <<wireVars, recv, recvClosed, streams, ctxDone, worker, handler>>
           /\ \A t \in Stream : t # s => inbox'[t] = inbox[t]
           /\ inbox'[s] = Append(inbox[s], f) \/ (ctxDone[s] /\ inbox'[s] = inbox[s])
  BY EnqueueCases
<1>2. \A r \in Replies : CallerAt(r)'
  BY <1>1 DEF PrefixInv, CallerAt, Uncalled, wireVars
<1>3. ASSUME NEW t \in Stream PROVE PrefixAt(t)' /\ HoldsAt(t)'
  <2>1. PrefixAt(t) /\ HoldsAt(t) /\ HoldsAt(t)'
    BY <1>1 DEF PrefixInv, HoldsAt
  <2>2. CASE t = s /\ ctxDone[s]
    BY <1>1, <2>1, <2>2 DEF PrefixAt
  <2>3. CASE t # s \/ ~ctxDone[s]
    <3>1. Near(t)' = Near(t)
      BY <1>1, <2>3 DEF Near
    <3>2. Line(t)' = Line(t) /\ Current(t)' = Current(t)
      BY <1>1, <3>1 DEF Line, Far, Current, wireVars
    <3>3. Held(t, "Call")' => Held(t, "Call")
      <4>1. CASE t = s
        <5>1. inbox[s] \in Seq(Request)
          BY LineTyped
        <5>2. Has(Append(inbox[s], f), "Call") <=> Has(inbox[s], "Call") \/ f.type = "Call"
          BY <5>1, HasAppend
        <5> QED
          BY <1>1, <2>3, <4>1, <5>2 DEF Held, InHand
      <4>2. CASE t # s
        BY <1>1, <4>2 DEF Held, InHand
      <4> QED
        BY <4>1, <4>2
    <3>4. Owner(t)' => Owner(t)
      BY <1>1, <3>2, <3>3 DEF Owner, Uncalled, wireVars
    <3> QED
      BY <1>1, <2>1, <3>2, <3>4, PrefixStays DEF Holds, wireVars
  <2> QED
    BY <2>1, <2>2, <2>3
<1> QED
  BY <1>2, <1>3 DEF PrefixInv

\* The worker takes the first frame of the line.
LEMMA TakeLine ==
  ASSUME TypeOK, NEW s \in Stream, NEW t, Take(s, t), UNCHANGED <<dispatcher, streams, requests>>
  PROVE  /\ Line(s) # <<>> /\ Head(Line(s)) = Head(inbox[s]) /\ Line(s)' = Tail(Line(s))
         /\ Held(s, "Call")' => Held(s, "Call")
         /\ t = "Call" => Held(s, "Call")
         /\ Head(inbox[s]) \in Request /\ Head(inbox[s]).type = t
<1>1. PICK q \in Seq(Request) : q = inbox[s]
  BY LineTyped
<1>2. q # <<>> /\ Head(q) \in Request /\ Tail(q) \in Seq(Request) /\ inbox'[s] = Tail(q)
      /\ Head(q).type = t
  BY <1>1, HeadTailProperties DEF Take, TypeOK, FramesOK
<1>3. Near(s) # <<>> /\ Head(Near(s)) = Head(q) /\ Near(s)' = Tail(Near(s))
  <2>1. CASE dispatcher # <<>> /\ dispatcher[1] = s
    <3>1. PICK f \in Request : f = dispatcher[2]
      BY <2>1 DEF TypeOK, FramesOK
    <3> QED
      BY <1>1, <1>2, <2>1, <3>1, AppendTail DEF Near
  <2>2. CASE ~(dispatcher # <<>> /\ dispatcher[1] = s)
    BY <1>1, <1>2, <2>2 DEF Near
  <2> QED
    BY <2>1, <2>2
<1>4. PICK A \in Seq(Request), B \in Seq(Request) : A = Near(s) /\ B = Far(s)
  BY LineTyped
<1>5. A # <<>> => Tail(A \o B) = Tail(A) \o B /\ Head(A \o B) = Head(A) /\ A \o B # <<>>
  <2>1. Head(q) \in Request
    BY <1>2
  <2> QED
    BY <2>1, Joined
<1>6. Far(s)' = B /\ Line(s) = A \o B
  BY <1>4 DEF Far, Current, Line
<1>7. Line(s)' = Tail(A) \o B
  BY <1>3, <1>4, <1>6 DEF Line
<1>8. Has(q, "Call") <=> Head(q).type = "Call" \/ Has(Tail(q), "Call")
  BY <1>2, HasTail
<1> QED
  BY <1>1, <1>2, <1>3, <1>4, <1>5, <1>6, <1>7, <1>8 DEF Held, InHand

\* What is left of the line is the rest.
LEMMA TakeFits ==
  ASSUME TypeOK, NEW s \in Stream, NEW t, Take(s, t), UNCHANGED <<dispatcher, streams, requests, caller>>,
         Fits(s)
  PROVE  /\ t # "Data" /\ Taken(s)' = Taken(s) => Fits(s)'
         /\ t = "Data" => Head(inbox[s]).n = Taken(s) + 1
         /\ t = "Data" /\ Taken(s)' = Taken(s) + 1 => Fits(s)'
<1>1. PICK L \in Seq(Request), a \in Nat, top \in Nat :
        L = Line(s) /\ a = Taken(s) /\ top = caller[Reply(s)].data
  BY LineTyped
<1>2. L # <<>> /\ Head(L) = Head(inbox[s]) /\ Line(s)' = Tail(L) /\ Head(L).type = t
  BY <1>1, TakeLine
<1>3. Ordered(L, a, top, {}) /\ (Current(s) => Whole(L, a, top)) /\ Current(s)' = Current(s)
      /\ caller'[Reply(s)].data = top
  BY <1>1 DEF Fits, Current
<1>4. /\ t # "Data" => Ordered(Tail(L), a, top, {}) /\ (Whole(L, a, top) => Whole(Tail(L), a, top))
      /\ t = "Data" => /\ Head(L).n = a + 1
                       /\ Ordered(Tail(L), a + 1, top, {})
                       /\ (Whole(L, a, top) => Whole(Tail(L), a + 1, top))
  <2>1. /\ Head(L).type # "Data" =>
             Ordered(Tail(L), a, top, {}) /\ (Whole(L, a, top) => Whole(Tail(L), a, top))
        /\ Head(L).type = "Data" =>
             /\ Head(L).n = a + 1
             /\ Ordered(Tail(L), a + 1, top, {}) /\ (Whole(L, a, top) => Whole(Tail(L), a + 1, top))
    BY <1>2, <1>3, RequestsNumbered, OrderedTail
  <2> QED
    BY <1>2, <2>1
<1>5. t # "Data" /\ Taken(s)' = a => Fits(s)'
  BY <1>2, <1>3, <1>4 DEF Fits
<1>6. t = "Data" /\ Taken(s)' = a + 1 => Fits(s)'
  BY <1>2, <1>3, <1>4 DEF Fits
<1> QED
  BY <1>1, <1>2, <1>4, <1>5, <1>6

\* A frame that is not Data is taken.
LEMMA TakeOther ==
  ASSUME TypeOK, NEW s \in Stream, PrefixAt(s), NEW t \in {"Call", "EndOK", "EndErr", "Ping"}, Take(s, t),
         UNCHANGED <<dispatcher, streams, requests, caller, recv, handler, ctxDone>>,
         recvClosed[s] => recvClosed'[s], ~Holds(s)', Owner(s)' => Owner(s)
  PROVE  PrefixAt(s)'
<1>1. ~Holds(s)
  BY DEF Holds, Take
<1>2. Taken(s)' = Taken(s) /\ (InOrder(s) => InOrder(s)')
  BY <1>1 DEF Taken, InOrder
<1>3. Fits(s) => Fits(s)'
  BY <1>2, TakeFits
<1> QED
  BY <1>2, <1>3 DEF PrefixAt

\* The worker, seen from its own stream.
LEMMA WorkerPrefix ==
  ASSUME TypeOK, PrefixInv, NEW s \in Stream, Worker(s)
  PROVE  PrefixAt(s)' /\ HoldsAt(s)'
<1>0. /\ worker \in [Stream -> [pc : WorkerPC, frame : Request]]
      /\ handler \in [Stream -> [pc : HandlerPC, sends : Nat, got : Seq(Nat),
                                 resume : {"failed", "exited"}]]
      /\ recv \in [Stream -> Seq(Nat)] /\ recvClosed \in [Stream -> BOOLEAN]
      /\ ctxDone \in [Stream -> BOOLEAN]
  BY DEF TypeOK, FramesOK, StreamsOK, GoroutinesOK
<1>1. PrefixAt(s) /\ HoldsAt(s) /\ UNCHANGED <<caller, requests, dispatcher>>
  BY WorkerAside DEF PrefixInv
<1> USE DEF frameVars
<1>2. CASE WorkerExit(s)
  <2>1. worker'[s].pc = "exited" /\ worker[s].pc = "idle"
    BY <1>0, <1>2 DEF WorkerExit, Goto
  <2> QED
    BY <1>1, <1>2, <2>1, PrefixCut DEF WorkerExit, Holds, HoldsAt
<1>3. CASE ProcessCallUnimplemented(s)
  <2>1. worker'[s].pc = "once" /\ worker[s].pc = "idle" /\ Take(s, "Call")
        /\ UNCHANGED <<streams, recv, recvClosed, handler, ctxDone>>
    BY <1>0, <1>3 DEF ProcessCallUnimplemented, Goto, Take
  <2>2. Owner(s)
    BY <1>1, <2>1, TakeLine DEF Owner
  <2> QED
    BY <1>1, <2>1, <2>2, TakeOther DEF Holds, HoldsAt
<1>4. CASE ProcessCall(s)
  <2>1. Take(s, "Call") /\ UNCHANGED <<streams, recv, recvClosed, handler, ctxDone>>
        /\ (Holding(s, "begun") \/ Holding(s, "spawn"))
    BY <1>4 DEF ProcessCall, StatsBegin
  <2>2. Owner(s) /\ Head(inbox[s]).type = "Call"
    BY <1>1, <2>1, TakeLine DEF Owner
  <2>3. worker'[s].pc \in {"begun", "spawn"} /\ worker'[s].frame.type = "Call"
    BY <1>0, <2>1, <2>2 DEF Holding
  <2> QED
    BY <1>1, <2>1, <2>2, <2>3, TakeOther DEF Holds, HoldsAt
<1>5. CASE SetStatsBegun(s)
  <2>1. /\ worker[s].pc = "begun" /\ worker'[s].frame = worker[s].frame
        /\ worker'[s].pc = (IF worker[s].frame.type = "Call" THEN "spawn" ELSE "push")
        /\ UNCHANGED <<inbox, recv, recvClosed, streams, ctxDone, handler>>
    BY <1>0, <1>5 DEF SetStatsBegun, Goto
  <2>2. Holds(s)' = Holds(s) /\ HoldsAt(s)'
    BY <1>1, <2>1 DEF Holds, HoldsAt
  <2>3. Line(s)' = Line(s) /\ Current(s)' = Current(s)
    BY <1>1, <2>1 DEF Line, Near, Far, Current
  <2>4. Owner(s)' => Owner(s)
    BY <1>1, <2>1 DEF Owner, Held, InHand, Current, Uncalled
  <2> QED
    BY <1>1, <2>1, <2>2, <2>3, <2>4, PrefixStays
<1>6. CASE SpawnHandler(s)
  <2>1. /\ worker[s].pc = "spawn" /\ worker'[s].pc = "idle" /\ handler'[s].got = handler[s].got
        /\ UNCHANGED <<inbox, recv, recvClosed, streams, ctxDone>>
    BY <1>0, <1>6 DEF SpawnHandler, Loop
  <2>2. ~Holds(s) /\ Holds(s)' = Holds(s) /\ HoldsAt(s)' /\ Owner(s)
    BY <2>1 DEF Holds, HoldsAt, Owner
  <2>3. Line(s)' = Line(s) /\ Current(s)' = Current(s)
    BY <1>1, <2>1 DEF Line, Near, Far, Current
  <2> QED
    BY <1>1, <2>1, <2>2, <2>3, PrefixStays
<1>7. CASE ProcessDataDropped(s)
  <2>1. Take(s, "Data") /\ recvClosed[s] /\ UNCHANGED <<streams, recv, recvClosed, handler, ctxDone, worker>>
    BY <1>7 DEF ProcessDataDropped
  <2>2. Owner(s)' => Owner(s)
    BY <1>1, <2>1, TakeLine DEF Owner, Current, Uncalled
  <2>3. InOrder(s) => InOrder(s)'
    BY <2>1 DEF InOrder, Taken, Holds
  <2> QED
    BY <1>1, <2>1, <2>2, <2>3 DEF PrefixAt, HoldsAt
<1>8. CASE ProcessData(s)
  <2>1. Take(s, "Data") /\ ~recvClosed[s] /\ UNCHANGED <<streams, recv, recvClosed, handler, ctxDone>>
        /\ (Holding(s, "begun") \/ Holding(s, "push"))
    BY <1>8 DEF ProcessData, StatsBegin
  <2>2. Head(inbox[s]).type = "Data" /\ worker[s].pc = "idle" /\ Head(inbox[s]) \in Request
    BY <2>1, <1>1, TakeLine DEF Take
  <2>3. worker'[s].pc \in {"begun", "push"} /\ worker'[s].frame = Head(inbox[s])
    BY <1>0, <2>1 DEF Holding
  <2>4. ~Holds(s) /\ Holds(s)' /\ HoldsAt(s)'
    BY <2>2, <2>3 DEF Holds, HoldsAt
  <2>5. Owner(s)' => Owner(s)
    BY <1>1, <2>1, <2>2, <2>3, TakeLine DEF Owner, Current, Uncalled
  <2>6. Taken(s)' = Taken(s) + 1
    <3>1. recv[s] \in Seq(Nat) /\ handler[s].got \in Seq(Nat)
      BY <1>0
    <3>2. PICK b \in Nat, c \in Nat : b = Len(handler[s].got) /\ c = Len(recv[s])
      BY <3>1
    <3>3. Taken(s) = b + c + 0 /\ Taken(s)' = b + c + 1
      BY <2>1, <2>4, <3>2 DEF Taken
    <3> QED
      BY <3>3
  <2>7. Fits(s) => Fits(s)' /\ worker'[s].frame.n = Taken(s)'
    BY <1>1, <2>1, <2>3, <2>6, TakeFits
  <2>8. InOrder(s) /\ worker'[s].frame.n = Taken(s)' => InOrder(s)'
    BY <2>1 DEF InOrder
  <2> QED
    BY <2>1, <1>1, <2>4, <2>5, <2>7, <2>8 DEF PrefixAt
<1>9. CASE PushData(s)
  <2>1. /\ worker[s].pc = "push" /\ worker'[s].pc = "idle" /\ recv'[s] = Append(recv[s], worker[s].frame.n)
        /\ UNCHANGED <<inbox, recvClosed, streams, ctxDone, handler>>
    BY <1>0, <1>9 DEF PushData, HandOver, Loop
  <2>2. Holds(s) /\ ~Holds(s)' /\ HoldsAt(s)'
    BY <1>1, <2>1 DEF Holds, HoldsAt
  <2>3. Line(s)' = Line(s) /\ Current(s)' = Current(s)
    BY <1>1, <2>1 DEF Line, Near, Far, Current
  <2>4. Owner(s)' => Owner(s)
    BY <1>1, <2>1 DEF Owner, Held, InHand, Current, Uncalled
  <2>5. PICK R \in Seq(Nat), G \in Seq(Nat), n \in Nat : R = recv[s] /\ G = handler[s].got /\ n = worker[s].frame.n
    BY <1>0 DEF Request
  <2>6. PICK b \in Nat, c \in Nat : b = Len(G) /\ c = Len(R)
    BY <2>5
  <2>7. Len(recv'[s]) = c + 1 /\ recv'[s][c + 1] = n /\ \A i \in 1..c : recv'[s][i] = R[i]
    BY <2>1, <2>5, <2>6, AppendProperties
  <2>8. Taken(s) = b + c + 1 /\ Taken(s)' = b + (c + 1) + 0
    BY <2>1, <2>2, <2>5, <2>6, <2>7 DEF Taken
  <2>9. InOrder(s) => InOrder(s)'
    <3> SUFFICES ASSUME InOrder(s) PROVE InOrder(s)'
      OBVIOUS
    <3>1. n = b + c + 1 /\ \A i \in 1..c : R[i] = b + i
      BY <2>2, <2>5, <2>6, <2>8 DEF InOrder
    <3>2. \A i \in 1..(c + 1) : recv'[s][i] = b + i
      <4> SUFFICES ASSUME NEW i \in 1..(c + 1) PROVE recv'[s][i] = b + i
        OBVIOUS
      <4>1. CASE i \in 1..c
        BY <2>7, <3>1, <4>1
      <4>2. CASE i = c + 1
        <5>1. recv'[s][i] = b + c + 1
          BY <2>7, <3>1, <4>2
        <5> QED
          BY <4>2, <5>1
      <4> QED
        BY <4>1, <4>2
    <3> QED
      BY <2>1, <2>2, <2>5, <2>6, <2>7, <3>2 DEF InOrder
  <2>10. Fits(s) => Fits(s)'
    BY <1>1, <2>3, <2>8 DEF Fits
  <2> QED
    BY <1>1, <2>1, <2>2, <2>4, <2>9, <2>10 DEF PrefixAt
<1>10. CASE ProcessHalfClose(s)
  <2>1. Take(s, "EndOK") /\ recvClosed'[s] /\ UNCHANGED <<streams, recv, handler, ctxDone, worker>>
    BY <1>0, <1>10 DEF ProcessHalfClose
  <2>2. (Owner(s)' => Owner(s)) /\ worker[s].pc = "idle"
    BY <1>1, <2>1, TakeLine DEF Owner, Current, Uncalled, Take
  <2> QED
    BY <1>1, <2>1, <2>2, TakeOther DEF Holds, HoldsAt
<1>11. CASE ProcessAbort(s)
  <2>1. Take(s, "EndErr") /\ worker'[s].pc = "once" /\ UNCHANGED <<streams, recv, recvClosed, handler, ctxDone>>
    BY <1>0, <1>11 DEF ProcessAbort, Goto
  <2>2. Owner(s)' => Owner(s)
    BY <1>1, <2>1, TakeLine DEF Owner, Current, Uncalled
  <2> QED
    BY <1>1, <2>1, <2>2, TakeOther DEF Holds, HoldsAt
<1>12. CASE ProcessPing(s)
  <2>1. Take(s, "Ping") /\ UNCHANGED <<streams, recv, recvClosed, handler, ctxDone, worker>>
    BY <1>12 DEF ProcessPing
  <2>2. (Owner(s)' => Owner(s)) /\ worker[s].pc = "idle"
    BY <1>1, <2>1, TakeLine DEF Owner, Current, Uncalled, Take
  <2> QED
    BY <1>1, <2>1, <2>2, TakeOther DEF Holds, HoldsAt
<1>13. CASE WorkerFinalize(s)
  <2>1. /\ worker[s].pc \in Teardown /\ Finalize(s, worker[s].pc)
        /\ \/ Loop(s) \/ Goto(s, AfterStep(worker[s].pc, "idle"))
        /\ UNCHANGED <<frameVars, handler>>
    BY <1>13, Zenon DEF WorkerFinalize
  <2>2. worker'[s].pc \in {"idle", "cancel", "remove"}
    BY <1>0, <2>1 DEF Loop, Goto, AfterStep
  <2>3. (ctxDone[s] => ctxDone'[s]) /\ (UNCHANGED streams \/ Remove(Reply(s)))
    BY <1>0, <2>1 DEF Finalize
  <2>4. ~Holds(s) /\ HoldsAt(s)'
    BY <2>1, <2>2 DEF Holds, HoldsAt, Teardown
  <2> QED
    BY <1>1, <2>1, <2>2, <2>3, <2>4, PrefixCut
<1> QED
  BY <1>2, <1>3, <1>4, <1>5, <1>6, <1>7, <1>8, <1>9, <1>10, <1>11, <1>12, <1>13 DEF Worker

\* A message moves from the channel to the handler.
LEMMA ReceivePrefix ==
  ASSUME TypeOK, NEW s \in Stream, PrefixAt(s), recv[s] # <<>>, handler[s].pc # "none",
         recv' = [recv EXCEPT ![s] = Tail(@)], handler'[s].got = Append(handler[s].got, Head(recv[s])),
         UNCHANGED <<caller, requests, dispatcher, inbox, recvClosed, streams, ctxDone, worker>>
  PROVE  PrefixAt(s)'
<1>1. PICK R \in Seq(Nat), G \in Seq(Nat) : R = recv[s] /\ G = handler[s].got
  BY DEF TypeOK, FramesOK, GoroutinesOK
<1>2. R # <<>> /\ Head(R) = R[1] /\ Head(R) \in Nat /\ Tail(R) \in Seq(Nat) /\ recv'[s] = Tail(R)
      /\ Len(R) \in Nat \ {0}
  BY <1>1, HeadTailProperties DEF TypeOK, FramesOK
<1>3. PICK b \in Nat, c \in Nat : b = Len(G) /\ Len(R) = c + 1
  <2>1. Len(G) \in Nat /\ Len(R) - 1 \in Nat /\ Len(R) = (Len(R) - 1) + 1
    BY <1>2
  <2> QED
    BY <2>1
<1>4. Len(recv'[s]) = c /\ \A i \in 1..c : recv'[s][i] = R[i + 1]
  <2>1. PICK T \in Seq(Nat) : T = Tail(R)
    BY <1>2
  <2>2. Len(T) = Len(R) - 1 /\ \A i \in 1..Len(T) : T[i] = R[i + 1]
    BY <1>2, <2>1, HeadTailProperties
  <2>3. (c + 1) - 1 = c
    OBVIOUS
  <2>4. Len(T) = c
    BY <1>3, <2>2, <2>3
  <2> QED
    BY <1>2, <2>1, <2>2, <2>4
<1>5. /\ Len(handler'[s].got) = b + 1 /\ handler'[s].got[b + 1] = R[1]
      /\ \A i \in 1..b : handler'[s].got[i] = G[i]
  BY <1>1, <1>2, <1>3, AppendProperties
<1>6. Holds(s)' = Holds(s) /\ worker'[s] = worker[s]
  BY DEF Holds
<1>7. Taken(s)' = Taken(s)
  <2>1. b + (c + 1) + 1 = (b + 1) + c + 1 /\ b + (c + 1) + 0 = (b + 1) + c + 0
    OBVIOUS
  <2> QED
    BY <1>1, <1>3, <1>4, <1>5, <1>6, <2>1 DEF Taken
<1>8. InOrder(s) => InOrder(s)'
  <2> SUFFICES ASSUME InOrder(s) PROVE InOrder(s)'
    OBVIOUS
  <2>1. (\A i \in 1..b : G[i] = i) /\ (\A i \in 1..(c + 1) : R[i] = b + i)
        /\ (Holds(s) => worker[s].frame.n = Taken(s))
    BY <1>1, <1>3 DEF InOrder
  <2>2. \A i \in 1..(b + 1) : handler'[s].got[i] = i
    <3> SUFFICES ASSUME NEW i \in 1..(b + 1) PROVE handler'[s].got[i] = i
      OBVIOUS
    <3>0. i \in 1..b \/ i = b + 1
      OBVIOUS
    <3>1. CASE i \in 1..b
      BY <1>5, <2>1, <3>1
    <3>2. CASE i = b + 1
      <4>1. 1 \in 1..(c + 1) /\ R[1] = b + 1
        BY <2>1
      <4> QED
        BY <1>5, <3>2, <4>1
    <3> QED
      BY <3>0, <3>1, <3>2
  <2>3. \A i \in 1..c : recv'[s][i] = (b + 1) + i
    <3> SUFFICES ASSUME NEW i \in 1..c PROVE recv'[s][i] = (b + 1) + i
      OBVIOUS
    <3>1. i + 1 \in 1..(c + 1) /\ b + (i + 1) = (b + 1) + i
      OBVIOUS
    <3> QED
      BY <1>4, <2>1, <3>1
  <2> QED
    BY <1>4, <1>5, <1>6, <1>7, <2>1, <2>2, <2>3 DEF InOrder
<1>9. Fits(s) => Fits(s)'
  <2>1. Line(s)' = Line(s) /\ Current(s)' = Current(s)
    BY DEF Line, Near, Far, Current
  <2> QED
    BY <1>7, <2>1 DEF Fits
<1>10. Owner(s)
  BY DEF Owner
<1> QED
  BY <1>8, <1>9, <1>10 DEF PrefixAt

\* The handler, seen from its own stream.
LEMMA HandlerPrefix ==
  ASSUME TypeOK, PrefixInv, NEW s \in Stream, Handler(s)
  PROVE  PrefixAt(s)' /\ HoldsAt(s)'
<1>0. handler \in [Stream -> [pc : HandlerPC, sends : Nat, got : Seq(Nat),
                                 resume : {"failed", "exited"}]]
      /\ ctxDone \in [Stream -> BOOLEAN]
  BY DEF TypeOK, StreamsOK, GoroutinesOK
<1>1. /\ PrefixAt(s) /\ HoldsAt(s) /\ handler[s].pc # "none"
      /\ UNCHANGED <<caller, requests, dispatcher, inbox, recvClosed, worker>>
      /\ UNCHANGED streams \/ Remove(Reply(s))
  BY HandlerAside DEF PrefixInv
<1>2. HoldsAt(s)'
  BY <1>1 DEF HoldsAt
<1>3. ASSUME recv[s] # <<>>, recv' = [recv EXCEPT ![s] = Tail(@)], UNCHANGED <<streams, ctxDone>>,
             handler'[s].got = Append(handler[s].got, Head(recv[s]))
      PROVE  PrefixAt(s)'
  BY <1>1, <1>3, ReceivePrefix
<1>4. ASSUME UNCHANGED recv, handler'[s].got = handler[s].got, ctxDone[s] => ctxDone'[s]
      PROVE  PrefixAt(s)'
  BY <1>1, <1>4, PrefixCut
<1> USE DEF frameVars
<1>5. CASE HandlerRecv(s)
  BY <1>0, <1>2, <1>3, <1>5 DEF HandlerRecv
<1>6. CASE UnaryRecv(s)
  <2>1. CASE /\ recv[s] # <<>>
             /\ recv' = [recv EXCEPT ![s] = Tail(@)]
             /\ handler' = [handler EXCEPT ![s].got = Append(@, Head(recv[s])), ![s].pc = "ucheck"]
             /\ UNCHANGED <<streams, ctxDone>>
    <3>1. handler'[s].got = Append(handler[s].got, Head(recv[s]))
      BY <1>0, <2>1
    <3> QED
      BY <1>2, <1>3, <2>1, <3>1
  <2>2. CASE HandlerStep(s, "ucheck")
    BY <1>0, <1>2, <1>4, <2>2 DEF HandlerStep
  <2> QED
    BY <1>6, <2>1, <2>2 DEF UnaryRecv
<1>7. CASE HandlerSendHeader(s)
  BY <1>0, <1>2, <1>4, <1>7 DEF HandlerSendHeader
<1>8. CASE HandlerSend(s) \/ UnarySend(s)
  BY <1>0, <1>2, <1>4, <1>8 DEF HandlerSend, UnarySend, SendData, SendFails
<1>9. CASE HandlerReturns(s) \/ UnaryCheck(s)
  BY <1>0, <1>2, <1>4, <1>9 DEF HandlerReturns, UnaryCheck, HandlerStep
<1>10. CASE HandlerClose(s)
  BY <1>0, <1>2, <1>4, <1>10 DEF HandlerClose
<1>11. CASE HandlerFinalize(s)
  <2>1. (ctxDone[s] => ctxDone'[s]) /\ UNCHANGED recv /\ handler'[s].got = handler[s].got
    BY <1>0, <1>11 DEF HandlerFinalize, Finalize
  <2> QED
    BY <1>2, <1>4, <2>1
<1> QED
  BY <1>5, <1>6, <1>7, <1>8, <1>9, <1>10, <1>11 DEF Handler

\* Every step preserves the invariant.
LEMMA NextPrefix == TypeOK /\ BirthInv /\ PrefixInv /\ [Next]_vars => PrefixInv'
<1> SUFFICES ASSUME TypeOK, BirthInv, PrefixInv, [Next]_vars PROVE PrefixInv'
  OBVIOUS
<1>0. ASSUME NEW s \in Stream, UNCHANGED <<caller, requests, dispatcher>>,
             UNCHANGED streams \/ Remove(Reply(s)),
             \A t \in Stream : t # s => PrefixAt(t)' /\ HoldsAt(t)', PrefixAt(s)' /\ HoldsAt(s)'
      PROVE  PrefixInv'
  BY <1>0 DEF PrefixInv, CallerAt, Uncalled
<1>1. ASSUME NEW r \in Replies,
             CallerCall(r) \/ CallerData(r) \/ CallerCloseSend(r) \/ CallerAborts(r) \/ CallerPings(r)
      PROVE  PrefixInv'
  <2>0. /\ caller \in [Replies -> [called : BOOLEAN, half : BOOLEAN, aborted : BOOLEAN,
                                   data : Nat, frames : Nat]]
        /\ caller[r].data + 1 \in Nat
    BY DEF TypeOK, WireOK
  <2>1. CASE CallerCall(r)
    BY <1>1, <2>0, <2>1, FrameTypes, CallerPrefix DEF CallerCall, CallerWrites, Frame, frameVars
  <2>2. CASE CallerData(r)
    BY <1>1, <2>0, <2>2, FrameTypes, CallerPrefix DEF CallerData, CallerWrites, Frame, frameVars
  <2>3. CASE CallerCloseSend(r)
    BY <1>1, <2>0, <2>3, FrameTypes, CallerPrefix DEF CallerCloseSend, CallerWrites, Frame, frameVars
  <2>4. CASE CallerAborts(r)
    BY <1>1, <2>0, <2>4, FrameTypes, CallerPrefix DEF CallerAborts, CallerWrites, Frame, frameVars
  <2>5. CASE CallerPings(r)
    BY <1>1, <2>0, <2>5, FrameTypes, CallerPrefix DEF CallerPings, CallerWrites, Frame, frameVars
  <2> QED
    BY <1>1, <2>1, <2>2, <2>3, <2>4, <2>5
<1>2. ASSUME NEW s \in Stream, Worker(s) \/ Handler(s) PROVE PrefixInv'
  <2>1. /\ UNCHANGED <<caller, requests, dispatcher>>
        /\ UNCHANGED streams \/ Remove(Reply(s))
        /\ \A t \in Stream : t # s => UNCHANGED View(t)
    BY <1>2, WorkerAside, HandlerAside
  <2>2. ASSUME NEW t \in Stream, t # s PROVE PrefixAt(t)' /\ HoldsAt(t)'
    <3>1. PrefixAt(t) /\ HoldsAt(t) /\ UNCHANGED View(t)
      BY <2>1, <2>2 DEF PrefixInv
    <3>2. UNCHANGED <<inbox[t], recv[t], recvClosed[t], ctxDone[t], worker[t], handler[t]>>
      BY <3>1 DEF View
    <3> QED
      BY <2>1, <3>1, <3>2, PrefixCut DEF HoldsAt
  <2> QED
    BY <1>0, <1>2, <2>1, <2>2, WorkerPrefix, HandlerPrefix
<1>3. ASSUME NEW s \in Stream, UNCHANGED <<wireVars, frameVars, worker, handler>>,
             UNCHANGED streams \/ Remove(Reply(s)), \A t \in Stream : ctxDone[t] => ctxDone'[t]
      PROVE  PrefixInv'
  <2>1. ASSUME NEW t \in Stream PROVE PrefixAt(t)' /\ HoldsAt(t)'
    <3>1. PrefixAt(t) /\ HoldsAt(t)
      BY DEF PrefixInv
    <3> QED
      BY <1>3, <3>1, PrefixCut DEF HoldsAt, wireVars, frameVars
  <2> QED
    BY <1>0, <1>3, <2>1 DEF wireVars, frameVars
<1>4. CASE Stop
  <2>0. UNCHANGED <<wireVars, frameVars, worker, handler>> /\ stopper.at \in Stream
    BY <1>4, StopAside DEF TypeOK, AdminOK
  <2>1. CASE StopFinalize
    <3>1. Finalize(stopper.at, stopper.pc)
      BY <2>1 DEF StopFinalize
    <3>2. \A t \in Stream : ctxDone[t] => ctxDone'[t]
      BY <3>1 DEF Finalize, TypeOK, StreamsOK
    <3> QED
      BY <1>3, <2>0, <3>1, <3>2, FinalizeMap
  <2>2. CASE StopSnapshot \/ StopNext \/ StopCancel \/ StopUnsubscribe
    <3>1. UNCHANGED streams /\ \A t \in Stream : ctxDone[t] => ctxDone'[t]
      BY <2>2 DEF StopSnapshot, StopBegins, StopNext, StopCancel, StopUnsubscribe
    <3> QED
      BY <1>3, <2>0, <3>1
  <2> QED
    BY <1>4, <2>1, <2>2 DEF Stop
<1>5. CASE CloseStream
  <2>0. UNCHANGED <<wireVars, frameVars, worker, handler>> /\ closer.at \in Stream
    BY <1>5, CloseAside DEF TypeOK, AdminOK
  <2>1. CASE CloseStreamFinalize
    <3>1. Finalize(closer.at, closer.pc)
      BY <2>1 DEF CloseStreamFinalize
    <3>2. \A t \in Stream : ctxDone[t] => ctxDone'[t]
      BY <3>1 DEF Finalize, TypeOK, StreamsOK
    <3> QED
      BY <1>3, <2>0, <3>1, <3>2, FinalizeMap
  <2>2. CASE CloseStreamBegin \/ CloseStreamNext
    <3>1. UNCHANGED streams /\ \A t \in Stream : ctxDone[t] => ctxDone'[t]
      BY <2>2 DEF CloseStreamBegin, CloseStreamNext
    <3> QED
      BY <1>3, <2>0, <3>1
  <2> QED
    BY <1>5, <2>1, <2>2 DEF CloseStream
<1>6. CASE UNCHANGED vars
  BY <1>3, <1>6, AnyStreamIsStream DEF vars
<1> QED
  BY <1>1, <1>2, <1>4, <1>5, <1>6, OnMessagePrefix, EnqueuePrefix DEF Next, Server, Caller

\* The lines of the initial state are empty.
LEMMA InitPrefix == Init => PrefixInv
<1> SUFFICES ASSUME Init PROVE PrefixInv
  OBVIOUS
<1>1. ~Has(<<>>, "Call") /\ ~Has(<<>>, "Data") /\ CallFirst(<<>>)
  BY DEF Has, CallFirst
<1>2. Ordered(<<>>, 0, 0, {}) /\ Whole(<<>>, 0, 0)
  BY OrderedEmpty
<1>3. ASSUME NEW r \in Replies PROVE CallerAt(r)
  BY <1>1, <1>2 DEF Init, CallerAt
<1>4. ASSUME NEW s \in Stream PROVE PrefixAt(s) /\ HoldsAt(s)
  <2>1. /\ inbox[s] = <<>> /\ recv[s] = <<>> /\ handler[s].got = <<>> /\ worker[s].pc = "none"
        /\ requests[Reply(s)] = <<>> /\ dispatcher = <<>> /\ caller[Reply(s)].data = 0
    BY StreamParts DEF Init
  <2>2. ~Holds(s) /\ HoldsAt(s)
    BY <2>1 DEF Holds, HoldsAt
  <2>3. Taken(s) = 0 /\ InOrder(s)
    BY <2>1, <2>2 DEF Taken, InOrder
  <2>4. Line(s) = <<>>
    BY <2>1, ConcatEmptySeq DEF Line, Near, Far
  <2> QED
    BY <1>2, <2>1, <2>2, <2>3, <2>4 DEF PrefixAt, Fits
<1> QED
  BY <1>3, <1>4 DEF PrefixInv

\* Nothing is received without a handler.
GotInv == \A s \in Stream : handler[s].pc = "none" => handler[s].got = <<>>

\* Every step preserves it.
LEMMA NextGot == TypeOK /\ GotInv /\ [Next]_vars => GotInv'
<1> SUFFICES ASSUME TypeOK, GotInv, [Next]_vars PROVE GotInv'
  OBVIOUS
<1>1. CASE UNCHANGED handler
  BY <1>1 DEF GotInv
<1>2. ASSUME NEW s \in Stream, Handler(s) PROVE GotInv'
  <2>1. handler'[s].pc # "none" /\ \A t \in Stream : t # s => handler'[t] = handler[t]
    BY <1>2, HandlerAside DEF View
  <2> QED
    BY <2>1 DEF GotInv
<1>3. ASSUME NEW s \in Stream, Worker(s) PROVE GotInv'
  <2>1. CASE SpawnHandler(s)
    <3>1. handler'[s].pc # "none" /\ \A t \in Stream : t # s => handler'[t] = handler[t]
      BY <2>1 DEF SpawnHandler, TypeOK, GoroutinesOK
    <3> QED
      BY <3>1 DEF GotInv
  <2>2. CASE UNCHANGED handler
    BY <2>2 DEF GotInv
  <2> QED
    BY <1>3, <2>1, <2>2, Zenon
       DEF Worker, WorkerExit, ProcessCallUnimplemented, ProcessCall, SetStatsBegun,
           ProcessDataDropped, ProcessData, StatsBegin, PushData, HandOver, ProcessHalfClose,
           ProcessAbort, ProcessPing, WorkerFinalize
<1>4. CASE Caller
  BY <1>1, <1>4 DEF Caller, CallerCall, CallerData, CallerCloseSend, CallerAborts, CallerPings, CallerWrites
<1>5. CASE Enqueue \/ (\E r \in Replies : OnMessage(r)) \/ Stop \/ CloseStream \/ UNCHANGED vars
  BY <1>1, <1>5, StopAside, CloseAside DEF Enqueue, EnqueueFrame, OnMessage, vars
<1> QED
  BY <1>2, <1>3, <1>4, <1>5 DEF Next, Server

\* The invariant says what a handler received.
LEMMA PrefixSeen == PrefixInv /\ GotInv => HandlerSeesPrefix
<1> SUFFICES ASSUME PrefixInv, GotInv, NEW s \in Stream, ~ctxDone[s], NEW i \in DOMAIN handler[s].got
             PROVE  handler[s].got[i] = i
  BY DEF HandlerSeesPrefix
<1>1. handler[s].pc # "none"
  BY DEF GotInv
<1>2. InOrder(s)
  BY <1>1 DEF PrefixInv, PrefixAt, Owner
<1> QED
  BY <1>2 DEF InOrder

\* A handler whose stream is not cancelled received the caller's Data from the first one
\* on, in order and with no gap, whatever Stop, CloseStream, a stale finalize and the
\* streams created for late frames do.
THEOREM DataReachesHandler == Spec => []HandlerSeesPrefix
<1>1. Init => GotInv
  BY DEF Init, GotInv
<1> QED
  BY <1>1, InitBirth, InitPrefix, TypeCorrect, NextBirth, NextPrefix, NextGot, PrefixSeen, PTL DEF Spec

-----------------------------------------------------------------------------
(* The frames a caller publishes once: Call, and End with an error           *)

\* At most one frame of the type is in the queue.
Once(q, t) == \A i, j \in 1..Len(q) : q[i].type = t /\ q[j].type = t => i = j

OneTime == {"Call", "EndErr"}

\* The caller published it.
Sent(r, t) == (t = "Call" /\ caller[r].called) \/ (t = "EndErr" /\ caller[r].aborted)

\* It is in one place: on the wire, or in one stream.
RouteAt(r, t) ==
  /\ Once(requests[r], t)
  /\ Has(requests[r], t) => Sent(r, t)
  /\ \A s \in Stream : Reply(s) = r =>
       /\ Once(inbox[s], t)
       /\ ~(InHand(s, t) /\ Has(inbox[s], t))
       /\ Held(s, t) => Sent(r, t) /\ ~Has(requests[r], t)
       /\ \A u \in Stream : Reply(u) = r /\ Held(s, t) /\ Held(u, t) => u = s

\* The worker processes the Call.
Calling(s) == worker[s].pc = "spawn" \/ (worker[s].pc = "begun" /\ worker[s].frame.type = "Call")

\* The stream's worker has taken the Call.
Spent(s) == Calling(s) \/ handler[s].pc # "none" \/ hasBegun[s]

\* The Call is taken by one stream, and gone.
SpentAt(s) == Spent(s) =>
  /\ Sent(Reply(s), "Call") /\ ~Has(requests[Reply(s)], "Call")
  /\ \A u \in Stream : Reply(u) = Reply(s) => ~Held(u, "Call") /\ (Spent(u) => u = s)

\* Processed once: a handler is started once, and only for a method there is.
CallingAt(s) ==
  /\ handler[s].pc # "none" \/ (kind[Reply(s)] = "unhandled") => ~Calling(s)
  /\ kind[Reply(s)] = "unhandled" => handler[s].pc = "none"

\* The inductive invariant about them, with BirthInv.
RouteInv ==
  /\ \A r \in Replies : \A t \in OneTime : RouteAt(r, t)
  /\ \A s \in Stream : SpentAt(s) /\ CallingAt(s)

-----------------------------------------------------------------------------
(* A live handler keeps its map entry                                        *)

HasCall(s) == Held(s, "Call") \/ Spent(s)

\* The caller's End with an error is to come.
AbortPending(r) ==
  \/ ~caller[r].aborted \/ Has(requests[r], "EndErr")
  \/ \E s \in Stream : Reply(s) = r /\ Held(s, "EndErr")

\* The Call was served; nothing that came of it can remove an entry any more.
CallOver(s) ==
  Spent(s) /\ ~Calling(s) /\ worker[s].pc \notin Teardown /\ handler[s].pc \in {"none", "failed", "exited"}

\* remove comes after cancel, and a handler whose SendMsg failed is torn down.
TornAt(s) == worker[s].pc = "remove" \/ handler[s].pc \in {"remove", "failed"} => ctxDone[s]

\* Who removes an entry is the stream that has it.
LiveAt(s) ==
  /\ HasCall(s) /\ ~ctxDone[s] => Current(s)
  /\ worker[s].pc \in Teardown /\ ~Spent(s) =>
       /\ Current(s)
       /\ \A u \in Stream : Reply(u) = Reply(s) /\ u # s /\ HasCall(u) => CallOver(u)
  /\ AbortPending(Reply(s)) =>
       /\ Spent(s) => Current(s) \/ CallOver(s)
       /\ ~Spent(s) /\ ~Unborn(s) => Current(s) /\ worker[s].pc \notin Teardown
       /\ worker[s].pc \in Teardown => kind[Reply(s)] = "unhandled"

\* The inductive invariant behind LiveHandlerReachable, with RouteInv and BirthInv.
LiveInv ==
  /\ \A s \in Stream : TornAt(s)
  /\ Calm => \A s \in Stream : LiveAt(s)

\* A queue that gets a frame it does not have.
LEMMA OnceAppend ==
  ASSUME NEW F, NEW q \in Seq(F), NEW f \in F, NEW t, Once(q, t), f.type = t => ~Has(q, t)
  PROVE  Once(Append(q, f), t)
<1>1. PICK p \in Seq(F) : p = Append(q, f)
  BY AppendProperties
<1>2. /\ Len(q) \in Nat /\ Len(p) = Len(q) + 1 /\ p[Len(q) + 1] = f
      /\ \A i \in 1..Len(q) : p[i] = q[i]
      /\ \A i \in 1..Len(p) : i \in 1..Len(q) \/ i = Len(q) + 1
  BY <1>1, AppendProperties
<1>3. Once(p, t)
  BY <1>2 DEF Once, Has
<1> QED
  BY <1>1, <1>3

\* A queue that loses its first.
LEMMA OnceTail ==
  ASSUME NEW F, NEW q \in Seq(F), q # <<>>, NEW t, Once(q, t)
  PROVE  Once(Tail(q), t) /\ (Head(q).type = t => ~Has(Tail(q), t))
<1>1. PICK p \in Seq(F) : p = Tail(q)
  BY HeadTailProperties
<1>2. /\ Len(q) \in Nat \ {0} /\ Len(p) = Len(q) - 1 /\ q[1] = Head(q) /\ 1 \in 1..Len(q)
      /\ \A i \in 1..Len(p) : i + 1 \in 1..Len(q) /\ p[i] = q[i + 1] /\ i + 1 # 1
      /\ \A i, j \in 1..Len(p) : i + 1 = j + 1 => i = j
  BY <1>1, HeadTailProperties
<1>3. Once(p, t)
  <2> SUFFICES ASSUME NEW i \in 1..Len(p), NEW j \in 1..Len(p), p[i].type = t, p[j].type = t
               PROVE  i = j
    BY DEF Once
  <2>1. q[i + 1].type = t /\ q[j + 1].type = t /\ i + 1 \in 1..Len(q) /\ j + 1 \in 1..Len(q)
    BY <1>2
  <2>2. i + 1 = j + 1
    BY <2>1 DEF Once
  <2> QED
    BY <1>2, <2>2
<1>4. Head(q).type = t => ~Has(p, t)
  BY <1>2 DEF Once, Has
<1> QED
  BY <1>1, <1>3, <1>4

\* A caller's write.
LEMMA CallerRoute ==
  ASSUME TypeOK, RouteInv, NEW r \in Replies, NEW f \in Request,
         requests' = [requests EXCEPT ![r] = Append(@, f)],
         \A q \in Replies : \A t \in OneTime : Sent(q, t) => Sent(q, t)',
         f.type \in OneTime => ~Sent(r, f.type) /\ Sent(r, f.type)',
         UNCHANGED <<kind, dispatcher, inbox, hasBegun, worker, handler>>
  PROVE  RouteInv'
<1>1. requests[r] \in Seq(Request) /\ requests'[r] = Append(requests[r], f)
      /\ \A q \in Replies : q # r => requests'[q] = requests[q]
  BY DEF TypeOK, WireOK
<1>2. \A t : Has(requests'[r], t) <=> Has(requests[r], t) \/ f.type = t
  BY <1>1, HasAppend
<1>3. ASSUME NEW q \in Replies, NEW t \in OneTime PROVE RouteAt(q, t)'
  <2>1. RouteAt(q, t)
    BY DEF RouteInv
  <2>2. \A s \in Stream : (Held(s, t)' <=> Held(s, t)) /\ (InHand(s, t)' <=> InHand(s, t))
    BY DEF Held, InHand
  <2>3. CASE q = r /\ f.type = t
    <3>1. ~Sent(r, t) /\ Sent(r, t)'
      BY <2>3
    <3>2. ~Has(requests[r], t) /\ \A s \in Stream : Reply(s) = r => ~Held(s, t)
      BY <2>1, <2>3, <3>1 DEF RouteAt
    <3>3. Once(requests'[r], t)
      BY <1>1, <2>1, <2>3, <3>2, OnceAppend DEF RouteAt
    <3> QED
      BY <2>1, <2>2, <2>3, <3>1, <3>2, <3>3 DEF RouteAt
  <2>4. CASE q = r /\ f.type # t
    <3>1. Once(requests'[r], t)
      BY <1>1, <2>1, <2>4, OnceAppend DEF RouteAt
    <3>2. Has(requests'[r], t) <=> Has(requests[r], t)
      BY <1>2, <2>4
    <3> QED
      BY <2>1, <2>2, <2>4, <3>1, <3>2 DEF RouteAt
  <2>5. CASE q # r
    BY <1>1, <2>1, <2>2, <2>5 DEF RouteAt
  <2> QED
    BY <2>3, <2>4, <2>5
<1>4. ASSUME NEW s \in Stream PROVE SpentAt(s)' /\ CallingAt(s)'
  <2>1. SpentAt(s) /\ CallingAt(s) /\ Reply(s) \in Replies
    BY StreamParts DEF RouteInv
  <2>2. \A u \in Stream : (Held(u, "Call")' <=> Held(u, "Call")) /\ (Spent(u)' <=> Spent(u))
    BY DEF Held, InHand, Spent, Calling
  <2>3. ASSUME Spent(s)'
        PROVE  Sent(Reply(s), "Call")' /\ ~Has(requests'[Reply(s)], "Call")
    <3>1. Sent(Reply(s), "Call") /\ ~Has(requests[Reply(s)], "Call")
      BY <2>1, <2>2, <2>3 DEF SpentAt
    <3>2. Sent(Reply(s), "Call")'
      BY <2>1, <3>1 DEF OneTime
    <3>3. Reply(s) = r => f.type # "Call"
      BY <3>1 DEF OneTime
    <3> QED
      BY <1>1, <1>2, <2>1, <3>1, <3>2, <3>3
  <2>4. SpentAt(s)'
    BY <2>1, <2>2, <2>3 DEF SpentAt
  <2>5. CallingAt(s)'
    BY <2>1 DEF CallingAt, Calling
  <2> QED
    BY <2>4, <2>5
<1> QED
  BY <1>3, <1>4 DEF RouteInv

\* onMessage.
LEMMA OnMessageRoute ==
  ASSUME TypeOK, RouteInv, NEW r \in Replies, OnMessage(r)
  PROVE  RouteInv'
<1>1. PICK s \in Stream :
           /\ Reply(s) = r /\ dispatcher' = <<s, Head(requests[r])>>
           /\ dispatcher = <<>> /\ requests[r] # <<>> /\ requests' = [requests EXCEPT ![r] = Tail(@)]
           /\ UNCHANGED <<kind, caller, inbox, hasBegun, handler>>
           /\ \/ UNCHANGED worker
              \/ worker' = [worker EXCEPT ![s].pc = "idle"]
  BY OnMessageCases
<1>2. requests[r] \in Seq(Request) /\ requests'[r] = Tail(requests[r])
      /\ \A q \in Replies : q # r => requests'[q] = requests[q]
  BY <1>1 DEF TypeOK, WireOK
<1>3. PICK h : h = Head(requests[r])
  OBVIOUS
<1>4. \A t : Has(requests[r], t) <=> h.type = t \/ Has(requests'[r], t)
  BY <1>1, <1>2, <1>3, HasTail
<1>5. dispatcher' # <<>> /\ dispatcher'[1] = s /\ dispatcher'[2] = h
  BY <1>1, <1>3
<1>6. \A u \in Stream : \A t :
        /\ ~InHand(u, t)
        /\ InHand(u, t)' <=> u = s /\ h.type = t
        /\ Held(u, t)' <=> Held(u, t) \/ (u = s /\ h.type = t)
  BY <1>1, <1>5 DEF InHand, Held
<1>7. ASSUME NEW q \in Replies, NEW t \in OneTime PROVE RouteAt(q, t)'
  <2>1. RouteAt(q, t) /\ (Sent(q, t)' <=> Sent(q, t))
    BY <1>1 DEF RouteInv, Sent
  <2>2. CASE q = r /\ h.type = t
    <3>1. Sent(r, t) /\ \A u \in Stream : Reply(u) = r => ~Held(u, t)
      BY <1>4, <2>1, <2>2 DEF RouteAt
    <3>2. Once(requests'[r], t) /\ ~Has(requests'[r], t)
      BY <1>1, <1>2, <1>3, <2>1, <2>2, OnceTail DEF RouteAt
    <3>3. \A u \in Stream : Reply(u) = r => ~Has(inbox[u], t)
      BY <3>1 DEF Held
    <3> QED
      BY <1>1, <1>6, <2>1, <2>2, <3>1, <3>2, <3>3 DEF RouteAt
  <2>3. CASE q = r /\ h.type # t
    <3>1. Once(requests'[r], t) /\ (Has(requests'[r], t) <=> Has(requests[r], t))
      BY <1>1, <1>2, <1>4, <2>1, <2>3, OnceTail DEF RouteAt
    <3> QED
      BY <1>1, <1>6, <2>1, <2>3, <3>1 DEF RouteAt
  <2>4. CASE q # r
    BY <1>1, <1>2, <1>6, <2>1, <2>4 DEF RouteAt
  <2> QED
    BY <2>2, <2>3, <2>4
<1>8. \A u \in Stream : Calling(u)' => Calling(u)
  BY <1>1 DEF Calling, TypeOK, GoroutinesOK
<1>9. ASSUME NEW u \in Stream PROVE SpentAt(u)' /\ CallingAt(u)'
  <2>1. SpentAt(u) /\ CallingAt(u) /\ Reply(u) \in Replies
    BY StreamParts DEF RouteInv
  <2>2. \A v \in Stream : Spent(v)' => Spent(v)
    BY <1>1, <1>8 DEF Spent
  <2>3. Sent(Reply(u), "Call")' <=> Sent(Reply(u), "Call")
    BY <1>1 DEF Sent
  <2>4. Spent(u) => ~Has(requests'[Reply(u)], "Call") /\ (Reply(u) = r => h.type # "Call")
    BY <1>2, <1>4, <2>1 DEF SpentAt
  <2>5. SpentAt(u)'
    BY <1>1, <1>6, <2>1, <2>2, <2>3, <2>4 DEF SpentAt
  <2> QED
    BY <1>1, <1>8, <2>1, <2>5 DEF CallingAt
<1> QED
  BY <1>7, <1>9 DEF RouteInv

\* enqueue.
LEMMA EnqueueRoute ==
  ASSUME TypeOK, RouteInv, Enqueue
  PROVE  RouteInv'
<1>1. PICK s \in Stream, f \in Request :
           /\ dispatcher = <<s, f>> /\ dispatcher' = <<>>
           /\ UNCHANGED <<kind, caller, requests, hasBegun, worker, handler>>
           /\ \A t \in Stream : t # s => inbox'[t] = inbox[t]
           /\ inbox'[s] = Append(inbox[s], f) \/ inbox'[s] = inbox[s]
  BY EnqueueCases DEF wireVars
<1>2. inbox[s] \in Seq(Request)
  BY DEF TypeOK, FramesOK
<1>3. dispatcher # <<>> /\ dispatcher[1] = s /\ dispatcher[2] = f
  BY <1>1
<1>4. \A u \in Stream : \A t : ~InHand(u, t)' /\ (Held(u, t)' => Held(u, t))
                               /\ (InHand(u, t) <=> u = s /\ f.type = t)
  <2>1. \A t : Has(Append(inbox[s], f), t) <=> Has(inbox[s], t) \/ f.type = t
    BY <1>2, HasAppend
  <2> QED
    BY <1>1, <1>3, <2>1 DEF InHand, Held
<1>5. ASSUME NEW q \in Replies, NEW t \in OneTime PROVE RouteAt(q, t)'
  <2>1. RouteAt(q, t) /\ (Sent(q, t)' <=> Sent(q, t))
    BY <1>1 DEF RouteInv, Sent
  <2>2. \A u \in Stream : Reply(u) = q => Once(inbox'[u], t)
    <3>1. Reply(s) = q => Once(Append(inbox[s], f), t)
      <4>1. Reply(s) = q => Once(inbox[s], t) /\ (f.type = t => ~Has(inbox[s], t))
        BY <1>4, <2>1 DEF RouteAt
      <4> QED
        BY <1>2, <4>1, OnceAppend
    <3> QED
      BY <1>1, <2>1, <3>1 DEF RouteAt
  <2> QED
    BY <1>1, <1>4, <2>1, <2>2 DEF RouteAt
<1>6. ASSUME NEW u \in Stream PROVE SpentAt(u)' /\ CallingAt(u)'
  <2>1. SpentAt(u) /\ CallingAt(u)
    BY DEF RouteInv
  <2>2. \A v \in Stream : Spent(v)' <=> Spent(v)
    BY <1>1 DEF Spent, Calling
  <2>3. SpentAt(u)'
    BY <1>1, <1>4, <2>1, <2>2 DEF SpentAt, Sent
  <2> QED
    BY <1>1, <2>1, <2>3 DEF CallingAt, Calling
<1> QED
  BY <1>5, <1>6 DEF RouteInv

\* A step that takes at most the first frame of an inbox.
LEMMA RouteKept ==
  ASSUME TypeOK, RouteInv, UNCHANGED <<kind, caller, requests, dispatcher>>,
         \A u \in Stream : \/ inbox'[u] = inbox[u] /\ (Spent(u)' => Spent(u))
                           \/ /\ inbox[u] # <<>> /\ inbox'[u] = Tail(inbox[u])
                              /\ Spent(u)' => Spent(u) \/ Head(inbox[u]).type = "Call",
         \A u \in Stream : CallingAt(u)'
  PROVE  RouteInv'
<1>1. \A u \in Stream : inbox[u] \in Seq(Request)
  BY DEF TypeOK, FramesOK
<1>2. ASSUME NEW u \in Stream, NEW t
      PROVE  /\ InHand(u, t)' <=> InHand(u, t)
             /\ Has(inbox'[u], t) => Has(inbox[u], t)
             /\ Once(inbox[u], t) => Once(inbox'[u], t)
  <2>1. inbox'[u] = inbox[u] \/ (inbox[u] # <<>> /\ inbox'[u] = Tail(inbox[u]))
    OBVIOUS
  <2> QED
    BY <1>1, <2>1, HasTail, OnceTail DEF InHand
<1>3. ASSUME NEW u \in Stream, NEW t PROVE Held(u, t)' => Held(u, t)
  BY <1>2 DEF Held
<1>4. ASSUME NEW q \in Replies, NEW t \in OneTime PROVE RouteAt(q, t)'
  <2>1. RouteAt(q, t) /\ (Sent(q, t)' <=> Sent(q, t))
    BY DEF RouteInv, Sent
  <2> QED
    BY <1>2, <1>3, <2>1 DEF RouteAt
<1>5. ASSUME NEW u \in Stream, Spent(u)', ~Spent(u)
      PROVE  Held(u, "Call") /\ ~Held(u, "Call")'
  <2>1. inbox[u] # <<>> /\ inbox'[u] = Tail(inbox[u]) /\ Head(inbox[u]).type = "Call"
    BY <1>5
  <2>2. Has(inbox[u], "Call") /\ Reply(u) \in Replies
    BY <1>1, <2>1, HasTail, StreamParts
  <2>3. RouteAt(Reply(u), "Call")
    BY <2>2 DEF RouteInv, OneTime
  <2>4. Once(inbox[u], "Call") /\ ~InHand(u, "Call")
    BY <2>2, <2>3 DEF RouteAt
  <2>5. ~Has(Tail(inbox[u]), "Call")
    BY <1>1, <2>1, <2>4, OnceTail
  <2> QED
    BY <1>2, <2>1, <2>2, <2>4, <2>5 DEF Held
<1>6. ASSUME NEW u \in Stream PROVE SpentAt(u)'
  <2>1. SUFFICES ASSUME Spent(u)' PROVE SpentAt(u)'
    BY DEF SpentAt
  <2>2. SpentAt(u) /\ RouteAt(Reply(u), "Call") /\ \A v \in Stream : SpentAt(v)
    BY StreamParts DEF RouteInv, OneTime
  <2>3. CASE Spent(u)
    <3>1. \A v \in Stream : Reply(v) = Reply(u) => ~Held(v, "Call") /\ (Spent(v) => v = u)
      BY <2>2, <2>3 DEF SpentAt
    <3> QED
      BY <1>3, <1>5, <2>2, <2>3, <3>1 DEF SpentAt, Sent
  <2>4. CASE ~Spent(u)
    <3>1. Held(u, "Call") /\ ~Held(u, "Call")'
      BY <1>5, <2>1, <2>4
    <3>2. \A v \in Stream : Reply(v) = Reply(u) =>
            ~Held(v, "Call")' /\ ~Spent(v) /\ (v # u => ~Held(v, "Call"))
      BY <1>3, <2>2, <3>1 DEF RouteAt, SpentAt
    <3>3. \A v \in Stream : Reply(v) = Reply(u) => (Spent(v)' => v = u)
      BY <1>5, <3>2
    <3> QED
      BY <2>2, <3>1, <3>2, <3>3 DEF SpentAt, RouteAt, Sent
  <2> QED
    BY <2>3, <2>4
<1> QED
  BY <1>4, <1>6 DEF RouteInv

\* A step of the worker: Spent comes with the Call, and a handler starts once.
LEMMA WorkerRoute ==
  ASSUME TypeOK, RouteInv, NEW s \in Stream, Worker(s)
  PROVE  /\ \/ inbox'[s] = inbox[s] /\ (Spent(s)' => Spent(s))
            \/ /\ inbox[s] # <<>> /\ inbox'[s] = Tail(inbox[s])
               /\ Spent(s)' => Spent(s) \/ Head(inbox[s]).type = "Call"
         /\ CallingAt(s)'
<1>0. /\ worker \in [Stream -> [pc : WorkerPC, frame : Request]]
      /\ handler \in [Stream -> [pc : HandlerPC, sends : Nat, got : Seq(Nat),
                                 resume : {"failed", "exited"}]]
      /\ inbox \in [Stream -> Seq(Request)]
      /\ hasBegun \in [Stream -> BOOLEAN]
  BY DEF TypeOK, FramesOK, StreamsOK, GoroutinesOK
<1>1. CallingAt(s) /\ UNCHANGED kind
  BY WorkerAside DEF RouteInv
<1>2. Take(s, "Call") => handler[s].pc = "none" /\ ~Spent(s)
  <2>1. ASSUME Take(s, "Call") PROVE Held(s, "Call")
    BY <2>1, <1>0, HasTail DEF Take, Held
  <2> QED
    BY <2>1 DEF RouteInv, SpentAt, Spent
<1>3. ASSUME UNCHANGED <<inbox[s], hasBegun[s]>>, handler'[s].pc = handler[s].pc,
             Calling(s)' => Calling(s)
      PROVE  inbox'[s] = inbox[s] /\ (Spent(s)' => Spent(s)) /\ CallingAt(s)'
  BY <1>1, <1>3 DEF Spent, CallingAt
<1>4. ASSUME NEW t, Take(s, t), UNCHANGED handler, ~Calling(s)',
             hasBegun'[s] = hasBegun[s] \/ t = "Call"
      PROVE  /\ inbox[s] # <<>> /\ inbox'[s] = Tail(inbox[s])
             /\ Spent(s)' => Spent(s) \/ Head(inbox[s]).type = "Call"
             /\ CallingAt(s)'
  <2>1. inbox[s] # <<>> /\ inbox'[s] = Tail(inbox[s]) /\ Head(inbox[s]).type = t
    BY <1>0, <1>4 DEF Take
  <2> QED
    BY <1>1, <1>4, <2>1 DEF Spent, CallingAt
<1>5. CASE WorkerExit(s)
  BY <1>0, <1>3, <1>5 DEF WorkerExit, Goto, Calling, frameVars
<1>6. CASE ProcessCallUnimplemented(s)
  <2>1. Take(s, "Call") /\ worker'[s].pc = "once" /\ UNCHANGED handler
    BY <1>0, <1>6 DEF ProcessCallUnimplemented, Goto
  <2>2. ~Calling(s)'
    BY <2>1 DEF Calling
  <2> QED
    BY <1>4, <2>1, <2>2
<1>7. CASE ProcessCall(s)
  <2>1. Take(s, "Call") /\ kind[Reply(s)] # "unhandled" /\ UNCHANGED handler
    BY <1>7 DEF ProcessCall, StatsBegin
  <2>2. inbox[s] # <<>> /\ inbox'[s] = Tail(inbox[s]) /\ Head(inbox[s]).type = "Call"
    BY <1>0, <2>1 DEF Take
  <2> QED
    BY <1>1, <1>2, <2>1, <2>2 DEF CallingAt
<1>8. CASE SetStatsBegun(s)
  <2>1. /\ worker[s].pc = "begun" /\ worker'[s].pc = IF worker[s].frame.type = "Call" THEN "spawn" ELSE "push"
        /\ UNCHANGED <<inbox, hasBegun, handler>>
    BY <1>0, <1>8 DEF SetStatsBegun, Goto, frameVars
  <2> QED
    BY <1>3, <2>1 DEF Calling
<1>9. CASE SpawnHandler(s)
  <2>1. worker[s].pc = "spawn" /\ worker'[s].pc = "idle" /\ UNCHANGED <<inbox, hasBegun>>
    BY <1>0, <1>9 DEF SpawnHandler, Loop, frameVars
  <2> QED
    BY <1>1, <2>1 DEF Spent, Calling, CallingAt
<1>10. CASE ProcessDataDropped(s)
  <2>1. Take(s, "Data") /\ UNCHANGED <<handler, hasBegun, worker>>
    BY <1>10 DEF ProcessDataDropped
  <2> QED
    BY <1>4, <2>1 DEF Take, Calling
<1>11. CASE ProcessData(s)
  <2>1. Take(s, "Data") /\ (Holding(s, "begun") \/ Holding(s, "push")) /\ UNCHANGED <<handler, hasBegun>>
    BY <1>11 DEF ProcessData, StatsBegin
  <2>2. ~Calling(s)'
    BY <1>0, <2>1 DEF Take, Holding, Calling
  <2> QED
    BY <1>4, <2>1, <2>2
<1>12. CASE PushData(s)
  <2>1. worker'[s].pc = "idle" /\ UNCHANGED <<inbox, handler, hasBegun>>
    BY <1>0, <1>12 DEF PushData, HandOver, Loop
  <2> QED
    BY <1>3, <2>1 DEF Calling
<1>13. CASE ProcessHalfClose(s)
  <2>1. Take(s, "EndOK") /\ UNCHANGED <<handler, hasBegun, worker>>
    BY <1>13 DEF ProcessHalfClose
  <2> QED
    BY <1>4, <2>1 DEF Take, Calling
<1>14. CASE ProcessAbort(s)
  <2>1. Take(s, "EndErr") /\ UNCHANGED <<handler, hasBegun>> /\ worker'[s].pc = "once"
    BY <1>0, <1>14 DEF ProcessAbort, Goto
  <2>2. ~Calling(s)'
    BY <2>1 DEF Calling
  <2> QED
    BY <1>4, <2>1, <2>2
<1>15. CASE ProcessPing(s)
  <2>1. Take(s, "Ping") /\ UNCHANGED <<handler, hasBegun, worker>>
    BY <1>15 DEF ProcessPing
  <2> QED
    BY <1>4, <2>1 DEF Take, Calling
<1>16. CASE WorkerFinalize(s)
  <2>1. /\ worker[s].pc \in Teardown
        /\ \/ Loop(s) \/ Goto(s, AfterStep(worker[s].pc, "idle"))
        /\ UNCHANGED <<frameVars, hasBegun, handler>>
    BY <1>16, Zenon DEF WorkerFinalize
  <2>2. worker'[s].pc \in {"idle", "cancel", "remove"}
    BY <1>0, <2>1 DEF Loop, Goto, AfterStep, Teardown
  <2> QED
    BY <1>3, <2>1, <2>2 DEF Calling, frameVars
<1> QED
  BY <1>5, <1>6, <1>7, <1>8, <1>9, <1>10, <1>11, <1>12, <1>13, <1>14, <1>15, <1>16 DEF Worker

\* Every step preserves the invariant.
LEMMA NextRoute == TypeOK /\ RouteInv /\ [Next]_vars => RouteInv'
<1> SUFFICES ASSUME TypeOK, RouteInv, [Next]_vars PROVE RouteInv'
  OBVIOUS
<1>1. ASSUME NEW r \in Replies,
             CallerCall(r) \/ CallerData(r) \/ CallerCloseSend(r) \/ CallerAborts(r) \/ CallerPings(r)
      PROVE  RouteInv'
  <2>0. /\ caller \in [Replies -> [called : BOOLEAN, half : BOOLEAN, aborted : BOOLEAN,
                                   data : Nat, frames : Nat]]
        /\ caller[r].data + 1 \in Nat
    BY DEF TypeOK, WireOK
  <2>1. ASSUME NEW f \in Request, NEW state, CallerWrites(r, f, state), caller[r].called => state.called,
               caller[r].aborted => state.aborted, f.type \in OneTime => ~Sent(r, f.type),
               f.type = "Call" => state.called, f.type = "EndErr" => state.aborted
        PROVE  RouteInv'
    <3>1. /\ requests' = [requests EXCEPT ![r] = Append(@, f)]
          /\ UNCHANGED <<kind, dispatcher, inbox, hasBegun, worker, handler>>
          /\ caller' = [caller EXCEPT ![r] = [state EXCEPT !.frames = @ + 1]]
      BY <2>1 DEF CallerWrites, frameVars
    <3>2. PICK now : now = [state EXCEPT !.frames = @ + 1]
      OBVIOUS
    <3>3. now.called = state.called /\ now.aborted = state.aborted
      BY <3>2
    <3>4. caller'[r] = now /\ \A q \in Replies : q # r => caller'[q] = caller[q]
      BY <2>0, <3>1, <3>2
    <3>5. \A q \in Replies : \A t \in OneTime : Sent(q, t) => Sent(q, t)'
      BY <2>1, <3>3, <3>4 DEF Sent
    <3>6. f.type \in OneTime => Sent(r, f.type)'
      BY <2>1, <3>3, <3>4 DEF Sent, OneTime
    <3> QED
      BY <2>1, <3>1, <3>5, <3>6, CallerRoute
  <2>2. /\ Frame("Call", 0) \in Request /\ Frame("Data", caller[r].data + 1) \in Request
        /\ Frame("EndOK", 0) \in Request /\ Frame("EndErr", 0) \in Request
        /\ Frame("Ping", 0) \in Request
    BY <2>0, FrameTypes, 0 \in Nat
  <2>3. /\ Frame("Call", 0).type = "Call" /\ Frame("Data", caller[r].data + 1).type = "Data"
        /\ Frame("EndOK", 0).type = "EndOK" /\ Frame("EndErr", 0).type = "EndErr"
        /\ Frame("Ping", 0).type = "Ping"
    BY DEF Frame
  <2>4. CASE CallerCall(r)
    BY <2>0, <2>1, <2>2, <2>3, <2>4 DEF CallerCall, Sent
  <2>5. CASE CallerData(r)
    BY <2>0, <2>1, <2>2, <2>3, <2>5 DEF CallerData, OneTime
  <2>6. CASE CallerCloseSend(r)
    BY <2>0, <2>1, <2>2, <2>3, <2>6 DEF CallerCloseSend, OneTime
  <2>7. CASE CallerAborts(r)
    BY <2>0, <2>1, <2>2, <2>3, <2>7 DEF CallerAborts, Sent
  <2>8. CASE CallerPings(r)
    BY <2>0, <2>1, <2>2, <2>3, <2>8 DEF CallerPings, OneTime
  <2> QED
    BY <1>1, <2>4, <2>5, <2>6, <2>7, <2>8
<1>2. ASSUME NEW s \in Stream, Worker(s) PROVE RouteInv'
  <2>1. /\ UNCHANGED <<kind, caller, requests, dispatcher>>
        /\ \A u \in Stream : u # s => UNCHANGED View(u)
    BY <1>2, WorkerAside
  <2>2. \A u \in Stream : u # s =>
          inbox'[u] = inbox[u] /\ (Spent(u)' => Spent(u)) /\ CallingAt(u)'
    BY <2>1 DEF View, Spent, Calling, CallingAt, RouteInv
  <2> QED
    BY <1>2, <2>1, <2>2, WorkerRoute, RouteKept
<1>3. ASSUME NEW s \in Stream, Handler(s) PROVE RouteInv'
  <2>1. /\ UNCHANGED <<kind, caller, requests, dispatcher, inbox, worker>>
        /\ \A u \in Stream : u # s => UNCHANGED View(u)
        /\ handler[s].pc # "none" /\ handler'[s].pc # "none"
    BY <1>3, HandlerAside
  <2>2. \A u \in Stream : (Spent(u)' => Spent(u)) /\ CallingAt(u)'
    BY <2>1 DEF View, Spent, Calling, CallingAt, RouteInv
  <2> QED
    BY <2>1, <2>2, RouteKept
<1>4. ASSUME UNCHANGED <<kind, caller, requests, dispatcher, inbox, hasBegun, worker, handler>>
      PROVE  RouteInv'
  <2>1. \A u \in Stream : (Spent(u)' => Spent(u)) /\ CallingAt(u)'
    BY <1>4 DEF Spent, Calling, CallingAt, RouteInv
  <2> QED
    BY <1>4, <2>1, RouteKept
<1>5. CASE Stop
  BY <1>4, <1>5, StopAside DEF wireVars, frameVars
<1>6. CASE CloseStream
  BY <1>4, <1>6, CloseAside DEF wireVars, frameVars
<1>7. CASE UNCHANGED vars
  BY <1>4, <1>7 DEF vars, wireVars, frameVars
<1> QED
  BY <1>1, <1>2, <1>3, <1>5, <1>6, <1>7, OnMessageRoute, EnqueueRoute DEF Next, Caller, Server

\* Nothing is published yet.
LEMMA InitRoute == Init => RouteInv
<1> SUFFICES ASSUME Init PROVE RouteInv
  OBVIOUS
<1>1. \A t : Once(<<>>, t) /\ ~Has(<<>>, t)
  BY DEF Once, Has
<1>2. ASSUME NEW r \in Replies, NEW t \in OneTime PROVE RouteAt(r, t)
  <2>1. requests[r] = <<>> /\ dispatcher = <<>> /\ \A s \in Stream : inbox[s] = <<>>
    BY DEF Init
  <2> QED
    BY <1>1, <2>1 DEF RouteAt, InHand, Held
<1>3. ASSUME NEW s \in Stream PROVE SpentAt(s) /\ CallingAt(s)
  BY DEF Init, SpentAt, CallingAt, Spent, Calling
<1> QED
  BY <1>2, <1>3 DEF RouteInv

\* One object is the entry of a reply.
LEMMA OneCurrent ==
  ASSUME NEW s \in Stream, NEW u \in Stream, Reply(u) = Reply(s), Current(s), Current(u)
  PROVE  u = s
BY StreamIs DEF Current

\* An object that holds something was created.
LEMMA HeldBorn ==
  ASSUME TypeOK, BirthInv, NEW s \in Stream, NEW t, Held(s, t) \/ HasCall(s)
  PROVE  ~Unborn(s)
<1>1. Unborn(s) => Blank(s) /\ ~Visited(s)
  BY DEF BirthInv
<1>2. Blank(s) => ~Has(inbox[s], t) /\ ~Has(inbox[s], "Call")
  BY DEF Blank, Has
<1>3. Blank(s) => ~Spent(s)
  BY DEF Blank, Spent, Calling
<1>4. ~Visited(s) => ~InHand(s, t) /\ ~InHand(s, "Call")
  BY DEF Visited, InHand
<1> QED
  BY <1>1, <1>2, <1>3, <1>4 DEF Held, HasCall

\* A stream holds no more after a step that takes at most its first frame.
LEMMA HeldLess ==
  ASSUME TypeOK, NEW s \in Stream, NEW t, UNCHANGED dispatcher,
         inbox'[s] = inbox[s] \/ (inbox[s] # <<>> /\ inbox'[s] = Tail(inbox[s]))
  PROVE  Held(s, t)' => Held(s, t)
<1>1. inbox[s] \in Seq(Request)
  BY DEF TypeOK, FramesOK
<1>2. Has(inbox'[s], t) => Has(inbox[s], t)
  BY <1>1, HasTail
<1> QED
  BY <1>2 DEF Held, InHand

\* The map only gains, or changes nothing the stream is known by.
LEMMA LiveKept ==
  ASSUME NEW s \in Stream, LiveAt(s), UNCHANGED kind, Current(s) => Current(s)',
         ctxDone[s] => ctxDone'[s], HasCall(s)' => HasCall(s) \/ Current(s),
         Spent(s) => Spent(s)', Spent(s)' => Spent(s) \/ ~Unborn(s), Unborn(s)' <=> Unborn(s),
         worker'[s].pc \in Teardown =>
           worker[s].pc \in Teardown \/ (Spent(s)' /\ kind[Reply(s)] = "unhandled"),
         CallOver(s) => CallOver(s)',
         \A u \in Stream : Reply(u) = Reply(s) /\ u # s =>
           (HasCall(u)' => HasCall(u) \/ Current(u)) /\ (CallOver(u) => CallOver(u)'),
         AbortPending(Reply(s))' => AbortPending(Reply(s))
  PROVE  LiveAt(s)'
<1>1. HasCall(s)' /\ ~ctxDone'[s] => Current(s)'
  BY DEF LiveAt
<1>2. ASSUME worker'[s].pc \in Teardown, ~Spent(s)'
      PROVE  /\ Current(s)'
             /\ \A u \in Stream : Reply(u) = Reply(s) /\ u # s /\ HasCall(u)' => CallOver(u)'
  <2>1. worker[s].pc \in Teardown /\ ~Spent(s)
    BY <1>2
  <2>2. Current(s) /\ \A u \in Stream : Reply(u) = Reply(s) /\ u # s /\ HasCall(u) => CallOver(u)
    BY <2>1 DEF LiveAt
  <2> QED
    BY <2>2, OneCurrent
<1>3. ASSUME AbortPending(Reply(s))'
      PROVE  /\ Spent(s)' => Current(s)' \/ CallOver(s)'
             /\ ~Spent(s)' /\ ~Unborn(s)' => Current(s)' /\ worker'[s].pc \notin Teardown
             /\ worker'[s].pc \in Teardown => kind[Reply(s)] = "unhandled"
  BY <1>3 DEF LiveAt
<1> QED
  BY <1>1, <1>2, <1>3 DEF LiveAt

\* The entry goes at the end of the teardown of the stream that had the Call.
LEMMA SpentRemoves ==
  ASSUME TypeOK, BirthInv, RouteInv, \A u \in Stream : LiveAt(u), NEW s \in Stream,
         UNCHANGED <<kind, caller, requests, gen, dispatcher, inbox>>, Remove(Reply(s)),
         Spent(s), ~CallOver(s), Spent(s)', ctxDone'[s],
         AbortPending(Reply(s)) => CallOver(s)' /\ worker'[s].pc \notin Teardown,
         \A u \in Stream : u # s => UNCHANGED View(u)
  PROVE  \A t \in Stream : LiveAt(t)'
<1>1. \A q \in Replies : AbortPending(q)' <=> AbortPending(q)
  BY DEF AbortPending, Held, InHand
<1>2. \A t \in Stream : t # s =>
        /\ (Spent(t)' <=> Spent(t)) /\ (HasCall(t)' <=> HasCall(t)) /\ (CallOver(t)' <=> CallOver(t))
        /\ (Unborn(t)' <=> Unborn(t)) /\ UNCHANGED <<ctxDone[t], worker[t]>>
  BY DEF View, Spent, Calling, HasCall, Held, InHand, CallOver, Unborn
<1>3. LiveAt(s)'
  BY <1>1, StreamParts DEF LiveAt
<1>4. ASSUME NEW t \in Stream, t # s, Reply(t) = Reply(s) PROVE LiveAt(t)'
  <2>1. ~HasCall(t)
    BY <1>4 DEF RouteInv, SpentAt, HasCall
  <2>2. ~(worker[t].pc \in Teardown /\ ~Spent(t))
    BY <1>4 DEF LiveAt, HasCall
  <2>3. AbortPending(Reply(s)) => Unborn(t)
    <3>1. AbortPending(Reply(s)) => Current(s)
      BY DEF LiveAt
    <3>2. ~Spent(t)
      BY <2>1 DEF HasCall
    <3> QED
      BY <1>4, <3>1, <3>2, OneCurrent DEF LiveAt
  <2>4. AbortPending(Reply(s)) => worker[t].pc \notin Teardown
    BY <2>1, <2>2 DEF HasCall
  <2> QED
    BY <1>1, <1>2, <1>4, <2>1, <2>2, <2>3, <2>4, StreamParts DEF LiveAt, HasCall
<1>5. ASSUME NEW t \in Stream, Reply(t) # Reply(s) PROVE LiveAt(t)'
  <2>1. Current(t)' <=> Current(t)
    BY <1>5, StreamParts DEF Remove, Current, TypeOK, StreamsOK
  <2>2. \A u \in Stream : Reply(u) = Reply(t) => u # s
    BY <1>5
  <2> QED
    BY <1>1, <1>2, <1>5, <2>1, <2>2, LiveKept, StreamParts DEF View
<1> QED
  BY <1>3, <1>4, <1>5

\* The entry goes at the end of the teardown that a caller's End started in a stream
\* whose Call went elsewhere.
LEMMA OtherRemoves ==
  ASSUME TypeOK, BirthInv, RouteInv, \A u \in Stream : LiveAt(u), NEW s \in Stream,
         UNCHANGED <<kind, caller, requests, gen, dispatcher, inbox>>, Remove(Reply(s)),
         worker[s].pc \in Teardown, worker'[s].pc = "idle", ~Spent(s), ctxDone'[s],
         \A u \in Stream : u # s => UNCHANGED View(u)
  PROVE  \A t \in Stream : LiveAt(t)'
<1>1. \A q \in Replies : AbortPending(q)' <=> AbortPending(q)
  BY DEF AbortPending, Held, InHand
<1>2. \A t \in Stream : t # s =>
        /\ (Spent(t)' <=> Spent(t)) /\ (HasCall(t)' <=> HasCall(t)) /\ (CallOver(t)' <=> CallOver(t))
        /\ (Unborn(t)' <=> Unborn(t)) /\ UNCHANGED <<ctxDone[t], worker[t]>>
  BY DEF View, Spent, Calling, HasCall, Held, InHand, CallOver, Unborn
<1>3. Current(s) /\ \A u \in Stream : Reply(u) = Reply(s) /\ u # s /\ HasCall(u) => CallOver(u)
  BY DEF LiveAt
<1>4. ~Unborn(s)
  BY DEF BirthInv, Blank, Teardown
<1>5. ~AbortPending(Reply(s))
  BY <1>4 DEF LiveAt
<1>6. LiveAt(s)'
  BY <1>1, <1>5, StreamParts DEF LiveAt, Teardown
<1>7. ASSUME NEW t \in Stream, t # s, Reply(t) = Reply(s) PROVE LiveAt(t)'
  <2>1. ~Current(t)
    BY <1>3, <1>7, OneCurrent
  <2>2. (HasCall(t) => ctxDone[t]) /\ ~(worker[t].pc \in Teardown /\ ~Spent(t))
    BY <2>1 DEF LiveAt
  <2> QED
    BY <1>1, <1>2, <1>5, <1>7, <2>2, StreamParts DEF LiveAt
<1>8. ASSUME NEW t \in Stream, Reply(t) # Reply(s) PROVE LiveAt(t)'
  <2>1. Current(t)' <=> Current(t)
    BY <1>8, StreamParts DEF Remove, Current, TypeOK, StreamsOK
  <2>2. \A u \in Stream : Reply(u) = Reply(t) => u # s
    BY <1>8
  <2> QED
    BY <1>1, <1>2, <1>8, <2>1, <2>2, LiveKept, StreamParts DEF View
<1> QED
  BY <1>6, <1>7, <1>8

\* The worker takes the caller's End.
LEMMA AbortLive ==
  ASSUME TypeOK, BirthInv, RouteInv, \A u \in Stream : LiveAt(u), NEW s \in Stream, ProcessAbort(s)
  PROVE  \A t \in Stream : LiveAt(t)'
<1>1. /\ Take(s, "EndErr") /\ worker'[s].pc = "once" /\ worker[s].pc = "idle"
      /\ UNCHANGED <<kind, caller, requests, gen, dispatcher, streams, ctxDone, hasBegun, handler>>
      /\ \A u \in Stream : u # s => UNCHANGED View(u)
  BY WorkerAside DEF ProcessAbort, Worker, Goto, Take, TypeOK, GoroutinesOK
<1>2. PICK r \in Replies : r = Reply(s)
  BY StreamParts
<1>3. inbox[s] \in Seq(Request) /\ inbox[s] # <<>> /\ Head(inbox[s]).type = "EndErr"
      /\ inbox'[s] = Tail(inbox[s])
  BY <1>1 DEF Take, TypeOK, FramesOK
<1>4. Has(inbox[s], "EndErr")
  BY <1>3, HasTail
<1>5. RouteAt(r, "EndErr")
  BY DEF RouteInv, OneTime
<1>6. AbortPending(r) /\ ~AbortPending(r)'
  <2>1. Held(s, "EndErr")
    BY <1>4 DEF Held
  <2>2. ~Has(requests[r], "EndErr") /\ caller[r].aborted
    BY <1>2, <1>5, <2>1 DEF RouteAt, Sent
  <2>3. ~Has(inbox'[s], "EndErr") /\ ~InHand(s, "EndErr")
    BY <1>2, <1>3, <1>4, <1>5, OnceTail DEF RouteAt
  <2>4. \A u \in Stream : Reply(u) = r /\ u # s => ~Held(u, "EndErr")
    BY <1>2, <1>5, <2>1 DEF RouteAt
  <2>5. \A u \in Stream : Reply(u) = r => ~Held(u, "EndErr")'
    BY <1>1, <2>3, <2>4 DEF Held, InHand, View
  <2> QED
    BY <1>1, <1>2, <2>1, <2>2, <2>5 DEF AbortPending
<1>7. \A u \in Stream : \A t : Held(u, t)' => Held(u, t)
  BY <1>1, <1>3, HeldLess DEF View
<1>8. \A q \in Replies : AbortPending(q)' => AbortPending(q)
  BY <1>1, <1>7 DEF AbortPending
<1>9. \A u \in Stream :
        /\ (Spent(u)' <=> Spent(u)) /\ (HasCall(u)' => HasCall(u))
        /\ (Unborn(u)' <=> Unborn(u)) /\ (Current(u)' <=> Current(u))
        /\ u # s => (CallOver(u)' <=> CallOver(u)) /\ worker'[u] = worker[u]
  <2>1. \A u \in Stream : Calling(u)' <=> Calling(u)
    BY <1>1 DEF Calling, View
  <2> QED
    BY <1>1, <1>7, <2>1 DEF Spent, HasCall, Unborn, Current, CallOver, View
<1>10. ~Unborn(s)
  BY <1>1 DEF BirthInv, Blank
<1>11. LiveAt(s)'
  <2>1. ~Spent(s) => Current(s)
    BY <1>2, <1>6, <1>10 DEF LiveAt
  <2>2. ASSUME NEW u \in Stream, Reply(u) = r, u # s, HasCall(u), ~Spent(s) PROVE CallOver(u)
    <3>1. ~Current(u)
      BY <1>2, <2>1, <2>2, OneCurrent
    <3>2. ~Unborn(u)
      BY <2>2, HeldBorn
    <3> QED
      BY <1>6, <2>2, <3>1, <3>2 DEF LiveAt
  <2>3. HasCall(s)' /\ ~ctxDone'[s] => Current(s)'
    BY <1>1, <1>9 DEF LiveAt
  <2>4. ~Spent(s)' => /\ Current(s)'
                      /\ \A u \in Stream : Reply(u) = Reply(s) /\ u # s /\ HasCall(u)' => CallOver(u)'
    BY <1>2, <1>9, <2>1, <2>2
  <2> QED
    BY <1>2, <1>6, <2>3, <2>4 DEF LiveAt
<1>12. ASSUME NEW t \in Stream, t # s, Reply(t) = r PROVE LiveAt(t)'
  <2>1. ~(worker[t].pc \in Teardown /\ ~Spent(t))
    <3>1. worker[t].pc \in Teardown => ~Unborn(t)
      BY DEF BirthInv, Blank, Teardown
    <3> QED
      BY <1>6, <1>12, <3>1 DEF LiveAt
  <2>2. HasCall(t)' /\ ~ctxDone'[t] => Current(t)'
    BY <1>1, <1>9 DEF LiveAt
  <2> QED
    BY <1>6, <1>9, <1>12, <2>1, <2>2 DEF LiveAt
<1>13. ASSUME NEW t \in Stream, Reply(t) # r PROVE LiveAt(t)'
  <2>1. \A u \in Stream : Reply(u) = Reply(t) => u # s
    BY <1>2, <1>13
  <2> QED
    BY <1>1, <1>8, <1>9, <1>13, <2>1, LiveKept, StreamParts
<1> QED
  BY <1>11, <1>12, <1>13

\* Only cancel touches the context, and remove comes after it.
LEMMA WorkerTorn ==
  ASSUME TypeOK, NEW s \in Stream, Worker(s), TornAt(s)
  PROVE  (\A u \in Stream : ctxDone[u] => ctxDone'[u]) /\ TornAt(s)'
<1>0. /\ worker \in [Stream -> [pc : WorkerPC, frame : Request]]
      /\ handler \in [Stream -> [pc : HandlerPC, sends : Nat, got : Seq(Nat),
                                 resume : {"failed", "exited"}]]
      /\ ctxDone \in [Stream -> BOOLEAN]
  BY DEF TypeOK, StreamsOK, GoroutinesOK
<1>1. ASSUME UNCHANGED <<ctxDone, handler>>, worker'[s].pc # "remove" PROVE (\A u \in Stream : ctxDone[u] => ctxDone'[u]) /\ TornAt(s)'
  BY <1>1 DEF TornAt
<1>2. CASE WorkerExit(s)
  BY <1>0, <1>1, <1>2 DEF WorkerExit, Goto
<1>3. CASE ProcessCallUnimplemented(s) \/ ProcessAbort(s)
  BY <1>0, <1>1, <1>3 DEF ProcessCallUnimplemented, ProcessAbort, Goto
<1>4. CASE ProcessCall(s) \/ ProcessData(s)
  BY <1>0, <1>1, <1>4 DEF ProcessCall, ProcessData, StatsBegin, Holding
<1>5. CASE SetStatsBegun(s)
  BY <1>0, <1>1, <1>5 DEF SetStatsBegun, Goto
<1>6. CASE SpawnHandler(s)
  <2>1. UNCHANGED ctxDone /\ worker'[s].pc = "idle" /\ handler'[s].pc \in {"urecv", "user"}
    BY <1>0, <1>6 DEF SpawnHandler, Loop
  <2> QED
    BY <2>1 DEF TornAt
<1>7. CASE ProcessDataDropped(s) \/ ProcessHalfClose(s) \/ ProcessPing(s)
  BY <1>1, <1>7 DEF ProcessDataDropped, ProcessHalfClose, ProcessPing, Take
<1>8. CASE PushData(s)
  BY <1>0, <1>1, <1>8 DEF PushData, HandOver, Loop
<1>9. CASE WorkerFinalize(s)
  <2>1. /\ worker[s].pc \in Teardown /\ Finalize(s, worker[s].pc) /\ UNCHANGED handler
        /\ Loop(s) \/ Goto(s, AfterStep(worker[s].pc, "idle"))
    BY <1>9, Zenon DEF WorkerFinalize
  <2>2. worker'[s].pc = "remove" => worker[s].pc = "cancel"
    BY <1>0, <2>1 DEF Loop, Goto, AfterStep, Teardown
  <2>3. worker[s].pc = "cancel" => ctxDone'[s]
    BY <1>0, <2>1 DEF Finalize
  <2>4. \A u \in Stream : ctxDone[u] => ctxDone'[u]
    BY <1>0, <2>1 DEF Finalize
  <2> QED
    BY <2>1, <2>2, <2>3, <2>4 DEF TornAt
<1> QED
  BY <1>2, <1>3, <1>4, <1>5, <1>6, <1>7, <1>8, <1>9 DEF Worker

\* The handler: it fails only behind the remove of its own teardown.
LEMMA HandlerTorn ==
  ASSUME TypeOK, NEW s \in Stream, Handler(s), TornAt(s)
  PROVE  /\ \A u \in Stream : ctxDone[u] => ctxDone'[u]
         /\ TornAt(s)'
         /\ handler[s].pc \in {"failed", "exited"} => handler'[s].pc = "exited"
<1>0. /\ handler \in [Stream -> [pc : HandlerPC, sends : Nat, got : Seq(Nat),
                                 resume : {"failed", "exited"}]]
      /\ ctxDone \in [Stream -> BOOLEAN]
  BY DEF TypeOK, StreamsOK, GoroutinesOK
<1>1. UNCHANGED worker
  BY HandlerAside
<1>2. CASE HandlerFinalize(s)
  <2>1. /\ handler[s].pc \in Teardown /\ Finalize(s, handler[s].pc)
        /\ handler'[s].pc = AfterStep(handler[s].pc, handler[s].resume)
    BY <1>0, <1>2 DEF HandlerFinalize
  <2>2. \A u \in Stream : ctxDone[u] => ctxDone'[u]
    BY <1>0, <2>1 DEF Finalize
  <2>3. CASE handler[s].pc = "cancel"
    <3>1. ctxDone'[s]
      BY <1>0, <2>1, <2>3 DEF Finalize
    <3> QED
      BY <2>2, <2>3, <3>1 DEF TornAt
  <2>4. CASE handler[s].pc = "remove"
    BY <1>1, <2>2, <2>4 DEF TornAt
  <2>5. CASE handler[s].pc = "once"
    <3>1. handler'[s].pc = "cancel"
      BY <2>1, <2>5 DEF AfterStep
    <3> QED
      BY <1>1, <2>2, <2>5, <3>1 DEF TornAt
  <2> QED
    BY <2>1, <2>3, <2>4, <2>5 DEF Teardown
<1>3. ASSUME UNCHANGED ctxDone,
             handler'[s].pc \notin {"remove", "failed"} \/ handler'[s].pc = handler[s].pc,
             handler[s].pc \in {"failed", "exited"} => handler'[s].pc = "exited"
      PROVE  /\ \A u \in Stream : ctxDone[u] => ctxDone'[u]
             /\ TornAt(s)'
             /\ handler[s].pc \in {"failed", "exited"} => handler'[s].pc = "exited"
  BY <1>1, <1>3 DEF TornAt
<1>4. CASE HandlerRecv(s)
  <2>1. handler[s].pc = "user" /\ handler'[s].pc = "user" /\ UNCHANGED ctxDone
    BY <1>0, <1>4 DEF HandlerRecv
  <2> QED
    BY <1>3, <2>1
<1>5. CASE HandlerSendHeader(s)
  BY <1>3, <1>5 DEF HandlerSendHeader
<1>6. CASE HandlerSend(s)
  <2>1. handler[s].pc = "user" /\ handler'[s].pc \in {"user", "once"} /\ UNCHANGED ctxDone
    BY <1>0, <1>6 DEF HandlerSend, SendData, SendFails
  <2> QED
    BY <1>3, <2>1
<1>7. CASE HandlerReturns(s)
  <2>1. /\ handler[s].pc \in {"user", "failed"} /\ handler'[s].pc \in {"exited", "close"}
        /\ ctxDone[s] => handler'[s].pc = "exited"
        /\ UNCHANGED ctxDone
    BY <1>0, <1>7 DEF HandlerReturns, HandlerStep
  <2>2. handler[s].pc = "failed" => ctxDone[s]
    BY DEF TornAt
  <2> QED
    BY <1>3, <2>1, <2>2
<1>8. CASE UnaryRecv(s)
  <2>1. handler[s].pc = "urecv" /\ handler'[s].pc = "ucheck" /\ UNCHANGED ctxDone
    BY <1>0, <1>8 DEF UnaryRecv, HandlerStep
  <2> QED
    BY <1>3, <2>1
<1>9. CASE UnaryCheck(s)
  <2>1. handler[s].pc = "ucheck" /\ handler'[s].pc \in {"exited", "close", "usend"} /\ UNCHANGED ctxDone
    BY <1>0, <1>9 DEF UnaryCheck, HandlerStep
  <2> QED
    BY <1>3, <2>1
<1>10. CASE UnarySend(s)
  <2>1. handler[s].pc = "usend" /\ handler'[s].pc \in {"close", "once"} /\ UNCHANGED ctxDone
    BY <1>0, <1>10 DEF UnarySend, SendData, SendFails
  <2> QED
    BY <1>3, <2>1
<1>11. CASE HandlerClose(s)
  <2>1. handler[s].pc = "close" /\ handler'[s].pc = "once" /\ UNCHANGED ctxDone
    BY <1>0, <1>11 DEF HandlerClose
  <2> QED
    BY <1>3, <2>1
<1> QED
  BY <1>2, <1>4, <1>5, <1>6, <1>7, <1>8, <1>9, <1>10, <1>11 DEF Handler

\* Once the Call is taken it stays so.
LEMMA SpentStays ==
  ASSUME TypeOK, NEW s \in Stream, Worker(s) \/ Handler(s), Spent(s)
  PROVE  Spent(s)'
<1>0. /\ worker \in [Stream -> [pc : WorkerPC, frame : Request]]
      /\ handler \in [Stream -> [pc : HandlerPC, sends : Nat, got : Seq(Nat),
                                 resume : {"failed", "exited"}]]
      /\ hasBegun \in [Stream -> BOOLEAN]
  BY DEF TypeOK, StreamsOK, GoroutinesOK
<1>1. CASE Handler(s)
  BY <1>1, HandlerAside DEF Spent
<1>2. CASE SpawnHandler(s)
  <2>1. handler'[s].pc \in {"urecv", "user"}
    BY <1>0, <1>2 DEF SpawnHandler
  <2> QED
    BY <2>1 DEF Spent
<1>3. CASE SetStatsBegun(s)
  <2>1. /\ worker[s].pc = "begun" /\ UNCHANGED <<handler, hasBegun>>
        /\ worker'[s].pc = IF worker[s].frame.type = "Call" THEN "spawn" ELSE "push"
    BY <1>0, <1>3 DEF SetStatsBegun, Goto
  <2> QED
    BY <2>1 DEF Spent, Calling
<1>4. CASE ProcessCallUnimplemented(s)
  <2>1. hasBegun'[s]
    BY <1>0, <1>4 DEF ProcessCallUnimplemented
  <2> QED
    BY <2>1 DEF Spent
<1>5. ASSUME UNCHANGED <<handler, hasBegun>>, ~Calling(s) PROVE Spent(s)'
  BY <1>5 DEF Spent
<1>6. CASE WorkerExit(s)
  BY <1>5, <1>6 DEF WorkerExit, Calling
<1>7. CASE ProcessCall(s) \/ ProcessData(s)
  BY <1>5, <1>7 DEF ProcessCall, ProcessData, StatsBegin, Take, Calling
<1>8. CASE ProcessDataDropped(s) \/ ProcessHalfClose(s) \/ ProcessPing(s) \/ ProcessAbort(s)
  BY <1>5, <1>8 DEF ProcessDataDropped, ProcessHalfClose, ProcessPing, ProcessAbort, Take, Calling
<1>9. CASE PushData(s)
  BY <1>5, <1>9 DEF PushData, HandOver, Calling
<1>10. CASE WorkerFinalize(s)
  <2>1. worker[s].pc \in Teardown /\ UNCHANGED <<handler, hasBegun>>
    BY <1>10, Zenon DEF WorkerFinalize
  <2> QED
    BY <1>5, <2>1 DEF Calling, Teardown
<1> QED
  BY <1>1, <1>2, <1>3, <1>4, <1>6, <1>7, <1>8, <1>9, <1>10 DEF Worker

\* A step of the worker takes the caller's End, removes the entry, or does neither.
LEMMA WorkerKinds ==
  ASSUME TypeOK, RouteInv, NEW s \in Stream, Worker(s), ~ProcessAbort(s)
  PROVE  \/ /\ worker[s].pc = "remove" /\ worker'[s].pc = "idle" /\ Remove(Reply(s))
            /\ UNCHANGED <<inbox, ctxDone, handler, hasBegun>>
         \/ /\ UNCHANGED streams /\ worker[s].pc # "none"
            /\ worker'[s].pc \in Teardown =>
                 worker[s].pc \in Teardown \/ (Spent(s)' /\ kind[Reply(s)] = "unhandled")
            /\ CallOver(s) => handler'[s] = handler[s] /\ ~Calling(s)' /\ worker'[s].pc \notin Teardown
<1>0. /\ worker \in [Stream -> [pc : WorkerPC, frame : Request]]
      /\ handler \in [Stream -> [pc : HandlerPC, sends : Nat, got : Seq(Nat),
                                 resume : {"failed", "exited"}]]
      /\ hasBegun \in [Stream -> BOOLEAN] /\ inbox \in [Stream -> Seq(Request)]
  BY DEF TypeOK, StreamsOK, GoroutinesOK, FramesOK
<1>1. Spent(s) => ~Take(s, "Call")
  <2>1. Take(s, "Call") => Held(s, "Call")
    BY <1>0, HasTail DEF Take, Held
  <2> QED
    BY <2>1 DEF RouteInv, SpentAt
<1>2. ASSUME UNCHANGED streams, worker[s].pc # "none", worker'[s].pc \notin Teardown,
             CallOver(s) => handler'[s] = handler[s] /\ ~Calling(s)'
      PROVE  /\ UNCHANGED streams /\ worker[s].pc # "none"
             /\ worker'[s].pc \in Teardown =>
                  worker[s].pc \in Teardown \/ (Spent(s)' /\ kind[Reply(s)] = "unhandled")
             /\ CallOver(s) => handler'[s] = handler[s] /\ ~Calling(s)' /\ worker'[s].pc \notin Teardown
  BY <1>2
<1>3. CASE WorkerExit(s)
  BY <1>0, <1>2, <1>3 DEF WorkerExit, Goto, Calling, Teardown
<1>4. CASE ProcessCallUnimplemented(s)
  <2>1. /\ hasBegun'[s] /\ worker'[s].pc = "once" /\ worker[s].pc = "idle" /\ UNCHANGED streams
        /\ kind[Reply(s)] = "unhandled" /\ Take(s, "Call")
    BY <1>0, <1>4 DEF ProcessCallUnimplemented, Goto, Take
  <2> QED
    BY <1>1, <2>1 DEF Spent, CallOver
<1>5. CASE ProcessCall(s)
  <2>1. /\ Take(s, "Call") /\ worker'[s].pc \in {"begun", "spawn"} /\ worker[s].pc = "idle"
        /\ UNCHANGED streams
    BY <1>0, <1>5 DEF ProcessCall, StatsBegin, Holding, Take
  <2> QED
    BY <1>1, <1>2, <2>1 DEF CallOver, Teardown
<1>6. CASE ProcessData(s)
  <2>1. /\ worker'[s].pc \in {"begun", "push"} /\ worker'[s].frame.type = "Data"
        /\ worker[s].pc = "idle" /\ UNCHANGED <<streams, handler>>
    BY <1>0, <1>6 DEF ProcessData, StatsBegin, Holding, Take
  <2> QED
    BY <1>2, <2>1 DEF Calling, Teardown
<1>7. CASE SetStatsBegun(s)
  <2>1. /\ worker[s].pc = "begun" /\ UNCHANGED <<streams, handler>>
        /\ worker'[s].pc = IF worker[s].frame.type = "Call" THEN "spawn" ELSE "push"
    BY <1>0, <1>7 DEF SetStatsBegun, Goto
  <2> QED
    BY <1>2, <2>1 DEF Calling, Teardown, CallOver
<1>8. CASE SpawnHandler(s)
  <2>1. worker[s].pc = "spawn" /\ worker'[s].pc = "idle" /\ UNCHANGED streams
    BY <1>0, <1>8 DEF SpawnHandler, Loop
  <2> QED
    BY <1>2, <2>1 DEF Calling, Teardown, CallOver
<1>9. CASE ProcessDataDropped(s) \/ ProcessHalfClose(s) \/ ProcessPing(s)
  BY <1>2, <1>9 DEF ProcessDataDropped, ProcessHalfClose, ProcessPing, Take, Calling, Teardown
<1>10. CASE PushData(s)
  <2>1. worker[s].pc = "push" /\ worker'[s].pc = "idle" /\ UNCHANGED <<streams, handler>>
    BY <1>0, <1>10 DEF PushData, HandOver, Loop
  <2> QED
    BY <1>2, <2>1 DEF Calling, Teardown
<1>11. CASE WorkerFinalize(s)
  <2>1. /\ worker[s].pc \in Teardown /\ Finalize(s, worker[s].pc)
        /\ UNCHANGED <<frameVars, handler, hasBegun>>
        /\ \/ Loop(s) /\ AfterStep(worker[s].pc, "idle") = "idle"
           \/ Goto(s, AfterStep(worker[s].pc, "idle"))
    BY <1>11, Zenon DEF WorkerFinalize
  <2>2. worker'[s].pc = AfterStep(worker[s].pc, "idle")
    BY <1>0, <2>1 DEF Loop, Goto
  <2>3. CASE worker[s].pc = "remove"
    BY <2>1, <2>2, <2>3 DEF Finalize, AfterStep, frameVars
  <2>4. CASE worker[s].pc # "remove"
    BY <2>1, <2>4 DEF Finalize, CallOver, Teardown
  <2> QED
    BY <2>3, <2>4
<1> QED
  BY <1>3, <1>4, <1>5, <1>6, <1>7, <1>8, <1>9, <1>10, <1>11 DEF Worker

\* Every step keeps remove behind cancel.
LEMMA NextTorn ==
  ASSUME TypeOK, BirthInv, \A s \in Stream : TornAt(s), [Next]_vars
  PROVE  \A s \in Stream : TornAt(s)'
<1>1. ASSUME UNCHANGED <<worker, handler>>, \A s \in Stream : ctxDone[s] => ctxDone'[s]
      PROVE  \A s \in Stream : TornAt(s)'
  BY <1>1 DEF TornAt
<1>2. CASE Caller
  BY <1>1, <1>2
     DEF Caller, CallerCall, CallerData, CallerCloseSend, CallerAborts, CallerPings, CallerWrites
<1>3. ASSUME NEW r \in Replies, OnMessage(r) PROVE \A s \in Stream : TornAt(s)'
  <2>1. PICK s \in Stream :
           /\ Reply(s) = r /\ UNCHANGED handler
           /\ \/ UNCHANGED <<ctxDone, worker>>
              \/ /\ Gen(s) = gen[r] + 1
                 /\ ctxDone' = [ctxDone EXCEPT ![s] = serverDone]
                 /\ worker' = [worker EXCEPT ![s].pc = "idle"]
    BY <1>3, OnMessageCases
  <2>2. CASE /\ Gen(s) = gen[r] + 1
             /\ ctxDone' = [ctxDone EXCEPT ![s] = serverDone]
             /\ worker' = [worker EXCEPT ![s].pc = "idle"]
    <3>1. Blank(s)
      <4>1. gen[r] \in Nat
        BY DEF TypeOK, FramesOK
      <4> QED
        BY <2>1, <2>2, <4>1 DEF BirthInv, Unborn
    <3> QED
      BY <2>1, <2>2, <3>1 DEF TornAt, Blank, TypeOK, StreamsOK, GoroutinesOK
  <2> QED
    BY <1>1, <2>1, <2>2
<1>4. CASE Enqueue
  BY <1>1, <1>4 DEF Enqueue, EnqueueFrame
<1>5. ASSUME NEW s \in Stream, Worker(s) \/ Handler(s) PROVE \A t \in Stream : TornAt(t)'
  <2>1. \A t \in Stream : t # s => UNCHANGED View(t)
    BY <1>5, WorkerAside, HandlerAside
  <2>2. TornAt(s)'
    BY <1>5, WorkerTorn, HandlerTorn
  <2> QED
    BY <2>1, <2>2 DEF View, TornAt
<1>6. CASE Stop
  <2>1. \A s \in Stream : ctxDone[s] => ctxDone'[s]
    BY <1>6 DEF Stop, StopSnapshot, StopBegins, StopNext, StopFinalize, Finalize, StopCancel,
                StopUnsubscribe, TypeOK, StreamsOK
  <2> QED
    BY <1>1, <1>6, <2>1, StopAside
<1>7. CASE CloseStream
  <2>1. \A s \in Stream : ctxDone[s] => ctxDone'[s]
    BY <1>7 DEF CloseStream, CloseStreamBegin, CloseStreamNext, CloseStreamFinalize, Finalize,
                TypeOK, StreamsOK
  <2> QED
    BY <1>1, <1>7, <2>1, CloseAside
<1>8. CASE UNCHANGED vars
  BY <1>1, <1>8 DEF vars
<1> QED
  BY <1>2, <1>3, <1>4, <1>5, <1>6, <1>7, <1>8 DEF Next, Server

\* A step of the worker.
LEMMA WorkerLive ==
  ASSUME TypeOK, BirthInv, RouteInv, \A u \in Stream : TornAt(u) /\ LiveAt(u), NEW s \in Stream,
         Worker(s)
  PROVE  \A t \in Stream : LiveAt(t)'
<1>1. /\ UNCHANGED <<kind, caller, requests, gen, dispatcher>>
      /\ \A t \in Stream : t # s => UNCHANGED View(t)
  BY WorkerAside
<1>2. \/ inbox'[s] = inbox[s] /\ (Spent(s)' => Spent(s))
      \/ /\ inbox[s] # <<>> /\ inbox'[s] = Tail(inbox[s])
         /\ Spent(s)' => Spent(s) \/ Head(inbox[s]).type = "Call"
  BY WorkerRoute
<1>3. (\A u \in Stream : ctxDone[u] => ctxDone'[u]) /\ (Spent(s) => Spent(s)') /\ ctxDone'[s] \in BOOLEAN
  BY WorkerTorn, SpentStays, WorkerTyped DEF TypeOK, StreamsOK
<1>4. CASE ProcessAbort(s)
  BY <1>4, AbortLive
<1>5. CASE /\ worker[s].pc = "remove" /\ worker'[s].pc = "idle" /\ Remove(Reply(s))
           /\ UNCHANGED <<inbox, ctxDone, handler, hasBegun>>
  <2>1. ctxDone'[s] /\ worker[s].pc \in Teardown /\ ~CallOver(s)
    BY <1>5 DEF TornAt, Teardown, CallOver
  <2>2. CASE Spent(s)
    <3>1. ASSUME AbortPending(Reply(s)) PROVE CallOver(s)' /\ worker'[s].pc \notin Teardown
      <4>1. kind[Reply(s)] = "unhandled"
        BY <2>1, <3>1 DEF LiveAt
      <4>2. handler'[s].pc = "none"
        BY <1>5, <4>1 DEF RouteInv, CallingAt
      <4> QED
        BY <1>3, <1>5, <2>2, <4>2 DEF CallOver, Calling, Teardown
    <3> QED
      BY <1>1, <1>3, <1>5, <2>1, <2>2, <3>1, SpentRemoves
  <2>3. CASE ~Spent(s)
    BY <1>1, <1>5, <2>1, <2>3, OtherRemoves
  <2> QED
    BY <2>2, <2>3
<1>6. CASE /\ UNCHANGED streams /\ worker[s].pc # "none"
           /\ worker'[s].pc \in Teardown =>
                worker[s].pc \in Teardown \/ (Spent(s)' /\ kind[Reply(s)] = "unhandled")
           /\ CallOver(s) => handler'[s] = handler[s] /\ ~Calling(s)' /\ worker'[s].pc \notin Teardown
  <2>1. ~Unborn(s)
    BY <1>6 DEF BirthInv, Blank
  <2>2. \A u \in Stream : \A t : Held(u, t)' => Held(u, t)
    BY <1>1, <1>2, HeldLess DEF View
  <2>3. \A q \in Replies : AbortPending(q)' => AbortPending(q)
    BY <1>1, <2>2 DEF AbortPending
  <2>4. HasCall(s)' => HasCall(s)
    <3>1. inbox[s] # <<>> /\ Head(inbox[s]).type = "Call" => Held(s, "Call")
      BY HasTail DEF Held, TypeOK, FramesOK
    <3> QED
      BY <1>2, <2>2, <3>1 DEF HasCall
  <2>5. CallOver(s) => CallOver(s)'
    BY <1>3, <1>6 DEF CallOver
  <2>6. \A u \in Stream :
          /\ Current(u)' <=> Current(u)
          /\ Unborn(u)' <=> Unborn(u)
          /\ HasCall(u)' => HasCall(u)
          /\ CallOver(u) => CallOver(u)'
          /\ u # s => (Spent(u)' <=> Spent(u)) /\ worker'[u] = worker[u]
    <3>1. \A u \in Stream : u # s =>
            (Spent(u)' <=> Spent(u)) /\ (HasCall(u)' <=> HasCall(u)) /\ (CallOver(u)' <=> CallOver(u))
            /\ worker'[u] = worker[u]
      BY <1>1 DEF View, Spent, Calling, HasCall, Held, InHand, CallOver
    <3> QED
      BY <1>1, <1>6, <2>4, <2>5, <3>1 DEF Current, Unborn
  <2> SUFFICES ASSUME NEW t \in Stream PROVE LiveAt(t)'
    OBVIOUS
  <2>7. CASE t = s
    BY <1>1, <1>3, <1>6, <2>1, <2>3, <2>6, <2>7, LiveKept, StreamParts
  <2>8. CASE t # s
    BY <1>1, <1>3, <2>3, <2>6, <2>8, LiveKept, StreamParts
  <2> QED
    BY <2>7, <2>8
<1> QED
  BY <1>4, <1>5, <1>6, WorkerKinds

\* A step of the handler.
LEMMA HandlerLive ==
  ASSUME TypeOK, BirthInv, RouteInv, \A u \in Stream : TornAt(u) /\ LiveAt(u), NEW s \in Stream,
         Handler(s)
  PROVE  \A t \in Stream : LiveAt(t)'
<1>1. /\ UNCHANGED <<kind, caller, requests, gen, dispatcher, inbox, worker>>
      /\ UNCHANGED streams \/ (handler[s].pc = "remove" /\ Remove(Reply(s)))
      /\ \A t \in Stream : t # s => UNCHANGED View(t)
      /\ handler[s].pc # "none" /\ handler'[s].pc # "none"
  BY HandlerAside
<1>2. /\ \A u \in Stream : ctxDone[u] => ctxDone'[u]
      /\ handler[s].pc \in {"failed", "exited"} => handler'[s].pc = "exited"
  BY HandlerTorn
<1>3. Spent(s) /\ Spent(s)' /\ ~Calling(s) /\ ~Calling(s)' /\ kind[Reply(s)] # "unhandled"
  BY <1>1 DEF Spent, Calling, RouteInv, CallingAt
<1>4. CASE handler[s].pc = "remove" /\ Remove(Reply(s))
  <2>1. ~CallOver(s) /\ ctxDone'[s]
    BY <1>2, <1>4 DEF CallOver, TornAt
  <2>2. ASSUME AbortPending(Reply(s)) PROVE CallOver(s)' /\ worker'[s].pc \notin Teardown
    <3>1. worker[s].pc \notin Teardown
      BY <1>3, <2>2 DEF LiveAt
    <3>2. handler'[s].pc \in {"failed", "exited"}
      <4>1. HandlerFinalize(s)
        BY <1>4
           DEF Handler, HandlerRecv, HandlerSendHeader, HandlerSend, HandlerReturns, UnaryRecv,
               UnaryCheck, UnarySend, HandlerClose
      <4> QED
        BY <1>4, <4>1 DEF HandlerFinalize, AfterStep, TypeOK, GoroutinesOK
    <3> QED
      BY <1>1, <1>3, <3>1, <3>2 DEF CallOver
  <2> QED
    BY <1>1, <1>3, <1>4, <2>1, <2>2, SpentRemoves
<1>5. CASE UNCHANGED streams
  <2>1. \A q \in Replies : AbortPending(q)' <=> AbortPending(q)
    BY <1>1 DEF AbortPending, Held, InHand
  <2>2. \A u \in Stream :
          /\ Current(u)' <=> Current(u)
          /\ Unborn(u)' <=> Unborn(u)
          /\ Held(u, "Call")' <=> Held(u, "Call")
    BY <1>1, <1>5 DEF Current, Unborn, Held, InHand
  <2>3. \A u \in Stream : (Spent(u)' <=> Spent(u)) /\ (CallOver(u) => CallOver(u)')
    <3>1. CallOver(s) => CallOver(s)'
      BY <1>1, <1>2, <1>3 DEF CallOver
    <3> QED
      BY <1>1, <1>3, <3>1 DEF View, Spent, Calling, CallOver
  <2>4. \A u \in Stream : HasCall(u)' <=> HasCall(u)
    BY <2>2, <2>3 DEF HasCall
  <2> QED
    BY <1>1, <1>2, <2>1, <2>2, <2>3, <2>4, LiveKept, StreamParts
<1> QED
  BY <1>1, <1>4, <1>5

\* onMessage: the frame goes to the entry, or to a new one, which nobody else has then.
LEMMA OnMessageLive ==
  ASSUME TypeOK, BirthInv, RouteInv, \A u \in Stream : LiveAt(u), NEW r \in Replies, OnMessage(r)
  PROVE  \A t \in Stream : LiveAt(t)'
<1>1. PICK s \in Stream :
           /\ Reply(s) = r /\ streams'[r] = Gen(s) /\ dispatcher' = <<s, Head(requests[r])>>
           /\ dispatcher = <<>> /\ requests[r] # <<>> /\ requests' = [requests EXCEPT ![r] = Tail(@)]
           /\ UNCHANGED <<kind, caller, inbox, hasBegun, handler>>
           /\ \/ Current(s) /\ UNCHANGED <<gen, streams, ctxDone, worker>>
              \/ /\ streams[r] = 0 /\ Gen(s) = gen[r] + 1
                 /\ gen' = [gen EXCEPT ![r] = @ + 1]
                 /\ streams' = [streams EXCEPT ![r] = Gen(s)]
                 /\ ctxDone' = [ctxDone EXCEPT ![s] = serverDone]
                 /\ worker' = [worker EXCEPT ![s].pc = "idle"]
  BY OnMessageCases
<1>2. PICK h : h = Head(requests[r])
  OBVIOUS
<1>3. dispatcher' # <<>> /\ dispatcher'[1] = s /\ dispatcher'[2] = h
  BY <1>1, <1>2
<1>4. \A u \in Stream : \A t : Held(u, t)' <=> Held(u, t) \/ (u = s /\ h.type = t)
  BY <1>1, <1>3 DEF InHand, Held
<1>5. ASSUME NEW q \in Replies, AbortPending(q)' PROVE AbortPending(q)
  <2>1. \A t : h.type = t \/ Has(requests'[r], t) => Has(requests[r], t)
    BY <1>1, <1>2, HasTail DEF TypeOK, WireOK
  <2>2. q # r => requests'[q] = requests[q]
    BY <1>1 DEF TypeOK, WireOK
  <2> QED
    BY <1>1, <1>4, <1>5, <2>1, <2>2 DEF AbortPending
<1>6. CASE Current(s) /\ UNCHANGED <<gen, streams, ctxDone, worker>>
  <2>1. \A u \in Stream :
          /\ Current(u)' <=> Current(u)
          /\ Unborn(u)' <=> Unborn(u)
          /\ Spent(u)' <=> Spent(u)
          /\ CallOver(u)' <=> CallOver(u)
    BY <1>1, <1>6 DEF Current, Unborn, Spent, Calling, CallOver
  <2>2. \A u \in Stream : HasCall(u)' => HasCall(u) \/ Current(u)
    BY <1>4, <1>6, <2>1 DEF HasCall
  <2> QED
    BY <1>1, <1>5, <1>6, <2>1, <2>2, LiveKept, StreamParts
<1>7. CASE /\ streams[r] = 0 /\ Gen(s) = gen[r] + 1
           /\ gen' = [gen EXCEPT ![r] = @ + 1]
           /\ streams' = [streams EXCEPT ![r] = Gen(s)]
           /\ ctxDone' = [ctxDone EXCEPT ![s] = serverDone]
           /\ worker' = [worker EXCEPT ![s].pc = "idle"]
  <2>0. /\ \A q \in Replies : gen[q] \in Nat /\ streams[q] \in Nat
        /\ \A u \in Stream : Gen(u) \in Nat \ {0} /\ Reply(u) \in Replies
    BY StreamParts DEF TypeOK, FramesOK, StreamsOK
  <2>1. /\ worker'[s].pc = "idle" /\ Current(s)' /\ ~Unborn(s)'
        /\ \A u \in Stream : u # s => UNCHANGED <<ctxDone[u], worker[u]>>
    <3>1. gen'[r] = gen[r] + 1
      BY <1>7 DEF TypeOK, FramesOK
    <3>2. worker'[s].pc = "idle" /\ \A u \in Stream : u # s => UNCHANGED <<ctxDone[u], worker[u]>>
      BY <1>7 DEF TypeOK, GoroutinesOK, StreamsOK
    <3> QED
      BY <1>1, <1>7, <2>0, <3>1, <3>2 DEF Current, Unborn
  <2>2. LiveAt(s)'
    BY <2>1 DEF LiveAt, Teardown
  <2>3. \A u \in Stream : u # s =>
          (Spent(u)' <=> Spent(u)) /\ (CallOver(u)' <=> CallOver(u)) /\ (HasCall(u)' <=> HasCall(u))
    BY <1>1, <1>4, <2>1 DEF Spent, Calling, CallOver, HasCall
  <2>4. ASSUME NEW t \in Stream, t # s, Reply(t) = r PROVE LiveAt(t)'
    <3>1. ~Current(t) /\ r \in Replies
      BY <1>7, <2>0, <2>4 DEF Current
    <3>2. (HasCall(t) => ctxDone[t]) /\ ~(worker[t].pc \in Teardown /\ ~Spent(t))
      BY <3>1 DEF LiveAt
    <3>3. Unborn(t) => Unborn(t)'
      <4>1. Gen(t) # Gen(s)
        BY <1>1, <2>4, StreamIs
      <4>2. gen'[r] = gen[r] + 1
        BY <1>7 DEF TypeOK, FramesOK
      <4> QED
        BY <1>7, <2>0, <2>4, <4>1, <4>2 DEF Unborn
    <3>4. AbortPending(r) => (Spent(t) => CallOver(t)) /\ (Spent(t) \/ Unborn(t))
                             /\ (worker[t].pc \in Teardown => kind[r] = "unhandled")
      BY <2>4, <3>1 DEF LiveAt
    <3>5. AbortPending(r)' => AbortPending(r)
      BY <1>5
    <3> QED
      BY <1>1, <2>1, <2>3, <2>4, <3>2, <3>3, <3>4, <3>5 DEF LiveAt
  <2>5. ASSUME NEW t \in Stream, Reply(t) # r PROVE LiveAt(t)'
    <3>1. (Current(t)' <=> Current(t)) /\ (Unborn(t)' <=> Unborn(t))
      BY <1>7, <2>0, <2>5 DEF Current, Unborn, TypeOK, StreamsOK, FramesOK
    <3>2. t # s /\ \A u \in Stream : Reply(u) = Reply(t) => u # s
      BY <1>1, <2>5
    <3> QED
      BY <1>1, <1>5, <2>0, <2>1, <2>3, <3>1, <3>2, LiveKept
  <2> QED
    BY <1>1, <2>2, <2>4, <2>5
<1> QED
  BY <1>1, <1>6, <1>7

\* Every step preserves the invariant.
LEMMA NextLive == TypeOK /\ BirthInv /\ RouteInv /\ LiveInv /\ [Next]_vars => LiveInv'
<1> SUFFICES ASSUME TypeOK, BirthInv, RouteInv, LiveInv, [Next]_vars PROVE LiveInv'
  OBVIOUS
<1>1. \A s \in Stream : TornAt(s) /\ TornAt(s)'
  BY NextTorn DEF LiveInv
<1> SUFFICES ASSUME Calm' PROVE \A s \in Stream : LiveAt(s)'
  BY <1>1 DEF LiveInv
<1>2. ASSUME UNCHANGED <<stopper, closer>> PROVE \A s \in Stream : LiveAt(s)
  BY <1>2 DEF LiveInv, Calm
<1>3. ASSUME UNCHANGED <<kind, streams, gen, ctxDone, hasBegun, worker, handler, stopper, closer>>,
             \A s \in Stream : Held(s, "Call")' => Held(s, "Call"),
             \A q \in Replies : AbortPending(q)' => AbortPending(q)
      PROVE  \A s \in Stream : LiveAt(s)'
  <2>1. \A u \in Stream :
          /\ Current(u)' <=> Current(u)
          /\ Unborn(u)' <=> Unborn(u)
          /\ Spent(u)' <=> Spent(u)
          /\ CallOver(u)' <=> CallOver(u)
    BY <1>3 DEF Current, Unborn, Spent, Calling, CallOver
  <2>2. \A u \in Stream : HasCall(u)' => HasCall(u)
    BY <1>3, <2>1 DEF HasCall
  <2> QED
    BY <1>2, <1>3, <2>1, <2>2, LiveKept, StreamParts
<1>4. ASSUME NEW r \in Replies,
             CallerCall(r) \/ CallerData(r) \/ CallerCloseSend(r) \/ CallerAborts(r) \/ CallerPings(r)
      PROVE  \A s \in Stream : LiveAt(s)'
  <2>0. /\ caller \in [Replies -> [called : BOOLEAN, half : BOOLEAN, aborted : BOOLEAN,
                                   data : Nat, frames : Nat]]
        /\ requests \in [Replies -> Seq(Request)]
        /\ caller[r].data + 1 \in Nat
    BY DEF TypeOK, WireOK
  <2>1. ASSUME NEW f \in Request, NEW state, CallerWrites(r, f, state), f.type = "EndErr" => ~caller[r].aborted,
               state.aborted = caller[r].aborted \/ ~caller[r].aborted
        PROVE  \A s \in Stream : LiveAt(s)'
    <3>1. /\ requests' = [requests EXCEPT ![r] = Append(@, f)]
          /\ UNCHANGED <<kind, dispatcher, inbox, streams, gen, ctxDone, hasBegun, worker, handler,
                         stopper, closer>>
          /\ caller' = [caller EXCEPT ![r] = [state EXCEPT !.frames = @ + 1]]
      BY <2>1 DEF CallerWrites, frameVars, adminVars
    <3>2. PICK now : now = [state EXCEPT !.frames = @ + 1]
      OBVIOUS
    <3>3. now.aborted = state.aborted
      BY <3>2
    <3>4. caller'[r] = now /\ \A q \in Replies : q # r => caller'[q] = caller[q] /\ requests'[q] = requests[q]
      BY <2>0, <3>1, <3>2
    <3>5. \A s \in Stream : \A t : Held(s, t)' <=> Held(s, t)
      BY <3>1 DEF Held, InHand
    <3>6. Has(requests'[r], "EndErr") <=> Has(requests[r], "EndErr") \/ f.type = "EndErr"
      BY <2>0, <3>1, HasAppend
    <3>7. \A q \in Replies : AbortPending(q)' => AbortPending(q)
      BY <2>1, <3>3, <3>4, <3>5, <3>6 DEF AbortPending
    <3> QED
      BY <1>3, <3>1, <3>5, <3>7
  <2>2. /\ Frame("Call", 0) \in Request /\ Frame("Data", caller[r].data + 1) \in Request
        /\ Frame("EndOK", 0) \in Request /\ Frame("EndErr", 0) \in Request
        /\ Frame("Ping", 0) \in Request
    BY <2>0, FrameTypes, 0 \in Nat
  <2>3. /\ Frame("Call", 0).type = "Call" /\ Frame("Data", caller[r].data + 1).type = "Data"
        /\ Frame("EndOK", 0).type = "EndOK" /\ Frame("EndErr", 0).type = "EndErr"
        /\ Frame("Ping", 0).type = "Ping"
    BY DEF Frame
  <2>4. CASE CallerCall(r)
    BY <2>0, <2>1, <2>2, <2>3, <2>4 DEF CallerCall
  <2>5. CASE CallerData(r)
    BY <2>0, <2>1, <2>2, <2>3, <2>5 DEF CallerData
  <2>6. CASE CallerCloseSend(r)
    BY <2>0, <2>1, <2>2, <2>3, <2>6 DEF CallerCloseSend
  <2>7. CASE CallerAborts(r)
    BY <2>0, <2>1, <2>2, <2>3, <2>7 DEF CallerAborts
  <2>8. CASE CallerPings(r)
    BY <2>0, <2>1, <2>2, <2>3, <2>8 DEF CallerPings
  <2> QED
    BY <1>4, <2>4, <2>5, <2>6, <2>7, <2>8
<1>5. ASSUME NEW r \in Replies, OnMessage(r) PROVE \A s \in Stream : LiveAt(s)'
  <2>1. UNCHANGED <<stopper, closer>>
    BY <1>5 DEF OnMessage, adminVars
  <2> QED
    BY <1>2, <1>5, <2>1, OnMessageLive
<1>6. CASE Enqueue
  <2>1. PICK s \in Stream, f \in Request :
           /\ dispatcher = <<s, f>> /\ dispatcher' = <<>>
           /\ UNCHANGED <<wireVars, adminVars, gen, streams, ctxDone, hasBegun, worker, handler>>
           /\ \A t \in Stream : t # s => inbox'[t] = inbox[t]
           /\ inbox'[s] = Append(inbox[s], f) \/ inbox'[s] = inbox[s]
    BY <1>6, EnqueueCases
  <2>2. \A u \in Stream : \A t : Held(u, t)' => Held(u, t)
    <3>1. \A t : Has(Append(inbox[s], f), t) <=> Has(inbox[s], t) \/ f.type = t
      BY HasAppend DEF TypeOK, FramesOK
    <3>2. dispatcher # <<>> /\ dispatcher[1] = s /\ dispatcher[2] = f
      BY <2>1
    <3> QED
      BY <2>1, <3>1, <3>2 DEF Held, InHand
  <2>3. \A q \in Replies : AbortPending(q)' => AbortPending(q)
    BY <2>1, <2>2 DEF AbortPending, wireVars
  <2> QED
    BY <1>3, <2>1, <2>2, <2>3 DEF wireVars, adminVars
<1>7. ASSUME NEW s \in Stream, Worker(s) \/ Handler(s) PROVE \A t \in Stream : LiveAt(t)'
  <2>1. UNCHANGED <<stopper, closer>>
    BY <1>7, WorkerAside, HandlerAside DEF adminVars
  <2> QED
    BY <1>1, <1>2, <1>7, <2>1, WorkerLive, HandlerLive
<1>8. ~Stop /\ ~CloseStream
  BY StopAside, CloseAside DEF Calm
<1>9. CASE UNCHANGED vars
  <2>1. \A s \in Stream : \A t : Held(s, t)' <=> Held(s, t)
    BY <1>9 DEF vars, frameVars, Held, InHand
  <2>2. \A q \in Replies : AbortPending(q)' <=> AbortPending(q)
    BY <1>9, <2>1 DEF vars, wireVars, AbortPending
  <2> QED
    BY <1>3, <1>9, <2>1, <2>2 DEF vars, wireVars, frameVars, adminVars
<1> QED
  BY <1>4, <1>5, <1>6, <1>7, <1>8, <1>9 DEF Next, Caller, Server

\* There is no stream yet.
LEMMA InitLive == Init => LiveInv
<1> SUFFICES ASSUME Init PROVE LiveInv
  OBVIOUS
<1>1. \A s \in Stream : TornAt(s)
  BY DEF Init, TornAt
<1>2. ASSUME NEW s \in Stream PROVE LiveAt(s)
  <2>1. ~Has(<<>>, "Call")
    BY DEF Has
  <2>2. ~HasCall(s)
    BY <2>1 DEF Init, HasCall, Held, InHand, Spent, Calling
  <2>3. Unborn(s) /\ worker[s].pc = "none"
    <3>1. gen[Reply(s)] = 0 /\ Gen(s) \in Nat \ {0}
      BY StreamParts DEF Init
    <3> QED
      BY <3>1 DEF Unborn, Init
  <2> QED
    BY <2>2, <2>3 DEF LiveAt, Teardown, HasCall
<1> QED
  BY <1>1, <1>2 DEF LiveInv

\* Until Stop or CloseStream is called, the stream of a handler that runs is the entry of
\* its reply: no teardown of another object with the same reply, a late End included,
\* takes the entry away from it.
THEOREM LiveHandlerKeepsEntry == Spec => []LiveHandlerReachable
<1>1. LiveInv => LiveHandlerReachable
  BY DEF LiveInv, LiveHandlerReachable, Calm, LiveAt, HasCall, Spent, Current
<1> QED
  BY <1>1, InitBirth, InitRoute, InitLive, TypeCorrect, NextBirth, NextRoute, NextLive, PTL DEF Spec

-----------------------------------------------------------------------------
(* What a caller reads from its reply inbox                                  *)

\* The order ResponseProtocol asks for.
Lawful(q) == \A i, j \in 1..Len(q) :
  i < j /\ NotPong(q[i]) /\ NotPong(q[j]) =>
    /\ q[j].type # "Begin" /\ ~IsEnd(q[i])
    /\ q[i].type = "Data" /\ q[j].type = "Data" => q[i].n < q[j].n

\* Nothing but Pong.
Mute(q) == \A i \in 1..Len(q) : ~NotPong(q[i])

\* More may come: there is no End, and no Data behind the n-th.
Open(q, n) == Lawful(q) /\ \A i \in 1..Len(q) :
  NotPong(q[i]) => ~IsEnd(q[i]) /\ (q[i].type = "Data" => q[i].n <= n)

\* A handler that sends nothing any more.
Silent == Teardown \cup {"none", "failed", "exited"}

\* What was published for the stream's reply agrees with the stream.
SaidAt(s) ==
  /\ Lawful(responses[Reply(s)])
  /\ ~hasBegun[s] => Mute(responses[Reply(s)])
  /\ handler[s].pc \notin Silent => Open(responses[Reply(s)], handler[s].sends)

\* Whatever was published, one of the reply's streams has done it.
ReplyAt(r) ==
  /\ Lawful(responses[r])
  /\ Mute(responses[r]) \/ \E s \in Stream : Reply(s) = r /\ hasBegun[s] /\ SaidAt(s)

\* The inductive invariant behind ResponseProtocol, with RouteInv and LiveInv's TornAt.
ReplyInv ==
  /\ \A r \in Replies : ReplyAt(r)
  /\ \A s \in Stream : hasBegun[s] /\ handler[s].pc = "none" => kind[Reply(s)] = "unhandled"

\* A queue and one frame more.
LEMMA OneMore ==
  ASSUME NEW q \in Seq(Response), NEW f \in Response
  PROVE  \E p \in Seq(Response) :
           /\ p = Append(q, f)
           /\ Len(q) \in Nat /\ Len(p) = Len(q) + 1 /\ p[Len(q) + 1] = f
           /\ \A i \in 1..Len(q) : p[i] = q[i]
           /\ \A i \in 1..Len(p) : i \in 1..Len(q) \/ i = Len(q) + 1
<1>1. PICK p \in Seq(Response) : p = Append(q, f)
  BY AppendProperties
<1>2. /\ Len(q) \in Nat /\ Len(p) = Len(q) + 1 /\ p[Len(q) + 1] = f
      /\ \A i \in 1..Len(q) : p[i] = q[i]
      /\ \A i \in 1..Len(p) : i \in 1..Len(q) \/ i = Len(q) + 1
  BY <1>1, AppendProperties
<1> QED
  BY <1>1, <1>2

\* A frame that may come behind all there are.
LEMMA LawfulAppend ==
  ASSUME NEW q \in Seq(Response), NEW f \in Response, Lawful(q),
         NotPong(f) => \A i \in 1..Len(q) : NotPong(q[i]) =>
           /\ f.type # "Begin" /\ ~IsEnd(q[i])
           /\ q[i].type = "Data" /\ f.type = "Data" => q[i].n < f.n
  PROVE  Lawful(Append(q, f))
<1>1. PICK p \in Seq(Response) :
        /\ p = Append(q, f)
        /\ Len(q) \in Nat /\ Len(p) = Len(q) + 1 /\ p[Len(q) + 1] = f
        /\ \A i \in 1..Len(q) : p[i] = q[i]
        /\ \A i \in 1..Len(p) : i \in 1..Len(q) \/ i = Len(q) + 1
  BY OneMore
<1> SUFFICES ASSUME NEW i \in 1..Len(p), NEW j \in 1..Len(p), i < j, NotPong(p[i]), NotPong(p[j])
             PROVE  /\ p[j].type # "Begin" /\ ~IsEnd(p[i])
                    /\ p[i].type = "Data" /\ p[j].type = "Data" => p[i].n < p[j].n
  BY <1>1 DEF Lawful
<1>2. CASE i \in 1..Len(q) /\ j \in 1..Len(q)
  BY <1>1, <1>2 DEF Lawful
<1>3. CASE i \in 1..Len(q) /\ j = Len(q) + 1
  BY <1>1, <1>3
<1>4. CASE i = Len(q) + 1
  BY <1>1, <1>4
<1> QED
  BY <1>1, <1>2, <1>3, <1>4

\* A silent queue is open, and an open one may go on.
LEMMA OpenStays ==
  ASSUME NEW q \in Seq(Response), NEW n \in Nat
  PROVE  /\ Mute(q) => Open(q, n)
         /\ Open(q, n) => Lawful(q) /\ Open(q, n + 1)
<1>1. \A i \in 1..Len(q) : q[i] \in Response
  OBVIOUS
<1>2. \A i \in 1..Len(q) : q[i].n \in Nat
  BY <1>1 DEF Response
<1> QED
  BY <1>2 DEF Mute, Open, Lawful

\* A Pong changes nothing.
LEMMA PongAppend ==
  ASSUME NEW q \in Seq(Response), NEW f \in Response, ~NotPong(f)
  PROVE  /\ Lawful(q) => Lawful(Append(q, f))
         /\ Mute(q) => Mute(Append(q, f))
         /\ \A n \in Nat : Open(q, n) => Open(Append(q, f), n)
<1>1. PICK p \in Seq(Response) :
        /\ p = Append(q, f)
        /\ Len(q) \in Nat /\ Len(p) = Len(q) + 1 /\ p[Len(q) + 1] = f
        /\ \A i \in 1..Len(q) : p[i] = q[i]
        /\ \A i \in 1..Len(p) : i \in 1..Len(q) \/ i = Len(q) + 1
  BY OneMore
<1>2. Lawful(q) => Lawful(p)
  BY <1>1, LawfulAppend
<1>3. Mute(q) => Mute(p)
  BY <1>1 DEF Mute
<1>4. \A n \in Nat : Open(q, n) => Open(p, n)
  BY <1>1, <1>2 DEF Open
<1> QED
  BY <1>1, <1>2, <1>3, <1>4

\* Begin is the first.
LEMMA BeginAppend ==
  ASSUME NEW q \in Seq(Response), NEW f \in Response, f.type = "Begin", Mute(q), NEW n \in Nat
  PROVE  Open(Append(q, f), n)
<1>1. PICK p \in Seq(Response) :
        /\ p = Append(q, f)
        /\ Len(q) \in Nat /\ Len(p) = Len(q) + 1 /\ p[Len(q) + 1] = f
        /\ \A i \in 1..Len(q) : p[i] = q[i]
        /\ \A i \in 1..Len(p) : i \in 1..Len(q) \/ i = Len(q) + 1
  BY OneMore
<1>2. Lawful(q)
  BY OpenStays
<1>3. Lawful(p)
  BY <1>1, <1>2, LawfulAppend DEF Mute
<1>4. ~IsEnd(f)
  BY DEF IsEnd
<1>5. \A i \in 1..Len(p) : NotPong(p[i]) => ~IsEnd(p[i]) /\ (p[i].type = "Data" => p[i].n <= n)
  BY <1>1, <1>4 DEF Mute
<1> QED
  BY <1>1, <1>3, <1>5 DEF Open

\* Data comes in order.
LEMMA SendAppend ==
  ASSUME NEW q \in Seq(Response), NEW f \in Response, NEW n \in Nat, f.type = "Data", f.n = n + 1, Open(q, n)
  PROVE  Open(Append(q, f), n + 1)
<1>1. PICK p \in Seq(Response) :
        /\ p = Append(q, f)
        /\ Len(q) \in Nat /\ Len(p) = Len(q) + 1 /\ p[Len(q) + 1] = f
        /\ \A i \in 1..Len(q) : p[i] = q[i]
        /\ \A i \in 1..Len(p) : i \in 1..Len(q) \/ i = Len(q) + 1
  BY OneMore
<1>2. \A i \in 1..Len(q) : q[i] \in Response
  OBVIOUS
<1>3. \A i \in 1..Len(q) : q[i].n \in Nat /\ (q[i].n <= n => q[i].n < n + 1 /\ q[i].n <= n + 1)
  BY <1>2 DEF Response
<1>4. Lawful(p)
  <2>1. \A i \in 1..Len(q) : NotPong(q[i]) =>
           /\ f.type # "Begin" /\ ~IsEnd(q[i])
           /\ q[i].type = "Data" /\ f.type = "Data" => q[i].n < f.n
    BY <1>3 DEF Open
  <2> QED
    BY <1>1, <2>1, LawfulAppend DEF Open
<1>5. ~IsEnd(f) /\ n + 1 <= n + 1
  BY DEF IsEnd
<1>6. \A i \in 1..Len(p) : NotPong(p[i]) => ~IsEnd(p[i]) /\ (p[i].type = "Data" => p[i].n <= n + 1)
  BY <1>1, <1>3, <1>5 DEF Open
<1> QED
  BY <1>1, <1>4, <1>6 DEF Open

\* End is the last.
LEMMA EndAppend ==
  ASSUME NEW q \in Seq(Response), NEW f \in Response, NEW n \in Nat, IsEnd(f), Open(q, n)
  PROVE  Lawful(Append(q, f))
<1>1. f.type \notin {"Begin", "Data"}
  BY DEF IsEnd
<1> QED
  BY <1>1, LawfulAppend DEF Open

\* Publishing nothing, a frame, or two.
LEMMA Published ==
  ASSUME NEW q \in Seq(Response), NEW f \in Response, NEW g \in Response
  PROVE  /\ q \o <<>> = q /\ q \o (<<>> \o <<>>) = q
         /\ q \o <<f>> = Append(q, f)
         /\ q \o (<<>> \o <<f>>) = Append(q, f)
         /\ q \o (<<f>> \o <<>>) = Append(q, f)
         /\ q \o (<<f>> \o <<g>>) = Append(Append(q, f), g)
<1>1. <<f>> \in Seq(Response) /\ <<g>> \in Seq(Response) /\ <<>> \in Seq(Response)
  OBVIOUS
<1>2. q \o <<>> = q /\ <<>> \o <<f>> = <<f>> /\ <<f>> \o <<>> = <<f>> /\ <<>> \o <<>> = <<>>
  BY <1>1, ConcatEmptySeq
<1>3. ASSUME NEW p \in Seq(Response), NEW x \in Response PROVE p \o <<x>> = Append(p, x)
  <2>1. Len(<<x>>) = 1 /\ <<x>>[1] = x /\ <<x>> \in Seq(Response) /\ Len(p) \in Nat
    OBVIOUS
  <2>2. PICK u \in Seq(Response), v \in Seq(Response) : u = p \o <<x>> /\ v = Append(p, x)
    BY <2>1, ConcatProperties, AppendProperties
  <2>3. Len(u) = Len(p) + 1 /\ \A i \in 1..Len(u) : u[i] = IF i <= Len(p) THEN p[i] ELSE <<x>>[i - Len(p)]
    BY <2>1, <2>2, ConcatProperties
  <2>4. Len(v) = Len(p) + 1 /\ v[Len(p) + 1] = x /\ \A i \in 1..Len(p) : v[i] = p[i]
    BY <2>2, AppendProperties
  <2>5. \A i \in 1..Len(u) : u[i] = v[i]
    <3> SUFFICES ASSUME NEW i \in 1..Len(u) PROVE u[i] = v[i]
      OBVIOUS
    <3>1. CASE i \in 1..Len(p)
      BY <2>1, <2>3, <2>4, <3>1
    <3>2. CASE i = Len(p) + 1
      BY <2>1, <2>3, <2>4, <3>2
    <3> QED
      BY <2>1, <2>3, <3>1, <3>2
  <2>6. u = v
    BY <2>3, <2>4, <2>5, SeqEqual
  <2> QED
    BY <2>2, <2>6
<1>4. Append(q, f) \in Seq(Response)
  BY AppendProperties
<1>5. q \o (<<f>> \o <<g>>) = (q \o <<f>>) \o <<g>>
  BY <1>1, ConcatAssociative
<1> QED
  BY <1>1, <1>2, <1>3, <1>4, <1>5

\* close: what it writes is the stream's last.
LEMMA CloseSays ==
  ASSUME TypeOK, NEW s \in Stream, NEW end \in Response, CloseWrites(s, end), IsEnd(end), SaidAt(s),
         Open(responses[Reply(s)], handler[s].sends)
  PROVE  /\ Lawful(responses'[Reply(s)])
         /\ \A q \in Replies : q # Reply(s) => responses'[q] = responses[q]
<1>1. PICK begin \in Unchecked(BeginMaybe(s)), sent \in Unchecked(<<end>>) :
        Publish(Reply(s), begin \o sent)
  BY DEF CloseWrites
<1>2. /\ responses'[Reply(s)] = responses[Reply(s)] \o (begin \o sent)
      /\ \A q \in Replies : q # Reply(s) => responses'[q] = responses[q]
      /\ responses[Reply(s)] \in Seq(Response)
  BY <1>1, StreamParts DEF Publish, TypeOK, WireOK
<1>3. PICK q \in Seq(Response), f \in Response : q = responses[Reply(s)] /\ f = Frame("Begin", 0)
  BY <1>2, FrameTypes, 0 \in Nat
<1>4. PICK n \in Nat : n = handler[s].sends
  BY DEF TypeOK, GoroutinesOK
<1>5. \/ responses'[Reply(s)] = q
      \/ responses'[Reply(s)] = Append(q, end)
      \/ ~hasBegun[s] /\ responses'[Reply(s)] = Append(q, f)
      \/ ~hasBegun[s] /\ responses'[Reply(s)] = Append(Append(q, f), end)
  <2>1. begin = <<>> \/ (~hasBegun[s] /\ begin = <<f>>)
    BY <1>1, <1>3 DEF Unchecked, BeginMaybe
  <2>2. sent = <<>> \/ sent = <<end>>
    BY <1>1 DEF Unchecked
  <2>3. PICK res : res = responses'[Reply(s)]
    OBVIOUS
  <2>4. res = q \o (begin \o sent)
    BY <1>2, <1>3, <2>3
  <2>5. /\ q \o (<<>> \o <<>>) = q
        /\ q \o (<<>> \o <<end>>) = Append(q, end)
        /\ q \o (<<f>> \o <<>>) = Append(q, f)
        /\ q \o (<<f>> \o <<end>>) = Append(Append(q, f), end)
    BY Published
  <2>6. \/ res = q
        \/ res = Append(q, end)
        \/ ~hasBegun[s] /\ res = Append(q, f)
        \/ ~hasBegun[s] /\ res = Append(Append(q, f), end)
    BY <2>1, <2>2, <2>4, <2>5, Zenon
  <2> QED
    BY <2>3, <2>6
<1>6. f.type = "Begin"
  BY <1>3 DEF Frame
<1>7. Open(q, n) /\ (~hasBegun[s] => Mute(q))
  BY <1>3, <1>4 DEF SaidAt
<1>8. Lawful(q) /\ Lawful(Append(q, end))
  BY <1>7, OpenStays, EndAppend
<1>9. ASSUME ~hasBegun[s] PROVE Lawful(Append(q, f)) /\ Lawful(Append(Append(q, f), end))
  <2>1. PICK p \in Seq(Response) : p = Append(q, f)
    BY AppendProperties
  <2>2. Open(p, n)
    BY <1>6, <1>7, <1>9, <2>1, BeginAppend
  <2>3. Lawful(p) /\ Lawful(Append(p, end))
    BY <2>2, OpenStays, EndAppend
  <2> QED
    BY <2>1, <2>3
<1> QED
  BY <1>2, <1>5, <1>8, <1>9

\* SendMsg: Data goes out in order, behind Begin.
LEMMA SendSays ==
  ASSUME TypeOK, NEW s \in Stream, NEW next, SendData(s, next), SaidAt(s), handler[s].pc \notin Silent
  PROVE  SaidAt(s)' /\ \A q \in Replies : q # Reply(s) => responses'[q] = responses[q]
<1>1. PICK n \in Nat : n = handler[s].sends
  BY DEF TypeOK, GoroutinesOK
<1>2. PICK sent \in Unchecked(<<Frame("Data", n + 1)>>) : Publish(Reply(s), BeginMaybe(s) \o sent)
  BY <1>1 DEF SendData
<1>3. /\ responses'[Reply(s)] = responses[Reply(s)] \o (BeginMaybe(s) \o sent)
      /\ \A q \in Replies : q # Reply(s) => responses'[q] = responses[q]
      /\ responses[Reply(s)] \in Seq(Response)
  BY <1>2, StreamParts DEF Publish, TypeOK, WireOK
<1>4. PICK q \in Seq(Response), f \in Response, d \in Response :
        q = responses[Reply(s)] /\ f = Frame("Begin", 0) /\ d = Frame("Data", n + 1)
  BY <1>3, FrameTypes, 0 \in Nat, n + 1 \in Nat
<1>5. hasBegun'[s] /\ handler'[s].sends = n + 1
  BY <1>1 DEF SendData, TypeOK, StreamsOK, GoroutinesOK
<1>6. f.type = "Begin" /\ d.type = "Data" /\ d.n = n + 1
  BY <1>4 DEF Frame
<1>7. Open(q, n) /\ (~hasBegun[s] => Mute(q))
  BY <1>1, <1>4 DEF SaidAt
<1>8. \/ responses'[Reply(s)] = q
      \/ responses'[Reply(s)] = Append(q, d)
      \/ ~hasBegun[s] /\ responses'[Reply(s)] = Append(q, f)
      \/ ~hasBegun[s] /\ responses'[Reply(s)] = Append(Append(q, f), d)
  <2>1. PICK begin : begin = BeginMaybe(s)
    OBVIOUS
  <2>2. begin = <<>> \/ (~hasBegun[s] /\ begin = <<f>>)
    BY <1>4, <2>1 DEF BeginMaybe
  <2>3. sent = <<>> \/ sent = <<d>>
    BY <1>2, <1>4 DEF Unchecked
  <2>4. PICK res : res = responses'[Reply(s)]
    OBVIOUS
  <2>5. res = q \o (begin \o sent)
    BY <1>3, <1>4, <2>1, <2>4
  <2>6. /\ q \o (<<>> \o <<>>) = q
        /\ q \o (<<>> \o <<d>>) = Append(q, d)
        /\ q \o (<<f>> \o <<>>) = Append(q, f)
        /\ q \o (<<f>> \o <<d>>) = Append(Append(q, f), d)
    BY Published
  <2>7. \/ res = q
        \/ res = Append(q, d)
        \/ ~hasBegun[s] /\ res = Append(q, f)
        \/ ~hasBegun[s] /\ res = Append(Append(q, f), d)
    BY <2>2, <2>3, <2>5, <2>6, Zenon
  <2> QED
    BY <2>4, <2>7
<1>9. Open(q, n + 1) /\ Open(Append(q, d), n + 1)
  BY <1>6, <1>7, OpenStays, SendAppend
<1>10. ASSUME ~hasBegun[s] PROVE Open(Append(q, f), n + 1) /\ Open(Append(Append(q, f), d), n + 1)
  <2>1. PICK p \in Seq(Response) : p = Append(q, f)
    BY AppendProperties
  <2>2. Open(p, n)
    BY <1>6, <1>7, <1>10, <2>1, BeginAppend
  <2>3. Open(p, n + 1) /\ Open(Append(p, d), n + 1)
    BY <1>6, <2>2, OpenStays, SendAppend
  <2> QED
    BY <2>1, <2>3
<1>11. Open(responses'[Reply(s)], n + 1)
  BY <1>8, <1>9, <1>10
<1> QED
  BY <1>3, <1>5, <1>11 DEF SaidAt, Open

\* A step of the handler.
LEMMA HandlerSays ==
  ASSUME TypeOK, NEW s \in Stream, Handler(s), TornAt(s), SaidAt(s)
  PROVE  SaidAt(s)' /\ \A q \in Replies : q # Reply(s) => responses'[q] = responses[q]
<1>0. /\ handler \in [Stream -> [pc : HandlerPC, sends : Nat, got : Seq(Nat),
                                 resume : {"failed", "exited"}]]
      /\ hasBegun \in [Stream -> BOOLEAN]
      /\ responses \in [Replies -> Seq(Response)]
      /\ Reply(s) \in Replies
  BY StreamParts DEF TypeOK, StreamsOK, GoroutinesOK, WireOK
<1>1. PICK n \in Nat : n = handler[s].sends
  BY <1>0
<1>2. PICK q \in Seq(Response), f \in Response, e \in Response :
        q = responses[Reply(s)] /\ f = Frame("Begin", 0) /\ e = Frame("EndErr", 0)
  BY <1>0, FrameTypes, 0 \in Nat
<1>3. f.type = "Begin" /\ e.type = "EndErr" /\ IsEnd(e)
  BY <1>2 DEF Frame, IsEnd
<1>4. Lawful(q) /\ (~hasBegun[s] => Mute(q) /\ Open(q, n))
  BY <1>2, OpenStays DEF SaidAt
<1>5. ASSUME UNCHANGED <<responses, hasBegun>>, handler'[s].sends = handler[s].sends,
             handler[s].pc \in Silent => handler'[s].pc \in Silent
      PROVE  SaidAt(s)' /\ \A r \in Replies : r # Reply(s) => responses'[r] = responses[r]
  BY <1>5 DEF SaidAt
<1>6. CASE HandlerRecv(s)
  BY <1>0, <1>5, <1>6 DEF HandlerRecv, wireVars
<1>7. CASE HandlerSendHeader(s)
  <2>1. PICK begin \in Unchecked(BeginMaybe(s)) : Publish(Reply(s), begin)
    BY <1>7 DEF HandlerSendHeader
  <2>2. /\ ~hasBegun[s] /\ hasBegun'[s] /\ UNCHANGED handler
        /\ responses'[Reply(s)] = q \o begin
        /\ \A r \in Replies : r # Reply(s) => responses'[r] = responses[r]
    BY <1>0, <1>2, <1>7, <2>1 DEF HandlerSendHeader, Publish
  <2>3. begin = <<>> \/ begin = <<f>>
    BY <1>2, <2>1, <2>2 DEF Unchecked, BeginMaybe
  <2>4. q \o <<>> = q /\ q \o <<f>> = Append(q, f)
    BY Published
  <2>5. Open(q, n) /\ Open(Append(q, f), n)
    BY <1>3, <1>4, <2>2, BeginAppend
  <2>6. Open(responses'[Reply(s)], n)
    BY <2>2, <2>3, <2>4, <2>5
  <2> QED
    BY <1>1, <2>2, <2>6 DEF SaidAt, Open
<1>8. ASSUME NEW next, SendData(s, next), handler[s].pc \in {"user", "usend"}
      PROVE  SaidAt(s)' /\ \A r \in Replies : r # Reply(s) => responses'[r] = responses[r]
  <2>1. handler[s].pc \notin Silent
    BY <1>8 DEF Silent, Teardown
  <2> QED
    BY <1>8, <2>1, SendSays
<1>9. ASSUME NEW resume, SendFails(s, resume)
      PROVE  SaidAt(s)' /\ \A r \in Replies : r # Reply(s) => responses'[r] = responses[r]
  <2>1. PICK sent \in Unchecked(<<Frame("EndErr", 0)>>) : Publish(Reply(s), sent)
    BY <1>9 DEF SendFails
  <2>2. ~hasBegun[s] /\ hasBegun'[s] /\ handler'[s].pc = "once"
    BY <1>0, <1>9 DEF SendFails
  <2>3. /\ responses'[Reply(s)] = q \o sent
        /\ \A r \in Replies : r # Reply(s) => responses'[r] = responses[r]
    BY <1>0, <1>2, <2>1 DEF Publish
  <2>4. sent = <<>> \/ sent = <<e>>
    BY <1>2, <2>1 DEF Unchecked
  <2>5. q \o <<>> = q /\ q \o <<e>> = Append(q, e)
    BY Published
  <2>6. Lawful(q) /\ Lawful(Append(q, e))
    BY <1>3, <1>4, <2>2, EndAppend
  <2>7. Lawful(responses'[Reply(s)])
    BY <2>3, <2>4, <2>5, <2>6
  <2>8. handler'[s].pc \in Silent
    BY <2>2 DEF Silent, Teardown
  <2> QED
    BY <2>2, <2>3, <2>7, <2>8 DEF SaidAt
<1>10. CASE HandlerSend(s)
  BY <1>8, <1>9, <1>10 DEF HandlerSend
<1>11. CASE HandlerReturns(s)
  <2>1. /\ handler[s].pc \in {"user", "failed"} /\ handler'[s].pc \in {"exited", "close"}
        /\ handler'[s].sends = handler[s].sends /\ UNCHANGED <<responses, hasBegun>>
    BY <1>0, <1>11 DEF HandlerReturns, HandlerStep, wireVars
  <2>2. handler[s].pc = "failed" => handler'[s].pc = "exited"
    BY HandlerTorn
  <2> QED
    BY <1>5, <2>1, <2>2 DEF Silent, Teardown
<1>12. CASE UnaryRecv(s)
  <2>1. /\ handler[s].pc = "urecv" /\ handler'[s].sends = handler[s].sends
        /\ UNCHANGED <<responses, hasBegun>>
    BY <1>0, <1>12 DEF UnaryRecv, HandlerStep, wireVars
  <2> QED
    BY <1>5, <2>1 DEF Silent, Teardown
<1>13. CASE UnaryCheck(s)
  <2>1. /\ handler[s].pc = "ucheck" /\ handler'[s].sends = handler[s].sends
        /\ UNCHANGED <<responses, hasBegun>>
    BY <1>0, <1>13 DEF UnaryCheck, HandlerStep, wireVars
  <2> QED
    BY <1>5, <2>1 DEF Silent, Teardown
<1>14. CASE UnarySend(s)
  BY <1>8, <1>9, <1>14 DEF UnarySend
<1>15. CASE HandlerClose(s)
  <2>1. PICK end \in EndFrames(s) : CloseWrites(s, end)
    BY <1>15 DEF HandlerClose
  <2>2. end = Frame("EndOK", 0) \/ end = Frame("EndErr", 0)
    BY <2>1 DEF EndFrames
  <2>3. end \in Response /\ IsEnd(end)
    <3>1. Frame("EndOK", 0) \in Response /\ Frame("EndErr", 0) \in Response
      BY FrameTypes, 0 \in Nat
    <3>2. end.type = "EndOK" \/ end.type = "EndErr"
      BY <2>2 DEF Frame
    <3> QED
      BY <2>2, <3>1, <3>2 DEF IsEnd
  <2>4. handler[s].pc = "close" /\ hasBegun'[s] /\ handler'[s].pc = "once"
    BY <1>0, <1>15 DEF HandlerClose
  <2>5. handler[s].pc \notin Silent /\ handler'[s].pc \in Silent
    BY <2>4 DEF Silent, Teardown
  <2>6. /\ Lawful(responses'[Reply(s)])
        /\ \A r \in Replies : r # Reply(s) => responses'[r] = responses[r]
    BY <2>1, <2>3, <2>5, CloseSays DEF SaidAt
  <2> QED
    BY <2>4, <2>5, <2>6 DEF SaidAt
<1>16. CASE HandlerFinalize(s)
  <2>1. /\ handler'[s].sends = handler[s].sends /\ handler'[s].pc \in {"cancel", "remove", "failed", "exited"}
        /\ UNCHANGED <<responses, hasBegun>>
    BY <1>0, <1>16 DEF HandlerFinalize, AfterStep, Teardown, wireVars
  <2> QED
    BY <1>5, <2>1 DEF Silent, Teardown
<1> QED
  BY <1>6, <1>7, <1>10, <1>11, <1>12, <1>13, <1>14, <1>15, <1>16 DEF Handler

\* The stream that has the Call is the one that spoke, if one did.
LEMMA Speaks ==
  ASSUME TypeOK, RouteInv, ReplyInv, NEW s \in Stream, HasCall(s)
  PROVE  SaidAt(s) /\ (Held(s, "Call") => Mute(responses[Reply(s)]))
<1>1. Reply(s) \in Replies /\ ReplyAt(Reply(s))
  BY StreamParts DEF ReplyInv
<1>2. CASE Mute(responses[Reply(s)])
  <2>1. responses[Reply(s)] \in Seq(Response) /\ handler[s].sends \in Nat
    BY <1>1 DEF TypeOK, WireOK, GoroutinesOK
  <2>2. Open(responses[Reply(s)], handler[s].sends)
    BY <1>2, <2>1, OpenStays
  <2> QED
    BY <1>1, <1>2, <2>2 DEF SaidAt, ReplyAt
<1>3. ASSUME NEW u \in Stream, Reply(u) = Reply(s), hasBegun[u], SaidAt(u)
      PROVE  SaidAt(s) /\ ~Held(s, "Call")
  <2>1. Spent(u)
    BY <1>3 DEF Spent
  <2>2. ~Held(s, "Call") /\ (Spent(s) => s = u)
    BY <1>3, <2>1 DEF RouteInv, SpentAt
  <2> QED
    BY <1>3, <2>2 DEF HasCall
<1> QED
  BY <1>1, <1>2, <1>3 DEF ReplyAt

\* A reply to which nothing was published.
LEMMA ReplyKept ==
  ASSUME NEW r \in Replies, ReplyAt(r), responses'[r] = responses[r],
         \A u \in Stream : Reply(u) = r => UNCHANGED <<hasBegun[u], handler[u]>>
  PROVE  ReplyAt(r)'
<1>1. \A u \in Stream : Reply(u) = r => (SaidAt(u)' <=> SaidAt(u))
  BY DEF SaidAt
<1> QED
  BY <1>1 DEF ReplyAt

\* A reply to which the stream that has the Call published.
LEMMA ReplySaid ==
  ASSUME TypeOK, ReplyInv, NEW s \in Stream, SaidAt(s)',
         \A q \in Replies : q # Reply(s) => responses'[q] = responses[q],
         \A u \in Stream : u # s => UNCHANGED View(u), UNCHANGED kind,
         hasBegun'[s] /\ handler'[s].pc = "none" => kind[Reply(s)] = "unhandled"
  PROVE  ReplyInv'
<1>1. \A u \in Stream : u # s => UNCHANGED <<hasBegun[u], handler[u]>>
  BY DEF View
<1>2. ASSUME NEW q \in Replies, q # Reply(s) PROVE ReplyAt(q)'
  BY <1>1, <1>2, ReplyKept DEF ReplyInv
<1>3. ReplyAt(Reply(s))'
  BY DEF ReplyAt, SaidAt
<1>4. \A u \in Stream : hasBegun'[u] /\ handler'[u].pc = "none" => kind'[Reply(u)] = "unhandled"
  BY <1>1 DEF ReplyInv
<1> QED
  BY <1>2, <1>3, <1>4 DEF ReplyInv

\* A step of the worker.
LEMMA WorkerReply ==
  ASSUME TypeOK, RouteInv, ReplyInv, NEW s \in Stream, Worker(s)
  PROVE  ReplyInv'
<1>0. /\ worker \in [Stream -> [pc : WorkerPC, frame : Request]]
      /\ handler \in [Stream -> [pc : HandlerPC, sends : Nat, got : Seq(Nat),
                                 resume : {"failed", "exited"}]]
      /\ hasBegun \in [Stream -> BOOLEAN]
      /\ responses \in [Replies -> Seq(Response)] /\ Reply(s) \in Replies
      /\ inbox \in [Stream -> Seq(Request)]
  BY StreamParts DEF TypeOK, StreamsOK, GoroutinesOK, WireOK, FramesOK
<1>1. UNCHANGED kind /\ \A u \in Stream : u # s => UNCHANGED View(u)
  BY WorkerAside
<1>2. ASSUME UNCHANGED <<responses, hasBegun, handler>> PROVE ReplyInv'
  <2>1. \A r \in Replies : ReplyAt(r)'
    BY <1>2, ReplyKept DEF ReplyInv
  <2> QED
    BY <1>1, <1>2, <2>1 DEF ReplyInv
<1>3. CASE ProcessPing(s)
  <2>1. PICK q \in Seq(Response), f \in Response : q = responses[Reply(s)] /\ f = Frame("Pong", 0)
    BY <1>0, FrameTypes, 0 \in Nat
  <2>2. /\ UNCHANGED <<hasBegun, handler>>
        /\ responses'[Reply(s)] = q \o <<f>>
        /\ \A r \in Replies : r # Reply(s) => responses'[r] = responses[r]
    BY <1>0, <1>3, <2>1 DEF ProcessPing, Publish
  <2>3. responses'[Reply(s)] = Append(q, f) /\ ~NotPong(f)
    BY <2>1, <2>2, Published DEF NotPong, Frame
  <2>4. \A u \in Stream : Reply(u) = Reply(s) /\ SaidAt(u) => SaidAt(u)'
    <3> SUFFICES ASSUME NEW u \in Stream, Reply(u) = Reply(s), SaidAt(u) PROVE SaidAt(u)'
      OBVIOUS
    <3>1. PICK n \in Nat : n = handler[u].sends
      BY <1>0
    <3>2. Lawful(q) /\ (~hasBegun[u] => Mute(q)) /\ (handler[u].pc \notin Silent => Open(q, n))
      BY <2>1, <3>1 DEF SaidAt
    <3>3. /\ Lawful(Append(q, f)) /\ (~hasBegun[u] => Mute(Append(q, f)))
          /\ handler[u].pc \notin Silent => Open(Append(q, f), n)
      BY <2>3, <3>2, PongAppend
    <3> QED
      BY <2>2, <2>3, <3>1, <3>3 DEF SaidAt
  <2>5. ReplyAt(Reply(s))'
    <3>1. Lawful(Append(q, f)) /\ (Mute(q) => Mute(Append(q, f)))
      BY <1>0, <2>1, <2>3, PongAppend DEF ReplyInv, ReplyAt
    <3>2. ReplyAt(Reply(s))
      BY <1>0 DEF ReplyInv
    <3> QED
      BY <2>1, <2>2, <2>3, <2>4, <3>1, <3>2 DEF ReplyAt
  <2>6. \A r \in Replies : r # Reply(s) => ReplyAt(r)'
    BY <2>2, ReplyKept DEF ReplyInv
  <2> QED
    BY <1>1, <2>2, <2>5, <2>6 DEF ReplyInv
<1>4. CASE ProcessCallUnimplemented(s)
  <2>1. /\ Take(s, "Call") /\ CloseWrites(s, Frame("EndErr", 0)) /\ hasBegun'[s] /\ UNCHANGED handler
        /\ kind[Reply(s)] = "unhandled"
    BY <1>0, <1>4 DEF ProcessCallUnimplemented
  <2>2. Held(s, "Call")
    BY <1>0, <2>1, HasTail DEF Take, Held
  <2>3. SaidAt(s) /\ Mute(responses[Reply(s)])
    BY <2>2, Speaks DEF HasCall
  <2>4. Open(responses[Reply(s)], handler[s].sends)
    <3>1. responses[Reply(s)] \in Seq(Response) /\ handler[s].sends \in Nat
      BY <1>0
    <3> QED
      BY <2>3, <3>1, OpenStays
  <2>5. PICK e \in Response : e = Frame("EndErr", 0)
    BY FrameTypes, 0 \in Nat
  <2>6. IsEnd(e)
    BY <2>5 DEF IsEnd, Frame
  <2>7. /\ Lawful(responses'[Reply(s)])
        /\ \A r \in Replies : r # Reply(s) => responses'[r] = responses[r]
    BY <2>1, <2>3, <2>4, <2>5, <2>6, CloseSays
  <2>8. handler[s].pc = "none"
    BY <2>1 DEF RouteInv, CallingAt
  <2>9. SaidAt(s)'
    BY <2>1, <2>7, <2>8 DEF SaidAt, Silent
  <2> QED
    BY <1>1, <2>1, <2>7, <2>9, ReplySaid
<1>5. CASE SpawnHandler(s)
  <2>1. /\ worker[s].pc = "spawn" /\ UNCHANGED <<responses, hasBegun>>
        /\ handler'[s].pc # "none" /\ handler'[s].sends = handler[s].sends
    BY <1>0, <1>5 DEF SpawnHandler, wireVars
  <2>2. Calling(s) /\ HasCall(s)
    BY <2>1 DEF Calling, HasCall, Spent
  <2>3. handler[s].pc = "none" /\ kind[Reply(s)] # "unhandled"
    BY <2>2 DEF RouteInv, CallingAt
  <2>4. SaidAt(s) /\ Mute(responses[Reply(s)])
    BY <2>2, <2>3, Speaks DEF ReplyInv, SaidAt
  <2>5. Open(responses[Reply(s)], handler[s].sends)
    <3>1. responses[Reply(s)] \in Seq(Response) /\ handler[s].sends \in Nat
      BY <1>0
    <3> QED
      BY <2>4, <3>1, OpenStays
  <2>6. SaidAt(s)'
    BY <2>1, <2>4, <2>5 DEF SaidAt
  <2> QED
    BY <1>1, <2>1, <2>6, ReplySaid
<1>6. CASE WorkerFinalize(s)
  <2>1. UNCHANGED <<wireVars, hasBegun, handler>>
    BY <1>6, Zenon DEF WorkerFinalize
  <2> QED
    BY <1>2, <2>1 DEF wireVars
<1> QED
  BY <1>2, <1>3, <1>4, <1>5, <1>6
     DEF Worker, WorkerExit, ProcessCall, SetStatsBegun, ProcessDataDropped, ProcessData, StatsBegin,
         PushData, HandOver, ProcessHalfClose, ProcessAbort, wireVars

\* Every step preserves the invariant.
LEMMA NextReply == TypeOK /\ RouteInv /\ LiveInv /\ ReplyInv /\ [Next]_vars => ReplyInv'
<1> SUFFICES ASSUME TypeOK, RouteInv, LiveInv, ReplyInv, [Next]_vars PROVE ReplyInv'
  OBVIOUS
<1>1. ASSUME UNCHANGED <<kind, responses, hasBegun, handler>> PROVE ReplyInv'
  <2>1. \A r \in Replies : ReplyAt(r)'
    BY <1>1, ReplyKept DEF ReplyInv
  <2> QED
    BY <1>1, <2>1 DEF ReplyInv
<1>2. CASE Caller
  BY <1>1, <1>2
     DEF Caller, CallerCall, CallerData, CallerCloseSend, CallerAborts, CallerPings, CallerWrites
<1>3. ASSUME NEW r \in Replies, OnMessage(r) PROVE ReplyInv'
  BY <1>1, <1>3 DEF OnMessage
<1>4. CASE Enqueue
  BY <1>1, <1>4 DEF Enqueue, EnqueueFrame, wireVars
<1>5. ASSUME NEW s \in Stream, Handler(s) PROVE ReplyInv'
  <2>1. /\ UNCHANGED kind /\ \A u \in Stream : u # s => UNCHANGED View(u)
        /\ handler[s].pc # "none" /\ handler'[s].pc # "none"
    BY <1>5, HandlerAside
  <2>2. SaidAt(s) /\ TornAt(s)
    BY <2>1, Speaks DEF HasCall, Spent, LiveInv
  <2>3. SaidAt(s)' /\ \A q \in Replies : q # Reply(s) => responses'[q] = responses[q]
    BY <1>5, <2>2, HandlerSays
  <2> QED
    BY <2>1, <2>3, ReplySaid
<1>6. CASE Stop
  BY <1>1, <1>6, StopAside DEF wireVars
<1>7. CASE CloseStream
  BY <1>1, <1>7, CloseAside DEF wireVars
<1>8. CASE UNCHANGED vars
  BY <1>1, <1>8 DEF vars, wireVars
<1> QED
  BY <1>2, <1>3, <1>4, <1>5, <1>6, <1>7, <1>8, WorkerReply DEF Next, Server

\* Nothing was published.
LEMMA InitReply == Init => ReplyInv
<1> SUFFICES ASSUME Init PROVE ReplyInv
  OBVIOUS
<1>1. Lawful(<<>>) /\ Mute(<<>>)
  BY DEF Lawful, Mute
<1>2. \A r \in Replies : ReplyAt(r)
  BY <1>1 DEF Init, ReplyAt
<1> QED
  BY <1>2 DEF Init, ReplyInv

\* What a caller reads keeps its order across all the stream objects its reply may have had:
\* Begin first and once, Data in the order of the handler's SendMsg, End last and once.
THEOREM RepliesInOrder == Spec => []ResponseProtocol
<1>1. TypeOK /\ ReplyInv => ResponseProtocol
  <2> SUFFICES ASSUME TypeOK, ReplyInv, NEW r \in Replies, NEW i \in DOMAIN responses[r],
                      NEW j \in DOMAIN responses[r], i < j, NotPong(responses[r][i]), NotPong(responses[r][j])
               PROVE  /\ responses[r][j].type # "Begin" /\ ~IsEnd(responses[r][i])
                      /\ responses[r][i].type = "Data" /\ responses[r][j].type = "Data"
                           => responses[r][i].n < responses[r][j].n
    BY DEF ResponseProtocol
  <2>1. responses[r] \in Seq(Response)
    BY DEF TypeOK, WireOK
  <2>2. DOMAIN responses[r] = 1..Len(responses[r])
    BY <2>1
  <2> QED
    BY <2>2 DEF ReplyInv, ReplyAt, Lawful
<1> QED
  BY <1>1, InitBirth, InitRoute, InitLive, InitReply, TypeCorrect, NextBirth, NextRoute, NextLive,
     NextReply, PTL DEF Spec
=============================================================================
