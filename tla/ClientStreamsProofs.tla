-------------------------- MODULE ClientStreamsProofs --------------------------
(***************************************************************************)
(* Proofs about ClientStreams, for every set of streams, every capacity and *)
(* every bound: its type correctness; that the one teardown four goroutines *)
(* share runs once, reports its End before it tears down and removes its    *)
(* entry; and that the caller receives the server's Data in order, without  *)
(* a gap, and to the last frame when it is told EOF.                        *)
(***************************************************************************)
EXTENDS ClientStreams, DataLines, SequenceTheorems, TLAPS

-----------------------------------------------------------------------------
(* Type correctness                                                         *)

\* The parts of TypeOK, by the group of variables they speak of.
WireOK ==
  /\ requests \in [Replies -> SUBSET Request]
  /\ responses \in [Replies -> Seq(Response)]
  /\ server \in [Replies -> [begun : BOOLEAN, data : 0..MaxData, pongs : 0..MaxPings,
                             ended : {"no", "EndOK", "EndErr"}]]
  /\ lost \in [Replies -> BOOLEAN]
CloserOK ==
  /\ mu \in BOOLEAN
  /\ closer \in [pc : {"none", "next", "returned"} \cup Teardown,
                 left : SUBSET Replies, at : Replies]
AppOK ==
  app \in [Replies -> [pc : {"none", "made", "open", "sending"}, sends : 0..MaxCalls,
                       half : BOOLEAN, got : Seq(0..MaxData),
                       result : {"none", "EOF", "Status", "Undecodable"} \cup ContextError,
                       late : BOOLEAN]]
DoneOK ==
  /\ streams \subseteq Replies
  /\ ctx \in [Replies -> {"live"} \cup ContextError]
  /\ closed \in [Replies -> BOOLEAN] /\ endOnce \in [Replies -> BOOLEAN]
  /\ events \in [Replies -> Seq({"Begin", "nil", "Status", "Unavailable"})]
  /\ subscribed \in [Replies -> BOOLEAN] /\ msgClosed \in [Replies -> BOOLEAN]
EndErrOK == endErr \in [Replies -> {"nil", "Status", "Unavailable"}]
ReadOK ==
  /\ lastErr \in [Replies -> {"nil", "Status", "Undecodable"}]
  /\ msgCh \in [Replies -> Seq(Response)] /\ \A r \in Replies : Len(msgCh[r]) <= MsgCap
  /\ recv \in [Replies -> Seq(0..MaxData)] /\ \A r \in Replies : Len(recv[r]) <= RecvCap
  /\ recvClosed \in [Replies -> BOOLEAN]
  /\ reader \in [Replies -> [pc : {"none", "idle", "push", "fail", "exited"} \cup Teardown,
                             n : 0..MaxData, err : {"nil", "Status", "Undecodable"}]]
LoopOK ==
  /\ watcher \in [Replies -> {"none", "waiting", "exited"} \cup Teardown]
  /\ monitor \in [Replies -> {"none", "running", "writeEnd", "exited"} \cup Teardown]
  /\ pinger \in [Replies -> [pc : {"none", "idle", "writing"}, pings : 0..MaxPings]]

\* The parts make up TypeOK, before a step and after it.
LEMMA TypeParts ==
  /\ TypeOK <=> WireOK /\ CloserOK /\ AppOK /\ DoneOK /\ EndErrOK /\ ReadOK /\ LoopOK
  /\ TypeOK' <=> WireOK' /\ CloserOK' /\ AppOK' /\ DoneOK' /\ EndErrOK' /\ ReadOK' /\ LoopOK'
BY Zenon DEF TypeOK, WireOK, CloserOK, AppOK, DoneOK, EndErrOK, ReadOK, LoopOK

\* A part whose variables stay is kept.
LEMMA PartsKept ==
  ASSUME TypeOK
  PROVE  /\ UNCHANGED wireVars => WireOK'
         /\ UNCHANGED clientVars => CloserOK'
         /\ UNCHANGED app => AppOK'
         /\ UNCHANGED doneVars => DoneOK'
         /\ UNCHANGED endErr => EndErrOK'
         /\ UNCHANGED readVars => ReadOK'
         /\ UNCHANGED loopVars => LoopOK'
BY TypeParts DEF wireVars, clientVars, doneVars, readVars, loopVars, WireOK, CloserOK, AppOK,
                 DoneOK, EndErrOK, ReadOK, LoopOK

\* A frame on its way to be written still has its place in the bound.
SendRoom == \A r \in Replies : app[r].pc = "sending" => Calls(r) < MaxCalls
PingRoom == \A r \in Replies : pinger[r].pc = "writing" => pinger[r].pings < MaxPings
Rooms == SendRoom /\ PingRoom

\* Where a program starts.
LEMMA InitTyped == Init => TypeOK /\ Rooms
<1> SUFFICES ASSUME Init PROVE TypeOK /\ Rooms
  OBVIOUS
<1>1. AnyReply \in Replies
  BY ClientAssumption DEF AnyReply
<1>2. WireOK /\ AppOK /\ EndErrOK /\ ReadOK
  BY ClientAssumption DEF Init, WireOK, AppOK, EndErrOK, ReadOK
<1>3. CloserOK
  BY <1>1 DEF Init, CloserOK
<1>4. DoneOK /\ LoopOK
  BY ClientAssumption DEF Init, DoneOK, LoopOK
<1> QED
  BY <1>2, <1>3, <1>4, TypeParts DEF Init, Rooms, SendRoom, PingRoom

\* done() keeps the types of what it changes, and goes on to a pc of its own or of
\* its caller.
LEMMA DoneTyped ==
  ASSUME TypeOK, NEW r \in Replies, NEW pc, Done(r, pc) \/ DoneCAS(r)
  PROVE  DoneOK'
<1> USE TypeParts
<1>1. CASE DoneCAS(r)
  BY <1>1 DEF DoneCAS, DoneOK
<1>2. CASE DoneEvent(r)
  BY <1>2 DEF DoneEvent, DoneOK, EndErrOK
<1>3. CASE DoneCancel(r)
  BY <1>3 DEF DoneCancel, DoneOK, ContextError
<1>4. CASE DoneCloseChannels(r)
  BY <1>4 DEF DoneCloseChannels, DoneOK
<1>5. CASE DoneRemove(r)
  BY <1>5 DEF DoneRemove, DoneOK
<1> QED
  BY <1>1, <1>2, <1>3, <1>4, <1>5 DEF Done

\* done goes on inside its body or returns to its caller.
LEMMA AfterDoneTyped ==
  ASSUME NEW r, NEW pc, NEW after
  PROVE  AfterDone(r, pc, after) \in Teardown \cup {after}
BY DEF AfterDone, Teardown

\* The pieces of a sequence that is not empty.
LEMMA TailParts ==
  ASSUME NEW S, NEW q \in Seq(S), q # <<>>
  PROVE  Head(q) \in S /\ Tail(q) \in Seq(S) /\ Len(q) \in Nat /\ Len(Tail(q)) = Len(q) - 1
BY HeadTailProperties

\* The caller's goroutine.
LEMMA AppTyped ==
  ASSUME TypeOK, Rooms, NEW r \in Replies, App(r)
  PROVE  TypeOK'
<1> USE TypeParts, PartsKept
<1>1. CASE NewClientStream(r)
  <2>1. DoneOK'
    BY <1>1 DEF NewClientStream, DoneOK
  <2>2. AppOK'
    BY <1>1 DEF NewClientStream, AppOK
  <2>3. ReadOK'
    BY <1>1 DEF NewClientStream, ReadOK
  <2>4. LoopOK'
    <3>1. watcher' = [watcher EXCEPT ![r] = "waiting"]
          /\ monitor' \in {monitor, [monitor EXCEPT ![r] = "running"]}
          /\ pinger' \in {pinger, [pinger EXCEPT ![r].pc = "idle"]}
      BY <1>1 DEF NewClientStream
    <3> QED
      BY <3>1 DEF LoopOK
  <2> QED
    BY <1>1, <2>1, <2>2, <2>3, <2>4 DEF NewClientStream
<1>2. CASE EnterStream(r)
  <2>1. DoneOK' /\ closed[r] \in BOOLEAN
    BY <1>2 DEF EnterStream, DoneOK
  <2>2. AppOK'
    <3>1. app' = [app EXCEPT ![r].pc = "open", ![r].late = closed[r]]
      BY <1>2 DEF EnterStream
    <3> QED
      BY <2>1, <3>1 DEF AppOK
  <2> QED
    BY <1>2, <2>1, <2>2 DEF EnterStream
<1>3. CASE SendMsgChecks(r)
  <2>1. AppOK'
    BY <1>3 DEF SendMsgChecks, AppOK
  <2> QED
    BY <1>3, <2>1 DEF SendMsgChecks, AppVarsOnly
<1>4. CASE SendMsgWrites(r)
  <2>1. app[r].sends < MaxCalls
    BY <1>4, ClientAssumption DEF SendMsgWrites, Rooms, SendRoom, Calls, AppOK
  <2>2. AppOK'
    BY <1>4, <2>1, ClientAssumption DEF SendMsgWrites, AppOK
  <2>3. Frame("Call", 0) \in Request /\ Frame("Data", app[r].sends + 1) \in Request
    BY <2>1, ClientAssumption DEF Frame, Request, AppOK
  <2>4. PICK fs \in Seq(Request) : Publish(r, fs)
    <3>1. (IF app[r].sends = 0 THEN <<Frame("Call", 0)>> ELSE <<>>)
            \o <<Frame("Data", app[r].sends + 1)>> \in Seq(Request)
      BY <2>3
    <3> QED
      BY <1>4, <3>1 DEF SendMsgWrites
  <2>5. WireOK'
    BY <2>4 DEF Publish, WireOK
  <2> QED
    BY <1>4, <2>2, <2>5 DEF SendMsgWrites, AppVarsOnly
<1>5. CASE CloseSend(r)
  <2>1. AppOK'
    BY <1>5 DEF CloseSend, AppOK
  <2>2. WireOK'
    BY <1>5, ClientAssumption DEF CloseSend, Publish, Frame, Request, WireOK
  <2> QED
    BY <1>5, <2>1, <2>2 DEF CloseSend, AppVarsOnly
<1>6. CASE RecvMsgData(r)
  <2>1. recv[r] \in Seq(0..MaxData) /\ recv[r] # <<>> /\ Len(recv[r]) <= RecvCap
    BY <1>6 DEF RecvMsgData, ReadOK
  <2>2. Head(recv[r]) \in 0..MaxData /\ Tail(recv[r]) \in Seq(0..MaxData)
        /\ Len(Tail(recv[r])) <= RecvCap
    <3>1. Head(recv[r]) \in 0..MaxData /\ Tail(recv[r]) \in Seq(0..MaxData)
          /\ Len(recv[r]) \in Nat /\ Len(Tail(recv[r])) = Len(recv[r]) - 1
      BY <2>1, TailParts
    <3> QED
      BY <2>1, <3>1, ClientAssumption
  <2>3. ReadOK'
    BY <1>6, <2>2 DEF RecvMsgData, ReadOK
  <2>4. AppOK'
    <3>1. app' = [app EXCEPT ![r].got = Append(@, Head(recv[r]))]
      BY <1>6 DEF RecvMsgData
    <3>2. Append(app[r].got, Head(recv[r])) \in Seq(0..MaxData)
      BY <2>2 DEF AppOK
    <3> QED
      BY <3>1, <3>2 DEF AppOK
  <2> QED
    BY <1>6, <2>3, <2>4 DEF RecvMsgData
<1>7. CASE RecvMsgEOF(r) \/ RecvMsgCtxDone(r)
  <2>1. PICK result \in {"EOF", "Status", "Undecodable"} \cup ContextError : Returns(r, result)
    BY <1>7 DEF RecvMsgEOF, RecvMsgCtxDone, ReadOK, DoneOK
  <2>2. AppOK'
    BY <2>1 DEF Returns, AppOK
  <2> QED
    BY <2>1, <2>2 DEF Returns, AppVarsOnly
<1>8. CASE CallerCtxDone(r)
  <2>1. DoneOK'
    BY <1>8, ClientAssumption DEF CallerCtxDone, DoneOK
  <2> QED
    BY <1>8, <2>1 DEF CallerCtxDone
<1> QED
  BY <1>1, <1>2, <1>3, <1>4, <1>5, <1>6, <1>7, <1>8 DEF App

\* ReadMsg.
LEMMA TakeTyped ==
  ASSUME TypeOK, NEW r \in Replies, NEW t, Take(r, t)
  PROVE  /\ msgCh' \in [Replies -> Seq(Response)] /\ \A q \in Replies : Len(msgCh'[q]) <= MsgCap
         /\ Head(msgCh[r]) \in Response
<1>1. Head(msgCh[r]) \in Response /\ Tail(msgCh[r]) \in Seq(Response)
      /\ Len(Tail(msgCh[r])) <= MsgCap
  BY ClientAssumption, HeadTailProperties, TypeParts DEF Take, ReadOK
<1> QED
  BY <1>1, TypeParts DEF Take, ReadOK

\* ReadMsg.
LEMMA ReadMsgTyped ==
  ASSUME TypeOK, NEW r \in Replies, ReadMsg(r)
  PROVE  TypeOK'
<1> USE TypeParts, PartsKept
<1>1. CASE ReadIgnored(r)
  <2>1. ReadOK'
    BY <1>1, TakeTyped DEF ReadIgnored, Take, ReadOK
  <2> QED
    BY <1>1, <2>1 DEF ReadIgnored, Take
<1>2. CASE ReadData(r)
  <2>1. Head(msgCh[r]).n \in 0..MaxData
    BY <1>2, TakeTyped DEF ReadData, Response
  <2>2. ReadOK'
    BY <1>2, <2>1, TakeTyped DEF ReadData, Take, ReadOK
  <2> QED
    BY <1>2, <2>2 DEF ReadData, Take
<1>3. CASE ReadPush(r)
  <2>1. Append(recv[r], reader[r].n) \in Seq(0..MaxData)
        /\ Len(Append(recv[r], reader[r].n)) <= RecvCap
    BY <1>3, ClientAssumption DEF ReadPush, ReadOK
  <2>2. recv' = [recv EXCEPT ![r] = Append(recv[r], reader[r].n)]
        /\ reader' = [reader EXCEPT ![r].pc = "idle", ![r].n = 0]
        /\ 0 \in 0..MaxData /\ UNCHANGED <<msgCh, recvClosed, lastErr>>
    BY <1>3, ClientAssumption DEF ReadPush, HandOver
  <2>3. ReadOK'
    BY <2>1, <2>2 DEF ReadOK
  <2> QED
    BY <1>3, <2>3 DEF ReadPush, HandOver
<1>4. CASE ReadEndOK(r)
  <2>1. ReadOK'
    BY <1>4, TakeTyped DEF ReadEndOK, Take, ReadOK, Teardown
  <2> QED
    BY <1>4, <2>1 DEF ReadEndOK, Take
<1>5. CASE ReadEndErr(r)
  <2>1. ReadOK'
    <3>1. reader' = [reader EXCEPT ![r].pc = "cas", ![r].err = "Status"]
          /\ UNCHANGED <<recv, recvClosed, lastErr>>
      BY <1>5 DEF ReadEndErr, Take
    <3>2. msgCh' \in [Replies -> Seq(Response)] /\ \A q \in Replies : Len(msgCh'[q]) <= MsgCap
      BY <1>5, TakeTyped DEF ReadEndErr
    <3> QED
      BY <3>1, <3>2 DEF ReadOK, Teardown
  <2>2. EndErrOK'
    BY <1>5 DEF ReadEndErr, EndErrOK
  <2> QED
    BY <1>5, <2>1, <2>2 DEF ReadEndErr, Take
<1>6. CASE ReaderDone(r)
  <2>1. DoneOK'
    BY <1>6, DoneTyped DEF ReaderDone
  <2>2. PICK pc \in {"idle", "fail"} \cup Teardown : reader' = [reader EXCEPT ![r].pc = pc]
    <3>1. AfterDone(r, reader[r].pc, IF reader[r].err = "nil" THEN "idle" ELSE "fail")
            \in {"idle", "fail"} \cup Teardown
      BY AfterDoneTyped
    <3> QED
      BY <1>6, <3>1 DEF ReaderDone, ReadOK
  <2>3. UNCHANGED <<msgCh, recv, recvClosed, lastErr>>
    BY <1>6 DEF ReaderDone
  <2>4. ReadOK'
    BY <2>2, <2>3 DEF ReadOK
  <2> QED
    BY <1>6, <2>1, <2>4 DEF ReaderDone
<1>7. CASE SetLastErr(r)
  <2>1. ReadOK'
    BY <1>7 DEF SetLastErr, ReadOK
  <2> QED
    BY <1>7, <2>1 DEF SetLastErr
<1>8. CASE ReadExit(r)
  <2>1. ReadOK'
    BY <1>8 DEF ReadExit, ReadOK
  <2> QED
    BY <1>8, <2>1 DEF ReadExit
<1>9. CASE ReadUndecodable(r)
  <2>1. /\ UNCHANGED <<recv, recvClosed, lastErr>>
        /\ reader' = [reader EXCEPT ![r].pc = "fail", ![r].err = "Undecodable"]
        /\ msgCh' = [msgCh EXCEPT ![r] = Tail(@)] /\ msgCh[r] # <<>>
    BY <1>9 DEF ReadUndecodable
  <2>2. Tail(msgCh[r]) \in Seq(Response) /\ Len(Tail(msgCh[r])) <= MsgCap
    BY <2>1, ClientAssumption, HeadTailProperties DEF ReadOK
  <2>3. ReadOK'
    BY <2>1, <2>2 DEF ReadOK
  <2> QED
    BY <1>9, <2>3 DEF ReadUndecodable
<1> QED
  BY <1>1, <1>2, <1>3, <1>4, <1>5, <1>6, <1>7, <1>8, <1>9 DEF ReadMsg

\* The watcher, the monitor and the pings.
LEMMA LoopsTyped ==
  ASSUME TypeOK, Rooms, NEW r \in Replies, Watcher(r) \/ Monitor(r) \/ PingLoop(r)
  PROVE  TypeOK'
<1> USE TypeParts, PartsKept
<1>1. CASE Watcher(r)
  <2>1. PICK pc \in {"exited"} \cup Teardown : WatcherStep(r, pc)
    BY <1>1, AfterDoneTyped DEF Watcher, WatcherWakes, WatcherDone
  <2>2. DoneOK'
    BY <1>1, DoneTyped DEF Watcher, WatcherWakes, WatcherDone
  <2>3. LoopOK'
    BY <2>1 DEF WatcherStep, LoopOK
  <2> QED
    BY <2>1, <2>2, <2>3 DEF WatcherStep
<1>2. CASE MonitorDone(r)
  <2>1. PICK pc \in {"exited"} \cup Teardown : MonitorStep(r, pc)
    BY <1>2, AfterDoneTyped DEF MonitorDone
  <2>2. DoneOK'
    BY <1>2, DoneTyped DEF MonitorDone
  <2>3. LoopOK'
    BY <2>1 DEF MonitorStep, LoopOK
  <2> QED
    BY <1>2, <2>1, <2>2, <2>3 DEF MonitorDone, MonitorStep
<1>3. CASE MonitorFires(r) \/ MonitorExit(r)
  <2>1. LoopOK' /\ EndErrOK'
    BY <1>3 DEF MonitorFires, MonitorExit, MonitorStep, LoopOK, EndErrOK
  <2> QED
    BY <1>3, <2>1 DEF MonitorFires, MonitorExit, MonitorStep
<1>4. CASE MonitorWritesEnd(r)
  <2>1. LoopOK'
    BY <1>4 DEF MonitorWritesEnd, MonitorStep, LoopOK, Teardown
  <2>2. WireOK'
    BY <1>4, ClientAssumption DEF MonitorWritesEnd, Publish, Frame, Request, WireOK
  <2> QED
    BY <1>4, <2>1, <2>2 DEF MonitorWritesEnd, MonitorStep
<1>5. CASE PingTick(r)
  <2>1. LoopOK'
    BY <1>5 DEF PingTick, LoopOK
  <2> QED
    BY <1>5, <2>1 DEF PingTick
<1>6. CASE PingWrite(r)
  <2>1. pinger[r].pings < MaxPings /\ pinger[r].pings \in 0..MaxPings
    BY <1>6 DEF PingWrite, Rooms, PingRoom, LoopOK
  <2>2. LoopOK'
    BY <1>6, <2>1, ClientAssumption DEF PingWrite, LoopOK
  <2>3. WireOK'
    BY <1>6, ClientAssumption DEF PingWrite, Publish, Frame, Request, WireOK
  <2> QED
    BY <1>6, <2>2, <2>3 DEF PingWrite
<1> QED
  BY <1>1, <1>2, <1>3, <1>4, <1>5, <1>6 DEF Monitor, PingLoop

\* Client.Close.
LEMMA CloseTyped ==
  ASSUME TypeOK, Close
  PROVE  TypeOK'
<1> USE TypeParts, PartsKept
<1>1. PICK pc \in {"next", "returned"} \cup Teardown, left \in SUBSET Replies, at \in Replies :
        CloserStep(pc, left, at)
  <2>1. CASE CloseSnapshot
    BY <2>1, ClientAssumption DEF CloseSnapshot, CloseBegins, AnyReply, DoneOK
  <2>2. CASE CloseNext
    <3>1. CASE closer.left = {} /\ CloserStep("returned", {}, AnyReply)
      BY <3>1, ClientAssumption DEF AnyReply
    <3>2. ASSUME NEW r \in closer.left,
                 CloserStep(AfterDone(r, "cas", "next"), closer.left \ {r}, r)
          PROVE  \E pc \in {"next"} \cup Teardown, left \in SUBSET Replies, at \in Replies :
                   CloserStep(pc, left, at)
      <4>1. r \in Replies /\ closer.left \ {r} \in SUBSET Replies
        BY DEF CloserOK
      <4> QED
        BY <3>2, <4>1, AfterDoneTyped
    <3> QED
      BY <2>2, <3>1, <3>2 DEF CloseNext
  <2>3. CASE CloserDone
    <3>1. closer.at \in Replies /\ closer.left \in SUBSET Replies
      BY DEF CloserOK
    <3> QED
      BY <2>3, <3>1, AfterDoneTyped DEF CloserDone
  <2> QED
    BY <2>1, <2>2, <2>3 DEF Close
<1>2. CloserOK'
  <2>1. AnyReply \in Replies
    BY ClientAssumption DEF AnyReply
  <2>2. mu' \in BOOLEAN
    BY DEF Close, CloseSnapshot, CloseBegins, CloseNext, CloserDone, CloserOK
  <2> QED
    BY <1>1, <2>1, <2>2 DEF CloserStep, CloserOK
<1>3. DoneOK'
  <2>1. \A r \in closer.left : r \in Replies
    BY DEF CloserOK
  <2>2. closer.at \in Replies
    BY DEF CloserOK
  <2> QED
    BY <2>1, <2>2, DoneTyped DEF Close, CloseSnapshot, CloseBegins, CloseNext, CloserDone
<1> QED
  BY <1>1, <1>2, <1>3 DEF CloserStep

\* NATS and the server.
LEMMA EnvironmentTyped ==
  ASSUME TypeOK, NEW r \in Replies, ServerStep(r) \/ Deliver(r)
  PROVE  TypeOK'
<1> USE TypeParts, PartsKept
<1>1. CASE ServerStep(r)
  <2>1. PICK f \in Response,
             state \in [begun : BOOLEAN, data : 0..MaxData, pongs : 0..MaxPings,
                        ended : {"no", "EndOK", "EndErr"}] :
          ServerWrites(r, f, state)
    <3>1. server[r] \in [begun : BOOLEAN, data : 0..MaxData, pongs : 0..MaxPings,
                         ended : {"no", "EndOK", "EndErr"}]
          /\ pinger[r].pings \in 0..MaxPings
      BY DEF WireOK, LoopOK
    <3>2. CASE ServerBegins(r)
      <4>1. Frame("Begin", 0) \in Response
        BY ClientAssumption DEF Response, Frame
      <4>2. [server[r] EXCEPT !.begun = TRUE] \in
              [begun : BOOLEAN, data : 0..MaxData, pongs : 0..MaxPings,
               ended : {"no", "EndOK", "EndErr"}]
        BY <3>1
      <4> QED
        BY <3>2, <4>1, <4>2 DEF ServerBegins
    <3>3. CASE ServerSends(r)
      BY <3>1, <3>3, ClientAssumption DEF ServerSends, Response, Frame
    <3>4. CASE ServerEnds(r)
      BY <3>1, <3>4, ClientAssumption DEF ServerEnds, Response, Frame
    <3>5. CASE ServerPongs(r)
      BY <3>1, <3>5, ClientAssumption DEF ServerPongs, Response, Frame
    <3> QED
      BY <1>1, <3>2, <3>3, <3>4, <3>5 DEF ServerStep
  <2>2. WireOK'
    BY <2>1 DEF ServerWrites, WireOK
  <2> QED
    BY <2>1, <2>2 DEF ServerWrites
<1>2. CASE Deliver(r)
  <2>1. Head(responses[r]) \in Response /\ Tail(responses[r]) \in Seq(Response)
    BY <1>2, TailParts DEF Deliver, WireOK
  <2>2. UNCHANGED <<requests, server>> /\ responses' = [responses EXCEPT ![r] = Tail(@)]
        /\ lost' \in {lost, [lost EXCEPT ![r] = @ \/ subscribed[r]]}
    BY <1>2 DEF Deliver
  <2>3. subscribed[r] \in BOOLEAN /\ lost[r] \in BOOLEAN
    BY DEF DoneOK, WireOK
  <2>4. lost' \in [Replies -> BOOLEAN]
    BY <2>2, <2>3 DEF WireOK
  <2>5. WireOK'
    BY <2>1, <2>2, <2>4 DEF WireOK
  <2>6. /\ msgCh' \in [Replies -> Seq(Response)] /\ \A q \in Replies : Len(msgCh'[q]) <= MsgCap
    <3>1. CASE subscribed[r] /\ Len(msgCh[r]) < MsgCap
      <4>1. msgCh[r] \in Seq(Response) /\ msgCh' = [msgCh EXCEPT ![r] = Append(@, Head(responses[r]))]
        BY <1>2, <3>1 DEF Deliver, ReadOK
      <4>2. Append(msgCh[r], Head(responses[r])) \in Seq(Response)
            /\ Len(Append(msgCh[r], Head(responses[r]))) <= MsgCap
        BY <2>1, <3>1, <4>1, ClientAssumption
      <4> QED
        BY <4>1, <4>2 DEF ReadOK
    <3>2. CASE ~(subscribed[r] /\ Len(msgCh[r]) < MsgCap)
      BY <1>2, <3>2 DEF Deliver, ReadOK
    <3> QED
      BY <3>1, <3>2
  <2>7. ReadOK'
    BY <1>2, <2>6 DEF Deliver, ReadOK
  <2> QED
    BY <1>2, <2>5, <2>7 DEF Deliver
<1> QED
  BY <1>1, <1>2

\* The bounds on calls and pings hold at every step.
LEMMA RoomsKept ==
  ASSUME TypeOK, Rooms, [Next]_vars
  PROVE  Rooms'
<1> USE TypeParts
<1>1. SendRoom'
  <2>1. CASE UNCHANGED app
    BY <2>1 DEF Rooms, SendRoom, Calls
  <2>2. ASSUME NEW r \in Replies, App(r), ~ UNCHANGED app
        PROVE  SendRoom'
    <3>1. \A q \in Replies : q # r => app'[q] = app[q]
      BY <2>2 DEF App, NewClientStream, EnterStream, SendMsgChecks, SendMsgWrites, CloseSend,
                  RecvMsgData, RecvMsgEOF, RecvMsgCtxDone, Returns, CallerCtxDone, AppOK
    <3>2. app'[r].pc = "sending" =>
            app'[r].sends = app[r].sends /\ app'[r].half = app[r].half
            /\ (app[r].pc = "sending" \/ Calls(r) < MaxCalls)
      BY <2>2 DEF App, NewClientStream, EnterStream, SendMsgChecks, SendMsgWrites, CloseSend,
                  RecvMsgData, RecvMsgEOF, RecvMsgCtxDone, Returns, CallerCtxDone, AppOK
    <3> QED
      BY <3>1, <3>2 DEF Rooms, SendRoom, Calls
  <2>3. ASSUME NEW r \in Replies, ReadMsg(r) \/ Watcher(r) \/ Monitor(r) \/ PingLoop(r)
        PROVE  UNCHANGED app
    BY <2>3 DEF ReadMsg, ReadIgnored, ReadData, ReadPush, HandOver, ReadEndOK, ReadEndErr, Take,
                ReaderDone, ReadUndecodable, SetLastErr, ReadExit, Watcher, WatcherWakes, WatcherDone, WatcherStep,
                Monitor, MonitorFires, MonitorWritesEnd, MonitorDone, MonitorExit, MonitorStep,
                PingLoop, PingTick, PingWrite
  <2>4. ASSUME Close \/ Environment \/ UNCHANGED vars
        PROVE  UNCHANGED app
    BY <2>4 DEF Close, CloseSnapshot, CloseBegins, CloseNext, CloserDone, CloserStep, Environment,
                ServerStep, ServerBegins, ServerSends, ServerEnds, ServerPongs, ServerWrites,
                Deliver, vars
  <2> QED
    BY <2>1, <2>2, <2>3, <2>4 DEF Next, Client
<1>2. PingRoom'
  <2>1. CASE UNCHANGED pinger
    BY <2>1 DEF Rooms, PingRoom
  <2>2. ASSUME NEW r \in Replies, NewClientStream(r) \/ PingLoop(r)
        PROVE  PingRoom'
    <3>1. CASE NewClientStream(r)
      <4>1. pinger' \in {pinger, [pinger EXCEPT ![r].pc = "idle"]}
        BY <3>1 DEF NewClientStream
      <4> QED
        BY <4>1 DEF LoopOK, Rooms, PingRoom
    <3>2. CASE PingLoop(r)
      BY <3>2 DEF PingLoop, PingTick, PingWrite, LoopOK, Rooms, PingRoom
    <3> QED
      BY <2>2, <3>1, <3>2
  <2>3. ASSUME NEW r \in Replies, App(r) \/ ReadMsg(r) \/ Watcher(r) \/ Monitor(r),
               ~ NewClientStream(r)
        PROVE  UNCHANGED pinger
    BY <2>3 DEF App, EnterStream, SendMsgChecks, SendMsgWrites, CloseSend,
                RecvMsgData, RecvMsgEOF, RecvMsgCtxDone, Returns, CallerCtxDone, AppVarsOnly,
                ReadMsg, ReadIgnored, ReadData, ReadPush, HandOver, ReadEndOK, ReadEndErr, Take,
                ReaderDone, ReadUndecodable, SetLastErr, ReadExit, Watcher, WatcherWakes, WatcherDone, WatcherStep,
                Monitor, MonitorFires, MonitorWritesEnd, MonitorDone, MonitorExit, MonitorStep,
                loopVars
  <2>4. ASSUME Close \/ Environment \/ UNCHANGED vars
        PROVE  UNCHANGED pinger
    BY <2>4 DEF Close, CloseSnapshot, CloseBegins, CloseNext, CloserDone, CloserStep, Environment,
                ServerStep, ServerBegins, ServerSends, ServerEnds, ServerPongs, ServerWrites,
                Deliver, vars, loopVars
  <2> QED
    BY <2>1, <2>2, <2>3, <2>4 DEF Next, Client
<1> QED
  BY <1>1, <1>2 DEF Rooms

\* Every step keeps the types.
LEMMA NextTyped ==
  ASSUME TypeOK, Rooms, [Next]_vars
  PROVE  TypeOK' /\ Rooms'
<1>1. ASSUME UNCHANGED vars PROVE TypeOK'
  BY <1>1, PartsKept, TypeParts DEF vars
<1>2. TypeOK'
  BY <1>1, AppTyped, ReadMsgTyped, LoopsTyped, CloseTyped, EnvironmentTyped
     DEF Next, Client, Environment
<1> QED
  BY <1>2, RoomsKept

\* Every variable keeps its type, and the channels of a stream their capacity, in
\* every state: msgCh and the recv channel of newClientStream (client.go:494-499).
THEOREM TypeCorrect == Spec => []TypeOK
<1>1. TypeOK /\ Rooms /\ [Next]_vars => (TypeOK /\ Rooms)'
  BY NextTyped
<1> QED
  BY InitTyped, <1>1, PTL DEF Spec

-----------------------------------------------------------------------------
(* The teardown                                                             *)

\* Who may call done() of a stream, and where in its body he is.
Who == {"reader", "watcher", "monitor", "closer"}
Body == {"event", "cancel", "unsub", "remove"}
PcOf(r, k) ==
  CASE k = "reader" -> reader[r].pc [] k = "watcher" -> watcher[r] [] k = "monitor" -> monitor[r]
    [] OTHER -> IF closer.at = r THEN closer.pc ELSE "none"
Stage(r, k) == IF PcOf(r, k) \in Body THEN PcOf(r, k) ELSE "out"

\* One caller at most is in the body, and how far the teardown is shows in the flags.
OneInBody == \A r \in Replies, j, k \in Who :
  Stage(r, j) # "out" /\ Stage(r, k) # "out" => j = k
StageTold == \A r \in Replies, k \in Who :
  /\ Stage(r, k) # "out" => closed[r]
  /\ Stage(r, k) = "event" => ~endOnce[r]
  /\ Stage(r, k) \in {"cancel", "unsub"} => endOnce[r] /\ ~msgClosed[r]
  /\ Stage(r, k) = "remove" => endOnce[r] /\ msgClosed[r]
FlagsOrdered == \A r \in Replies :
  (msgClosed[r] => endOnce[r]) /\ (endOnce[r] => closed[r])

\* The stats events of a stream are its Begin and, from endOnce on, its End.
EventsCounted == \A r \in Replies :
  Len(events[r]) = (IF app[r].pc = "none" THEN 0 ELSE 1) + (IF endOnce[r] THEN 1 ELSE 0)

\* An entry that was not late is still to be removed by who is in the body.
EntryOwed == \A r \in Replies :
  r \in streams /\ ~app[r].late /\ closed[r] => \E k \in Who : Stage(r, k) # "out"

\* A stream that was not made has no goroutine and is not in Client.Close's hands.
NotMade(r) ==
  /\ ~closed[r] /\ ~endOnce[r] /\ r \notin closer.left /\ r \notin streams
  /\ reader[r].pc = "none" /\ watcher[r] = "none" /\ monitor[r] = "none"
Unmade == \A r \in Replies : app[r].pc = "none" => NotMade(r)

DoneInv ==
  /\ OneInBody /\ StageTold /\ FlagsOrdered /\ EventsCounted /\ EntryOwed /\ Unmade
  /\ closer.pc # "cas"

\* Steps that stay outside of the body of done.
LEMMA OutsideKept ==
  ASSUME DoneInv, UNCHANGED <<closed, endOnce, msgClosed, events, streams>>,
         closer'.left = closer.left, closer'.pc # "cas",
         \A r \in Replies, k \in Who : Stage(r, k)' = Stage(r, k),
         \A r \in Replies : app'[r].pc = "none" <=> app[r].pc = "none",
         \A r \in Replies : app'[r].late = app[r].late,
         \A r \in Replies :
           /\ reader[r].pc = "none" => reader'[r].pc = "none"
           /\ watcher[r] = "none" => watcher'[r] = "none"
           /\ monitor[r] = "none" => monitor'[r] = "none"
  PROVE  DoneInv'
<1>1. OneInBody' /\ StageTold' /\ FlagsOrdered'
  BY DEF DoneInv, OneInBody, StageTold, FlagsOrdered
<1>2. EventsCounted' /\ EntryOwed'
  BY DEF DoneInv, EventsCounted, EntryOwed
<1>3. Unmade'
  BY DEF DoneInv, Unmade, NotMade
<1> QED
  BY <1>1, <1>2, <1>3 DEF DoneInv

\* A step of done by one of its callers.
Enters(r, k) ==
  /\ Stage(r, k) = "out" /\ DoneCAS(r)
  /\ Stage(r, k)' = IF closed[r] THEN "out" ELSE "event"
Advances(r, k) ==
  \/ Stage(r, k) = "event" /\ Stage(r, k)' = "cancel" /\ DoneEvent(r)
  \/ Stage(r, k) = "cancel" /\ Stage(r, k)' = "unsub" /\ DoneCancel(r)
  \/ Stage(r, k) = "unsub" /\ Stage(r, k)' = "remove" /\ DoneCloseChannels(r)
  \/ Stage(r, k) = "remove" /\ Stage(r, k)' = "out" /\ DoneRemove(r)

\* A caller of done is in its body or out of it.
LEMMA StageTyped == \A r, k : Stage(r, k) \in Body \cup {"out"}
BY DEF Stage

\* A step of done by one of its callers keeps what the flags say of the teardown.
LEMMA DoneStep ==
  ASSUME TypeOK, DoneInv, NEW r \in Replies, NEW k \in Who, Enters(r, k) \/ Advances(r, k),
         app[r].pc # "none", UNCHANGED app, closer'.left \subseteq closer.left, closer'.pc # "cas",
         \A q \in Replies, j \in Who : q # r \/ j # k => Stage(q, j)' = Stage(q, j),
         \A q \in Replies : app[q].pc = "none" =>
           reader'[q].pc = "none" /\ watcher'[q] = "none" /\ monitor'[q] = "none"
  PROVE  DoneInv'
<1> USE TypeParts
<1>1. \A j \in Who : j # k /\ (Stage(r, k) # "out" \/ ~closed[r]) => Stage(r, j) = "out"
  BY DEF DoneInv, OneInBody, StageTold
<1>2. \A q \in Replies : q # r =>
        /\ closed'[q] = closed[q] /\ endOnce'[q] = endOnce[q] /\ msgClosed'[q] = msgClosed[q]
        /\ events'[q] = events[q] /\ (q \in streams' <=> q \in streams)
  BY DEF Enters, Advances, DoneCAS, DoneEvent, DoneCancel, DoneCloseChannels, DoneRemove, DoneOK
<1>3. CASE Enters(r, k) /\ closed[r]
  <2>1. UNCHANGED <<closed, endOnce, msgClosed, events, streams>>
    BY <1>3 DEF Enters, DoneCAS, DoneOK
  <2>2. \A q \in Replies, j \in Who : Stage(q, j)' = Stage(q, j)
    BY <1>3 DEF Enters
  <2>3. OneInBody' /\ StageTold' /\ FlagsOrdered' /\ EventsCounted' /\ EntryOwed'
    BY <2>1, <2>2 DEF DoneInv, OneInBody, StageTold, FlagsOrdered, EventsCounted, EntryOwed
  <2>4. Unmade'
    BY <2>1 DEF DoneInv, Unmade, NotMade
  <2> QED
    BY <2>3, <2>4 DEF DoneInv
<1>4. CASE Enters(r, k) /\ ~closed[r]
  <2>1. /\ closed'[r] /\ UNCHANGED <<endOnce, msgClosed, events, streams>>
        /\ Stage(r, k)' = "event" /\ ~endOnce[r]
    BY <1>4 DEF Enters, DoneCAS, DoneOK, DoneInv, FlagsOrdered
  <2>2. OneInBody' /\ StageTold'
    BY <1>1, <1>2, <1>4, <2>1 DEF DoneInv, OneInBody, StageTold
  <2>3. FlagsOrdered' /\ EventsCounted'
    BY <1>2, <2>1 DEF DoneInv, FlagsOrdered, EventsCounted
  <2>4. EntryOwed'
    BY <1>2, <2>1 DEF DoneInv, EntryOwed
  <2>5. Unmade'
    BY <1>2, <2>1 DEF DoneInv, Unmade, NotMade
  <2> QED
    BY <2>2, <2>3, <2>4, <2>5 DEF DoneInv
<1>5. CASE Advances(r, k)
  <2>1. /\ UNCHANGED closed /\ closed[r]
        /\ \/ Stage(r, k)' = "cancel" /\ ~endOnce[r] /\ endOnce'[r] /\ ~msgClosed'[r]
              /\ Len(events'[r]) = Len(events[r]) + 1 /\ UNCHANGED streams
           \/ Stage(r, k)' = "unsub" /\ endOnce'[r] /\ ~msgClosed'[r]
              /\ UNCHANGED <<endOnce, events, streams>>
           \/ Stage(r, k)' = "remove" /\ endOnce'[r] /\ msgClosed'[r]
              /\ UNCHANGED <<endOnce, events, streams>>
           \/ Stage(r, k)' = "out" /\ endOnce'[r] /\ r \notin streams'
              /\ UNCHANGED <<endOnce, msgClosed, events>>
    <3>1. closed[r]
      BY <1>5 DEF Advances, DoneInv, StageTold
    <3>2. CASE Stage(r, k) = "event" /\ Stage(r, k)' = "cancel" /\ DoneEvent(r)
      BY <3>1, <3>2 DEF DoneEvent, DoneOK, EndErrOK, DoneInv, StageTold, FlagsOrdered
    <3>3. CASE Stage(r, k) = "cancel" /\ Stage(r, k)' = "unsub" /\ DoneCancel(r)
      BY <3>1, <3>3 DEF DoneCancel, DoneInv, StageTold
    <3>4. CASE Stage(r, k) = "unsub" /\ Stage(r, k)' = "remove" /\ DoneCloseChannels(r)
      BY <3>1, <3>4 DEF DoneCloseChannels, DoneOK, DoneInv, StageTold
    <3>5. CASE Stage(r, k) = "remove" /\ Stage(r, k)' = "out" /\ DoneRemove(r)
      BY <3>1, <3>5 DEF DoneRemove, DoneInv, StageTold
    <3> QED
      BY <1>5, <3>2, <3>3, <3>4, <3>5 DEF Advances
  <2>2. \A j \in Who : j # k => Stage(r, j)' = "out"
    BY <1>1, <1>5 DEF Advances
  <2>3. OneInBody' /\ StageTold'
    BY <1>2, <2>1, <2>2 DEF DoneInv, OneInBody, StageTold
  <2>4. FlagsOrdered' /\ EventsCounted'
    BY <1>2, <2>1, ClientAssumption DEF DoneInv, FlagsOrdered, EventsCounted
  <2>5. EntryOwed'
    BY <1>2, <2>1 DEF DoneInv, EntryOwed
  <2>6. Unmade'
    BY <1>2, <2>1 DEF DoneInv, Unmade, NotMade
  <2> QED
    BY <2>3, <2>4, <2>5, <2>6 DEF DoneInv
<1> QED
  BY <1>3, <1>4, <1>5

\* The caller's goroutine makes a stream and enters it into the map; the rest of what
\* it does is no business of done's.
LEMMA AppDone ==
  ASSUME TypeOK, DoneInv, NEW r \in Replies, App(r)
  PROVE  DoneInv'
<1> USE TypeParts
<1>1. CASE NewClientStream(r)
  <2>1. /\ UNCHANGED <<closed, endOnce, msgClosed, streams, closer>>
        /\ app' = [app EXCEPT ![r].pc = "made"] /\ app[r].pc = "none"
        /\ events' = [events EXCEPT ![r] = Append(@, "Begin")]
        /\ reader' = [reader EXCEPT ![r].pc = "idle"]
        /\ watcher' = [watcher EXCEPT ![r] = "waiting"]
        /\ monitor' \in {monitor, [monitor EXCEPT ![r] = "running"]}
    BY <1>1 DEF NewClientStream, clientVars
  <2>2. NotMade(r)
    BY <2>1 DEF DoneInv, Unmade
  <2>3. \A q \in Replies, k \in Who : Stage(q, k)' = Stage(q, k)
    BY <2>1, <2>2 DEF NotMade, Stage, PcOf, Body, ReadOK, LoopOK
  <2>4. OneInBody' /\ StageTold' /\ FlagsOrdered'
    BY <2>1, <2>3 DEF DoneInv, OneInBody, StageTold, FlagsOrdered
  <2>5. EventsCounted'
    BY <2>1, <2>2 DEF DoneInv, EventsCounted, DoneOK, AppOK
  <2>6. EntryOwed'
    BY <2>1, <2>3 DEF DoneInv, EntryOwed, AppOK
  <2>7. Unmade'
    BY <2>1 DEF DoneInv, Unmade, NotMade, AppOK, ReadOK, LoopOK
  <2> QED
    BY <2>1, <2>4, <2>5, <2>6, <2>7 DEF DoneInv
<1>2. CASE EnterStream(r)
  <2>1. /\ UNCHANGED <<closed, endOnce, msgClosed, events, closer, reader, watcher, monitor>>
        /\ app' = [app EXCEPT ![r].pc = "open", ![r].late = closed[r]] /\ app[r].pc = "made"
        /\ streams' = streams \cup {r}
    BY <1>2 DEF EnterStream, clientVars, readVars, loopVars
  <2>2. \A q \in Replies, k \in Who : Stage(q, k)' = Stage(q, k)
    BY <2>1 DEF Stage, PcOf
  <2>3. OneInBody' /\ StageTold' /\ FlagsOrdered'
    BY <2>1, <2>2 DEF DoneInv, OneInBody, StageTold, FlagsOrdered
  <2>4. EventsCounted'
    <3>1. \A q \in Replies : app'[q].pc = "none" <=> app[q].pc = "none"
      BY <2>1 DEF AppOK
    <3> QED
      BY <2>1, <3>1 DEF DoneInv, EventsCounted
  <2>5. EntryOwed'
    <3>1. app'[r].late = closed[r] /\ \A q \in Replies : q # r => app'[q] = app[q]
      BY <2>1 DEF AppOK
    <3> QED
      BY <2>1, <2>2, <3>1 DEF DoneInv, EntryOwed
  <2>6. Unmade'
    BY <2>1 DEF DoneInv, Unmade, NotMade, AppOK
  <2> QED
    BY <2>1, <2>3, <2>4, <2>5, <2>6 DEF DoneInv
<1>3. CASE \/ SendMsgChecks(r) \/ SendMsgWrites(r) \/ CloseSend(r) \/ RecvMsgData(r)
           \/ RecvMsgEOF(r) \/ RecvMsgCtxDone(r) \/ CallerCtxDone(r)
  <2>1. UNCHANGED <<closed, endOnce, msgClosed, events, streams, closer, watcher, monitor, reader>>
    BY <1>3 DEF SendMsgChecks, SendMsgWrites, CloseSend, RecvMsgData, RecvMsgEOF, RecvMsgCtxDone,
                CallerCtxDone, Returns, AppVarsOnly, clientVars, doneVars, readVars, loopVars
  <2>2. \A q \in Replies : /\ app'[q].pc = "none" <=> app[q].pc = "none"
                           /\ app'[q].late = app[q].late
    <3>1. CASE SendMsgChecks(r)
      BY <3>1 DEF SendMsgChecks, AppOK
    <3>2. CASE SendMsgWrites(r)
      BY <3>2 DEF SendMsgWrites, AppOK
    <3>3. CASE CloseSend(r)
      BY <3>3 DEF CloseSend, AppOK
    <3>4. CASE RecvMsgData(r)
      <4>1. app' = [app EXCEPT ![r].got = Append(@, Head(recv[r]))]
        BY <3>4 DEF RecvMsgData
      <4> QED
        BY <4>1 DEF AppOK
    <3>6. CASE CallerCtxDone(r)
      BY <3>6 DEF CallerCtxDone
    <3>5. CASE RecvMsgEOF(r) \/ RecvMsgCtxDone(r)
      <4>1. PICK result : app' = [app EXCEPT ![r].result = result]
        BY <3>5 DEF RecvMsgEOF, RecvMsgCtxDone, Returns
      <4> QED
        BY <4>1 DEF AppOK
    <3> QED
      BY <1>3, <3>1, <3>2, <3>3, <3>4, <3>5, <3>6
  <2>3. \A q \in Replies, k \in Who : Stage(q, k)' = Stage(q, k)
    BY <2>1 DEF Stage, PcOf
  <2> QED
    BY <2>1, <2>2, <2>3, OutsideKept DEF DoneInv
<1> QED
  BY <1>1, <1>2, <1>3 DEF App

\* ReadMsg outside of done, and inside of it.
LEMMA ReadMsgDone ==
  ASSUME TypeOK, DoneInv, NEW r \in Replies, ReadMsg(r)
  PROVE  DoneInv'
<1> USE TypeParts
<1>1. CASE ReadMsg(r) /\ ~ReaderDone(r)
  <2>1. /\ reader'[r].pc \notin Body /\ reader[r].pc \notin Body /\ reader[r].pc # "none"
        /\ \A q \in Replies : q # r => reader'[q] = reader[q]
    <3>1. CASE ReadIgnored(r) \/ ReadData(r)
      BY <3>1 DEF ReadIgnored, ReadData, Take, Body, ReadOK
    <3>2. CASE ReadPush(r)
      BY <3>2 DEF ReadPush, HandOver, Body, ReadOK
    <3>3. CASE ReadEndOK(r) \/ ReadEndErr(r)
      BY <3>3 DEF ReadEndOK, ReadEndErr, Take, Body, ReadOK
    <3>4. CASE ReadUndecodable(r) \/ SetLastErr(r) \/ ReadExit(r)
      BY <3>4 DEF ReadUndecodable, SetLastErr, ReadExit, Body, ReadOK
    <3> QED
      BY <1>1, <3>1, <3>2, <3>3, <3>4 DEF ReadMsg
  <2>2. UNCHANGED <<closed, endOnce, msgClosed, events, streams, closer, watcher, monitor, app>>
    BY <1>1 DEF ReadMsg, ReadIgnored, ReadData, ReadPush, HandOver, ReadEndOK, ReadEndErr, Take,
                ReadUndecodable, SetLastErr, ReadExit, clientVars, doneVars, loopVars
  <2>3. \A q \in Replies, k \in Who : Stage(q, k)' = Stage(q, k)
    BY <2>1, <2>2 DEF Stage, PcOf
  <2> QED
    BY <2>1, <2>2, <2>3, OutsideKept DEF DoneInv
<1>2. CASE ReaderDone(r)
  <2> DEFINE after == IF reader[r].err = "nil" THEN "idle" ELSE "fail"
  <2>1. /\ reader[r].pc \in Teardown /\ Done(r, reader[r].pc)
        /\ reader' = [reader EXCEPT ![r].pc = AfterDone(r, @, after)]
        /\ UNCHANGED <<closer, watcher, monitor, app>>
    BY <1>2 DEF ReaderDone, clientVars, loopVars
  <2>2. after \notin Body
    BY DEF Body
  <2> HIDE DEF after
  <2>3. reader'[r].pc = AfterDone(r, reader[r].pc, after)
        /\ \A q \in Replies : q # r => reader'[q] = reader[q]
    BY <2>1 DEF ReadOK
  <2>4. Enters(r, "reader") \/ Advances(r, "reader")
    BY <2>1, <2>2, <2>3 DEF Done, AfterDone, Enters, Advances, Stage, PcOf, Teardown, Body
  <2>5. \A q \in Replies, k \in Who : q # r \/ k # "reader" => Stage(q, k)' = Stage(q, k)
    BY <2>1, <2>3 DEF Stage, PcOf
  <2>6. app[r].pc # "none"
    BY <2>1 DEF DoneInv, Unmade, NotMade, Teardown
  <2>7. \A q \in Replies : app[q].pc = "none" =>
          reader'[q].pc = "none" /\ watcher'[q] = "none" /\ monitor'[q] = "none"
    BY <2>1, <2>3, <2>6 DEF DoneInv, Unmade, NotMade
  <2> QED
    BY <2>1, <2>4, <2>5, <2>6, <2>7, DoneStep DEF Who, DoneInv
<1> QED
  BY <1>1, <1>2

\* The watcher.
LEMMA WatcherDoes ==
  ASSUME TypeOK, DoneInv, NEW r \in Replies, Watcher(r)
  PROVE  DoneInv'
<1> USE TypeParts
<1>1. /\ UNCHANGED <<closer, reader, monitor, app>> /\ watcher[r] # "none"
      /\ \A q \in Replies : q # r => watcher'[q] = watcher[q]
  BY DEF Watcher, WatcherWakes, WatcherDone, WatcherStep, clientVars, readVars, LoopOK, Teardown
<1>2. Enters(r, "watcher") \/ Advances(r, "watcher")
  <2>1. CASE WatcherWakes(r)
    BY <2>1 DEF WatcherWakes, WatcherStep, AfterDone, Enters, Stage, PcOf, Body, LoopOK
  <2>2. CASE WatcherDone(r)
    <3>1. /\ watcher[r] \in Teardown /\ Done(r, watcher[r])
          /\ watcher'[r] = AfterDone(r, watcher[r], "exited")
      BY <2>2 DEF WatcherDone, WatcherStep, LoopOK
    <3> QED
      BY <3>1 DEF Done, AfterDone, Enters, Advances, Stage, PcOf, Teardown, Body
  <2> QED
    BY <2>1, <2>2 DEF Watcher
<1>3. \A q \in Replies, k \in Who : q # r \/ k # "watcher" => Stage(q, k)' = Stage(q, k)
  BY <1>1 DEF Stage, PcOf
<1>4. app[r].pc # "none"
  BY <1>1 DEF DoneInv, Unmade, NotMade
<1>5. \A q \in Replies : app[q].pc = "none" =>
        reader'[q].pc = "none" /\ watcher'[q] = "none" /\ monitor'[q] = "none"
  BY <1>1, <1>4 DEF DoneInv, Unmade, NotMade
<1> QED
  BY <1>1, <1>2, <1>3, <1>4, <1>5, DoneStep DEF Who, DoneInv

\* The monitor, outside of done and inside of it; the pings.
LEMMA MonitorDoes ==
  ASSUME TypeOK, DoneInv, NEW r \in Replies, Monitor(r) \/ PingLoop(r)
  PROVE  DoneInv'
<1> USE TypeParts
<1>1. CASE MonitorFires(r) \/ MonitorWritesEnd(r) \/ MonitorExit(r) \/ PingLoop(r)
  <2>1. UNCHANGED <<closed, endOnce, msgClosed, events, streams, closer, watcher, reader, app>>
    BY <1>1 DEF MonitorFires, MonitorWritesEnd, MonitorExit, MonitorStep, PingLoop, PingTick,
                PingWrite, clientVars, doneVars, readVars
  <2>2. /\ \A q \in Replies : q # r => monitor'[q] = monitor[q]
        /\ \/ monitor'[r] = monitor[r]
           \/ monitor'[r] \notin Body /\ monitor[r] \notin Body /\ monitor[r] # "none"
    BY <1>1 DEF MonitorFires, MonitorWritesEnd, MonitorExit, MonitorStep, PingLoop, PingTick,
                PingWrite, Body, LoopOK
  <2>3. \A q \in Replies, k \in Who : Stage(q, k)' = Stage(q, k)
    BY <2>1, <2>2 DEF Stage, PcOf
  <2> QED
    BY <2>1, <2>2, <2>3, OutsideKept DEF DoneInv
<1>2. CASE MonitorDone(r)
  <2>1. /\ UNCHANGED <<closer, reader, watcher, app>>
        /\ monitor[r] \in Teardown /\ Done(r, monitor[r])
        /\ monitor'[r] = AfterDone(r, monitor[r], "exited")
        /\ \A q \in Replies : q # r => monitor'[q] = monitor[q]
    BY <1>2 DEF MonitorDone, MonitorStep, clientVars, readVars, LoopOK
  <2>2. Enters(r, "monitor") \/ Advances(r, "monitor")
    BY <2>1 DEF Done, AfterDone, Enters, Advances, Stage, PcOf, Teardown, Body
  <2>3. \A q \in Replies, k \in Who : q # r \/ k # "monitor" => Stage(q, k)' = Stage(q, k)
    BY <2>1 DEF Stage, PcOf
  <2>4. app[r].pc # "none"
    BY <2>1 DEF DoneInv, Unmade, NotMade, Teardown
  <2>5. \A q \in Replies : app[q].pc = "none" =>
          reader'[q].pc = "none" /\ watcher'[q] = "none" /\ monitor'[q] = "none"
    BY <2>1, <2>4 DEF DoneInv, Unmade, NotMade
  <2> QED
    BY <2>1, <2>2, <2>3, <2>4, <2>5, DoneStep DEF Who, DoneInv
<1> QED
  BY <1>1, <1>2 DEF Monitor

\* Client.Close goes from one stream of its snapshot to the next.
LEMMA CloseDone ==
  ASSUME TypeOK, DoneInv, Close
  PROVE  DoneInv'
<1> USE TypeParts
<1>1. UNCHANGED <<reader, watcher, monitor, app>>
  BY DEF Close, CloseSnapshot, CloseBegins, CloseNext, CloserDone, CloserStep, readVars, loopVars
<1>2. \A q \in Replies, k \in Who \ {"closer"} : Stage(q, k)' = Stage(q, k)
  BY <1>1 DEF Stage, PcOf, Who
<1>3. \A q \in Replies : app[q].pc = "none" =>
        reader'[q].pc = "none" /\ watcher'[q] = "none" /\ monitor'[q] = "none"
  BY <1>1 DEF DoneInv, Unmade, NotMade
<1>4. CASE CloseSnapshot
  <2>1. /\ closer.pc = "none" /\ closer'.pc = "next" /\ closer'.left = streams
        /\ UNCHANGED <<closed, endOnce, msgClosed, events, streams>>
    BY <1>4 DEF CloseSnapshot, CloseBegins, CloserStep, doneVars
  <2>2. \A q \in Replies, k \in Who : Stage(q, k)' = Stage(q, k)
    BY <1>2, <2>1 DEF Stage, PcOf, Body, Who
  <2>3. OneInBody' /\ StageTold' /\ FlagsOrdered' /\ EventsCounted' /\ EntryOwed'
    BY <1>1, <2>1, <2>2 DEF DoneInv, OneInBody, StageTold, FlagsOrdered, EventsCounted, EntryOwed
  <2>4. Unmade'
    BY <1>1, <2>1 DEF DoneInv, Unmade, NotMade
  <2> QED
    BY <2>1, <2>3, <2>4 DEF DoneInv
<1>5. CASE CloseNext
  <2>1. CASE closer.left = {} /\ CloserStep("returned", {}, AnyReply) /\ UNCHANGED doneVars
    <3>1. /\ closer'.pc = "returned" /\ closer'.left = closer.left /\ closer.pc = "next"
          /\ UNCHANGED <<closed, endOnce, msgClosed, events, streams>>
      BY <1>5, <2>1 DEF CloseNext, CloserStep, doneVars
    <3>2. \A q \in Replies, k \in Who : Stage(q, k)' = Stage(q, k)
      BY <1>2, <3>1 DEF Stage, PcOf, Body, Who
    <3> QED
      BY <1>1, <3>1, <3>2, OutsideKept
  <2>2. ASSUME NEW r \in closer.left, DoneCAS(r),
               CloserStep(AfterDone(r, "cas", "next"), closer.left \ {r}, r)
        PROVE  DoneInv'
    <3>1. r \in Replies /\ closer.pc = "next" /\ closer'.left \subseteq closer.left
      BY <1>5, <2>2 DEF CloseNext, CloserStep, CloserOK
    <3>2. /\ closer'.pc = IF closed[r] THEN "next" ELSE "event"
          /\ ~closed[r] => closer'.at = r
      BY <2>2 DEF CloserStep, AfterDone, Teardown
    <3>3. Enters(r, "closer")
      BY <2>2, <3>1, <3>2 DEF Enters, Stage, PcOf, Body
    <3>4. \A q \in Replies, j \in Who : q # r \/ j # "closer" => Stage(q, j)' = Stage(q, j)
      BY <1>2, <3>1, <3>2 DEF Stage, PcOf, Body, Who
    <3>5. app[r].pc # "none"
      BY <3>1 DEF DoneInv, Unmade, NotMade
    <3> QED
      BY <1>1, <1>3, <3>1, <3>2, <3>3, <3>4, <3>5, DoneStep DEF Who
  <2> QED
    BY <1>5, <2>1, <2>2 DEF CloseNext
<1>6. CASE CloserDone
  <2>r. PICK r \in Replies : r = closer.at
    BY DEF CloserOK
  <2>1. /\ closer.pc \in Body /\ Done(r, closer.pc) /\ r \in Replies /\ closer'.left = closer.left
        /\ closer'.pc = AfterDone(r, closer.pc, "next")
        /\ closer'.pc \in Teardown => closer'.at = r
    BY <1>6, <2>r DEF CloserDone, CloserStep, CloserOK, DoneInv, Body, Teardown
  <2>2. closer'.pc # "cas" /\ closer.at = r
    BY <2>1, <2>r DEF AfterDone, Body
  <2>3. /\ Stage(r, "closer") = closer.pc
        /\ Stage(r, "closer")' = IF closer.pc = "remove" THEN "out" ELSE closer'.pc
    <3>1. PcOf(r, "closer") = closer.pc
      BY <2>2 DEF PcOf
    <3>2. CASE closer.pc = "remove"
      <4>1. closer'.pc = "next"
        BY <2>1, <3>2 DEF AfterDone
      <4> QED
        BY <2>1, <3>1, <3>2, <4>1 DEF Stage, PcOf, Body
    <3>3. CASE closer.pc # "remove"
      <4>1. closer'.pc \in Body /\ closer'.at = r
        BY <2>1, <3>3 DEF AfterDone, Body, Teardown
      <4> QED
        BY <2>1, <3>1, <3>3, <4>1 DEF Stage, PcOf
    <3> QED
      BY <3>2, <3>3
  <2>4. Advances(r, "closer")
    BY <2>1, <2>3 DEF Done, AfterDone, Advances, Body
  <2>5. \A q \in Replies, j \in Who : q # r \/ j # "closer" => Stage(q, j)' = Stage(q, j)
    BY <1>2, <2>1, <2>2 DEF Stage, PcOf, Body, Who, Teardown, AfterDone
  <2>6. app[r].pc # "none"
    <3>1. closed[r]
      BY <2>1, <2>3 DEF DoneInv, StageTold, Who, Body
    <3> QED
      BY <2>1, <3>1 DEF DoneInv, Unmade, NotMade
  <2> QED
    BY <1>1, <1>3, <2>1, <2>2, <2>4, <2>5, <2>6, DoneStep DEF Who
<1> QED
  BY <1>4, <1>5, <1>6 DEF Close

\* Nobody is in done at first.
LEMMA InitDone == Init => DoneInv
<1> SUFFICES ASSUME Init PROVE DoneInv
  OBVIOUS
<1>1. \A r \in Replies : /\ ~closed[r] /\ ~endOnce[r] /\ ~msgClosed[r] /\ events[r] = <<>>
                         /\ app[r].pc = "none" /\ reader[r].pc = "none" /\ watcher[r] = "none"
                         /\ monitor[r] = "none"
  BY DEF Init
<1>2. closer.pc = "none" /\ closer.left = {} /\ streams = {}
  BY DEF Init
<1>3. \A r \in Replies, k \in Who : Stage(r, k) = "out"
  BY <1>1, <1>2 DEF Stage, PcOf, Body
<1>4. OneInBody /\ StageTold /\ FlagsOrdered /\ EntryOwed
  BY <1>1, <1>2, <1>3 DEF OneInBody, StageTold, FlagsOrdered, EntryOwed
<1>5. EventsCounted /\ Unmade
  BY <1>1, <1>2 DEF EventsCounted, Unmade, NotMade
<1> QED
  BY <1>2, <1>4, <1>5 DEF DoneInv

\* Every step keeps the teardown in order.
LEMMA NextDone ==
  ASSUME TypeOK, DoneInv, [Next]_vars
  PROVE  DoneInv'
<1>1. CASE UNCHANGED vars \/ Environment
  <2>1. UNCHANGED <<closed, endOnce, msgClosed, events, streams, closer, watcher, monitor, reader,
                    app>>
    BY <1>1 DEF Environment, ServerStep, ServerBegins, ServerSends, ServerEnds, ServerPongs,
                ServerWrites, Deliver, vars, clientVars, doneVars, readVars, loopVars
  <2>2. \A q \in Replies, k \in Who : Stage(q, k)' = Stage(q, k)
    BY <2>1 DEF Stage, PcOf
  <2> QED
    BY <2>1, <2>2, OutsideKept DEF DoneInv
<1> QED
  BY <1>1, AppDone, ReadMsgDone, WatcherDoes, MonitorDoes, CloseDone DEF Next, Client

\* The invariant of types and teardown.
TeardownInv == TypeOK /\ Rooms /\ DoneInv

\* So it is in order always.
LEMMA TeardownInvariant == Spec => []TeardownInv
<1>1. Init => TeardownInv
  BY InitTyped, InitDone DEF TeardownInv
<1>2. TeardownInv /\ [Next]_vars => TeardownInv'
  BY NextTyped, NextDone DEF TeardownInv
<1> QED
  BY <1>1, <1>2, PTL DEF Spec

\* ReadMsg, the watcher, the monitor and Client.Close may all be in done at once, and
\* never does one of them reach the closes of heartbeatStop and msgCh once msgCh is
\* closed: closing a channel a second time panics (client.go:632-655).
THEOREM ClosesOnce == Spec => []ChannelsClosedOnce
<1>1. TeardownInv => ChannelsClosedOnce
  <2> SUFFICES ASSUME TeardownInv, NEW r \in Replies, msgClosed[r]
               PROVE  /\ "unsub" \notin {reader[r].pc, watcher[r], monitor[r]}
                      /\ ~(closer.pc = "unsub" /\ closer.at = r)
    BY DEF ChannelsClosedOnce
  <2>1. \A k \in Who : Stage(r, k) # "unsub"
    BY DEF TeardownInv, DoneInv, StageTold
  <2> QED
    BY <2>1 DEF Stage, PcOf, Who, Body
<1> QED
  BY <1>1, TeardownInvariant, PTL

\* done() cancels a context only after the stream's End is out.
CancelInv == \A r \in Replies :
  ctx[r] = "Canceled" => "Canceled" \in CtxErrors \/ endOnce[r]

\* A step of done's callers is one of the body at the stage it is in, or none of done.
LEMMA CancelStep ==
  ASSUME TypeOK, DoneInv, NEW r \in Replies, NEW pc, Done(r, pc) \/ DoneCAS(r),
         pc = "cancel" => endOnce[r]
  PROVE  \A q \in Replies :
           /\ endOnce[q] => endOnce'[q]
           /\ ctx'[q] = "Canceled" => ctx[q] = "Canceled" \/ endOnce[q]
<1> USE TypeParts
<1>1. CASE DoneCAS(r) \/ DoneCloseChannels(r) \/ DoneRemove(r)
  BY <1>1 DEF DoneCAS, DoneCloseChannels, DoneRemove
<1>2. CASE DoneEvent(r)
  BY <1>2 DEF DoneEvent, DoneOK
<1>3. CASE pc = "cancel" /\ DoneCancel(r)
  BY <1>3 DEF DoneCancel, DoneOK
<1> QED
  BY <1>1, <1>2, <1>3 DEF Done

\* Every step keeps the End before the cancel.
LEMMA NextCancel ==
  ASSUME TypeOK, DoneInv, CancelInv, [Next]_vars
  PROVE  CancelInv'
<1> USE TypeParts
<1>1. ASSUME \A q \in Replies :
               /\ endOnce[q] => endOnce'[q]
               /\ ctx'[q] = "Canceled" =>
                    ctx[q] = "Canceled" \/ "Canceled" \in CtxErrors \/ endOnce[q]
      PROVE  CancelInv'
  BY <1>1 DEF CancelInv
<1>2. \A r \in Replies : /\ reader[r].pc = "cancel" => endOnce[r]
                         /\ watcher[r] = "cancel" => endOnce[r]
                         /\ monitor[r] = "cancel" => endOnce[r]
                         /\ closer.pc = "cancel" /\ closer.at = r => endOnce[r]
  <2> SUFFICES ASSUME NEW r \in Replies, NEW k \in Who, PcOf(r, k) = "cancel"
               PROVE  endOnce[r]
    BY DEF Who, PcOf
  <2>1. Stage(r, k) = "cancel"
    BY DEF Stage, Body
  <2> QED
    BY <2>1 DEF DoneInv, StageTold
<1>3. ASSUME NEW r \in Replies, App(r) \/ PingLoop(r)
      PROVE  CancelInv'
  <2>1. UNCHANGED endOnce
    BY <1>3 DEF App, NewClientStream, EnterStream, SendMsgChecks, SendMsgWrites, CloseSend,
                RecvMsgData, RecvMsgEOF, RecvMsgCtxDone, Returns, CallerCtxDone, PingLoop,
                PingTick, PingWrite, AppVarsOnly, doneVars
  <2>2. UNCHANGED ctx \/ \E why \in CtxErrors : ctx' = [ctx EXCEPT ![r] = why]
    BY <1>3 DEF App, NewClientStream, EnterStream, SendMsgChecks, SendMsgWrites, CloseSend,
                RecvMsgData, RecvMsgEOF, RecvMsgCtxDone, Returns, CallerCtxDone, PingLoop,
                PingTick, PingWrite, AppVarsOnly, doneVars
  <2> QED
    BY <1>1, <2>1, <2>2 DEF DoneOK
<1>4. ASSUME NEW r \in Replies, ReadMsg(r) \/ Watcher(r) \/ Monitor(r)
      PROVE  CancelInv'
  <2>1. UNCHANGED <<ctx, endOnce>>
        \/ \E pc : (Done(r, pc) \/ DoneCAS(r)) /\ (pc = "cancel" => endOnce[r])
    <3>1. CASE ReadMsg(r) /\ ~ReaderDone(r)
      BY <3>1 DEF ReadMsg, ReadIgnored, ReadData, ReadPush, HandOver, ReadEndOK, ReadEndErr, Take,
                  ReadUndecodable, SetLastErr, ReadExit, doneVars
    <3>2. CASE ReaderDone(r)
      BY <1>2, <3>2 DEF ReaderDone
    <3>3. CASE WatcherWakes(r)
      BY <3>3, "cas" # "cancel" DEF WatcherWakes
    <3>4. CASE WatcherDone(r)
      BY <1>2, <3>4 DEF WatcherDone
    <3>5. CASE MonitorDone(r)
      BY <1>2, <3>5 DEF MonitorDone
    <3>6. CASE MonitorFires(r) \/ MonitorWritesEnd(r) \/ MonitorExit(r)
      BY <3>6 DEF MonitorFires, MonitorWritesEnd, MonitorExit, doneVars
    <3> QED
      BY <1>4, <3>1, <3>2, <3>3, <3>4, <3>5, <3>6 DEF Watcher, Monitor
  <2> QED
    BY <1>1, <2>1, CancelStep
<1>5. ASSUME Close
      PROVE  CancelInv'
  <2>1. UNCHANGED <<ctx, endOnce>>
        \/ \E r \in Replies : \E pc : (Done(r, pc) \/ DoneCAS(r)) /\ (pc = "cancel" => endOnce[r])
    <3>1. CASE CloserDone
      BY <1>2, <3>1 DEF CloserDone, CloserOK
    <3>2. CASE CloseSnapshot \/ CloseNext
      BY <3>2, "cas" # "cancel" DEF CloseSnapshot, CloseBegins, CloseNext, CloserOK, doneVars
    <3> QED
      BY <1>5, <3>1, <3>2 DEF Close
  <2> QED
    BY <1>1, <2>1, CancelStep
<1>6. ASSUME Environment \/ UNCHANGED vars
      PROVE  CancelInv'
  <2>1. UNCHANGED <<ctx, endOnce>>
    BY <1>6 DEF Environment, ServerStep, ServerBegins, ServerSends, ServerEnds, ServerPongs,
                ServerWrites, Deliver, doneVars, vars
  <2> QED
    BY <1>1, <2>1
<1> QED
  BY <1>3, <1>4, <1>5, <1>6 DEF Next, Client

\* A stream reports at most one End, and it is out before done cancels, unsubscribes
\* and closes: endOnce comes first (client.go:635-648).
THEOREM EndComesFirst == Spec => []EndBeforeTeardown
<1>1. TeardownInv /\ CancelInv => EndBeforeTeardown
  <2> SUFFICES ASSUME TeardownInv, CancelInv, NEW r \in Replies
               PROVE  /\ Len(events[r]) <= 2
                      /\ ctx[r] = "Canceled" => "Canceled" \in CtxErrors \/ Len(events[r]) = 2
                      /\ msgClosed[r] => Len(events[r]) = 2
    BY DEF EndBeforeTeardown
  <2>1. /\ Len(events[r]) = (IF app[r].pc = "none" THEN 0 ELSE 1) + (IF endOnce[r] THEN 1 ELSE 0)
        /\ msgClosed[r] => endOnce[r]
        /\ app[r].pc = "none" => ~endOnce[r]
        /\ ctx[r] = "Canceled" => "Canceled" \in CtxErrors \/ endOnce[r]
    BY DEF TeardownInv, DoneInv, EventsCounted, FlagsOrdered, Unmade, NotMade, CancelInv
  <2> QED
    BY <2>1
<1>2. Init => CancelInv
  BY DEF Init, CancelInv
<1>3. TeardownInv /\ CancelInv /\ [Next]_vars => CancelInv'
  BY NextCancel DEF TeardownInv
<1> QED
  BY <1>1, <1>2, <1>3, TeardownInvariant, PTL DEF Spec

\* Whoever won the CompareAndSwap removes the entry before he leaves done; only a
\* stream torn down before streamOnSubject entered it stays in Client.streams
\* (client.go:406-412 and 632-655).
THEOREM EntryIsRemoved == Spec => []EntryRemoved
<1>1. TeardownInv => EntryRemoved
  <2> SUFFICES ASSUME TeardownInv, NEW r \in Replies, closed[r],
                      {reader[r].pc, watcher[r], monitor[r]} \cap Teardown = {},
                      ~(closer.pc \in Teardown /\ closer.at = r)
               PROVE  r \notin streams \/ app[r].late
    BY DEF EntryRemoved
  <2>1. \A k \in Who : Stage(r, k) = "out"
    BY DEF Stage, PcOf, Who, Body, Teardown
  <2> QED
    BY <2>1, TypeParts DEF TeardownInv, DoneInv, EntryOwed
<1> QED
  BY <1>1, TeardownInvariant, PTL

-----------------------------------------------------------------------------
(* Causes                                                                   *)

Ends == {"EndOK", "EndErr"}
IsEnd(f) == f.type \in Ends
EndWritten(r) == \E f \in requests[r] : f.type = "EndErr"

\* An End on its way is the one the server sent; so is what came of it.
EndsTell(L, ended) == \A i \in 1..Len(L) : IsEnd(L[i]) => ended = L[i].type
EndsSent == \A r \in Replies :
  EndsTell(responses[r], server[r].ended) /\ EndsTell(msgCh[r], server[r].ended)
StatusSent == \A r \in Replies :
  "Status" \in {reader[r].err, endErr[r], lastErr[r], app[r].result} => server[r].ended = "EndErr"
EventsCaused == \A r \in Replies : \A i \in 1..Len(events[r]) :
  /\ events[r][i] = "Status" => server[r].ended = "EndErr"
  /\ events[r][i] = "Unavailable" => monitor[r] = "writeEnd" \/ EndWritten(r)
TimeoutWritten == \A r \in Replies :
  endErr[r] = "Unavailable" => monitor[r] = "writeEnd" \/ EndWritten(r)

CauseInv == EndsSent /\ StatusSent /\ EventsCaused /\ TimeoutWritten

\* What the server ended with stays, and so does the monitor's End to the server.
Lasting == \A r \in Replies :
  /\ server[r].ended = "EndErr" => server'[r].ended = "EndErr"
  /\ monitor[r] = "writeEnd" \/ EndWritten(r) => monitor'[r] = "writeEnd" \/ EndWritten(r)'

\* No step takes a cause back.
LEMMA CausesLast ==
  ASSUME TypeOK, DoneInv, [Next]_vars
  PROVE  Lasting
<1> USE TypeParts
<1>1. \A r \in Replies : server[r].ended = "EndErr" => server'[r].ended = "EndErr"
  <2>1. CASE UNCHANGED server
    BY <2>1
  <2>2. ASSUME NEW r \in Replies, ServerStep(r)
        PROVE  \A q \in Replies : server[q].ended = "EndErr" => server'[q].ended = "EndErr"
    <3>1. PICK state : /\ server' = [server EXCEPT ![r] = state]
                       /\ server[r].ended = "EndErr" => state.ended = "EndErr"
      BY <2>2 DEF ServerStep, ServerBegins, ServerSends, ServerEnds, ServerPongs, Serving,
                  ServerWrites, WireOK
    <3> QED
      BY <3>1 DEF WireOK
  <2>3. ASSUME NEW r \in Replies, App(r) \/ PingLoop(r)
        PROVE  UNCHANGED server
    BY <2>3 DEF App, NewClientStream, EnterStream, SendMsgChecks, SendMsgWrites, CloseSend, Publish,
                RecvMsgData, RecvMsgEOF, RecvMsgCtxDone, Returns, CallerCtxDone, PingLoop,
                PingTick, PingWrite, wireVars
  <2>4. ASSUME NEW r \in Replies, ReadMsg(r) \/ Watcher(r) \/ Monitor(r)
        PROVE  UNCHANGED server
    BY <2>4 DEF ReadMsg, ReadIgnored, ReadData, ReadPush, HandOver, ReadEndOK, ReadEndErr, Take,
                ReaderDone, ReadUndecodable, SetLastErr, ReadExit, Watcher, WatcherWakes, WatcherDone, WatcherStep,
                Monitor, MonitorFires, MonitorWritesEnd, MonitorDone, MonitorExit, Publish, wireVars
  <2>5. ASSUME Close \/ (\E r \in Replies : Deliver(r)) \/ UNCHANGED vars
        PROVE  UNCHANGED server
    BY <2>5 DEF Close, CloseSnapshot, CloseBegins, CloseNext, CloserDone, CloserStep, Deliver,
                wireVars, vars
  <2> QED
    BY <2>1, <2>2, <2>3, <2>4, <2>5 DEF Next, Client, Environment
<1>2. \A r \in Replies : EndWritten(r) => EndWritten(r)'
  <2>1. ASSUME \A r \in Replies : requests[r] \subseteq requests'[r]
        PROVE  \A r \in Replies : EndWritten(r) => EndWritten(r)'
    BY <2>1 DEF EndWritten
  <2>2. ASSUME NEW r \in Replies, NEW fs, Publish(r, fs)
        PROVE  \A q \in Replies : requests[q] \subseteq requests'[q]
    BY <2>2 DEF Publish, WireOK
  <2>3. ASSUME NEW r \in Replies, App(r) \/ PingLoop(r) \/ Monitor(r)
        PROVE  UNCHANGED requests \/ \E fs : Publish(r, fs)
    BY <2>3 DEF App, NewClientStream, EnterStream, SendMsgChecks, SendMsgWrites, CloseSend,
                RecvMsgData, RecvMsgEOF, RecvMsgCtxDone, Returns, CallerCtxDone, PingLoop,
                PingTick, PingWrite, Monitor, MonitorFires, MonitorWritesEnd, MonitorDone,
                MonitorExit, wireVars
  <2>4. ASSUME NEW r \in Replies, ReadMsg(r) \/ Watcher(r)
        PROVE  UNCHANGED requests
    BY <2>4 DEF ReadMsg, ReadIgnored, ReadData, ReadPush, HandOver, ReadEndOK, ReadEndErr, Take,
                ReaderDone, ReadUndecodable, SetLastErr, ReadExit, Watcher, WatcherWakes, WatcherDone, WatcherStep,
                wireVars
  <2>5. ASSUME Close \/ Environment \/ UNCHANGED vars
        PROVE  UNCHANGED requests
    BY <2>5 DEF Close, CloseSnapshot, CloseBegins, CloseNext, CloserDone, CloserStep, Environment,
                ServerStep, ServerBegins, ServerSends, ServerEnds, ServerPongs, ServerWrites,
                Deliver, wireVars, vars
  <2> QED
    BY <2>1, <2>2, <2>3, <2>4, <2>5 DEF Next, Client
<1>3. \A r \in Replies : monitor[r] = "writeEnd" => monitor'[r] = "writeEnd" \/ EndWritten(r)'
  <2>1. ASSUME NEW r \in Replies, MonitorWritesEnd(r)
        PROVE  EndWritten(r)' /\ \A q \in Replies : q # r => monitor'[q] = monitor[q]
    BY <2>1 DEF MonitorWritesEnd, Publish, Frame, MonitorStep, EndWritten, WireOK, LoopOK
  <2>2. ASSUME NEW r \in Replies, Monitor(r), ~MonitorWritesEnd(r)
        PROVE  \A q \in Replies : monitor[q] = "writeEnd" => monitor'[q] = "writeEnd"
    BY <2>2 DEF Monitor, MonitorFires, MonitorDone, MonitorExit, MonitorStep, Teardown, LoopOK
  <2>3. ASSUME NEW r \in Replies, App(r) \/ PingLoop(r), ~NewClientStream(r)
        PROVE  UNCHANGED monitor
    BY <2>3 DEF App, EnterStream, SendMsgChecks, SendMsgWrites, CloseSend, RecvMsgData, RecvMsgEOF,
                RecvMsgCtxDone, Returns, CallerCtxDone, PingLoop, PingTick, PingWrite,
                AppVarsOnly, loopVars
  <2>4. ASSUME NEW r \in Replies, NewClientStream(r)
        PROVE  \A q \in Replies : monitor[q] = "writeEnd" => monitor'[q] = "writeEnd"
    <3>1. monitor[r] = "none" /\ monitor' \in {monitor, [monitor EXCEPT ![r] = "running"]}
      BY <2>4 DEF NewClientStream, DoneInv, Unmade, NotMade
    <3> QED
      BY <3>1 DEF LoopOK
  <2>5. ASSUME NEW r \in Replies, ReadMsg(r) \/ Watcher(r)
        PROVE  UNCHANGED monitor
    BY <2>5 DEF ReadMsg, ReadIgnored, ReadData, ReadPush, HandOver, ReadEndOK, ReadEndErr, Take,
                ReaderDone, ReadUndecodable, SetLastErr, ReadExit, Watcher, WatcherWakes, WatcherDone, WatcherStep,
                loopVars
  <2>6. ASSUME Close \/ Environment \/ UNCHANGED vars
        PROVE  UNCHANGED monitor
    BY <2>6 DEF Close, CloseSnapshot, CloseBegins, CloseNext, CloserDone, CloserStep, Environment,
                ServerStep, ServerBegins, ServerSends, ServerEnds, ServerPongs, ServerWrites,
                Deliver, loopVars, vars
  <2>7. ASSUME UNCHANGED monitor
        PROVE  \A q \in Replies : monitor[q] = "writeEnd" => monitor'[q] = "writeEnd"
    BY <2>7
  <2>8. ASSUME NEW r \in Replies, App(r) \/ ReadMsg(r) \/ Watcher(r) \/ Monitor(r) \/ PingLoop(r)
        PROVE  \A q \in Replies : monitor[q] = "writeEnd" => monitor'[q] = "writeEnd" \/ EndWritten(q)'
    BY <2>1, <2>2, <2>3, <2>4, <2>5, <2>7, <2>8
  <2> QED
    BY <2>6, <2>7, <2>8 DEF Next, Client
<1> QED
  BY <1>1, <1>2, <1>3 DEF Lasting

\* What a step of ReadMsg changes of reader.
LEMMA ReaderSteps ==
  ASSUME TypeOK, NEW r \in Replies, ReadMsg(r)
  PROVE  /\ \A q \in Replies : q # r => reader'[q] = reader[q]
         /\ reader'[r].err # reader[r].err =>
              ReadEndErr(r) \/ reader'[r].err \in {"nil", "Undecodable"}
<1> USE TypeParts
<1>1. CASE ReadIgnored(r) \/ ReadData(r)
  <2>1. UNCHANGED reader
        \/ reader' = [reader EXCEPT ![r].pc = "push", ![r].n = Head(msgCh[r]).n]
    BY <1>1 DEF ReadIgnored, ReadData
  <2> QED
    BY <2>1 DEF ReadOK
<1>2. CASE ReadPush(r)
  BY <1>2 DEF ReadPush, HandOver, ReadOK
<1>3. CASE ReadEndOK(r)
  BY <1>3 DEF ReadEndOK, ReadOK
<1>4. CASE ReadEndErr(r)
  BY <1>4 DEF ReadEndErr, ReadOK
<1>5. CASE ReaderDone(r)
  BY <1>5 DEF ReaderDone, ReadOK
<1>6. CASE ReadUndecodable(r) \/ SetLastErr(r) \/ ReadExit(r)
  BY <1>6 DEF ReadUndecodable, SetLastErr, ReadExit, ReadOK
<1> QED
  BY <1>1, <1>2, <1>3, <1>4, <1>5, <1>6 DEF ReadMsg

\* The stats events of a stream grow by a Begin or by the endErr of the moment.
LEMMA EventsGrow ==
  ASSUME TypeOK, [Next]_vars, NEW q \in Replies
  PROVE  events'[q] \in {events[q], Append(events[q], "Begin"), Append(events[q], endErr[q])}
<1> USE TypeParts
<1>1. ASSUME NEW r \in Replies, NEW pc, Done(r, pc) \/ DoneCAS(r)
      PROVE  events'[q] \in {events[q], Append(events[q], endErr[q])}
  BY <1>1 DEF Done, DoneCAS, DoneEvent, DoneCancel, DoneCloseChannels, DoneRemove, DoneOK
<1>2. ASSUME NEW r \in Replies, App(r) \/ PingLoop(r)
      PROVE  events'[q] \in {events[q], Append(events[q], "Begin")}
  BY <1>2 DEF App, NewClientStream, EnterStream, SendMsgChecks, SendMsgWrites, CloseSend,
              RecvMsgData, RecvMsgEOF, RecvMsgCtxDone, Returns, CallerCtxDone, PingLoop,
              PingTick, PingWrite, AppVarsOnly, doneVars, DoneOK
<1>3. ASSUME NEW r \in Replies, ReadMsg(r) \/ Watcher(r) \/ Monitor(r)
      PROVE  UNCHANGED events \/ DoneCAS(r) \/ \E pc : Done(r, pc)
  BY <1>3 DEF ReadMsg, ReadIgnored, ReadData, ReadPush, HandOver, ReadEndOK, ReadEndErr, Take,
              ReaderDone, ReadUndecodable, SetLastErr, ReadExit, Watcher, WatcherWakes, WatcherDone, Monitor,
              MonitorFires, MonitorWritesEnd, MonitorDone, MonitorExit, doneVars
<1>4. ASSUME Close
      PROVE  UNCHANGED events \/ \E r \in Replies : DoneCAS(r) \/ \E pc : Done(r, pc)
  BY <1>4 DEF Close, CloseSnapshot, CloseBegins, CloseNext, CloserDone, doneVars, CloserOK
<1>5. ASSUME Environment \/ UNCHANGED vars
      PROVE  UNCHANGED events
  BY <1>5 DEF Environment, ServerStep, ServerBegins, ServerSends, ServerEnds, ServerPongs,
              ServerWrites, Deliver, doneVars, vars
<1> QED
  BY <1>1, <1>2, <1>3, <1>4, <1>5 DEF Next, Client

\* What the steps of the caller's goroutine change of app.
LEMMA AppSteps ==
  ASSUME TypeOK, NEW r \in Replies, App(r)
  PROVE  /\ \A q \in Replies : q # r => app'[q] = app[q]
         /\ app'[r].result # app[r].result =>
              \/ RecvMsgEOF(r) /\ app'[r].result = "EOF"
              \/ RecvMsgCtxDone(r) /\ app'[r].result \in {lastErr[r]} \cup ContextError
         /\ app'[r].got # app[r].got => RecvMsgData(r)
         /\ app[r].sends <= app'[r].sends
         /\ app[r].sends # app'[r].sends => app[r].pc = "sending"
         /\ app'[r].pc = "none" => app[r].pc = "none"
<1> USE TypeParts
<1>1. CASE NewClientStream(r)
  BY <1>1 DEF NewClientStream, AppOK
<1>2. CASE EnterStream(r)
  <2>1. app' = [app EXCEPT ![r].pc = "open", ![r].late = closed[r]]
    BY <1>2 DEF EnterStream
  <2> QED
    BY <2>1 DEF AppOK
<1>3. CASE SendMsgChecks(r)
  BY <1>3 DEF SendMsgChecks, AppOK
<1>4. CASE SendMsgWrites(r)
  BY <1>4, ClientAssumption DEF SendMsgWrites, AppOK
<1>5. CASE CloseSend(r)
  BY <1>5 DEF CloseSend, AppOK
<1>6. CASE RecvMsgData(r)
  BY <1>6 DEF RecvMsgData, AppOK
<1>7. CASE RecvMsgEOF(r)
  BY <1>7 DEF RecvMsgEOF, Returns, AppOK
<1>8. CASE RecvMsgCtxDone(r)
  <2>1. PICK result \in {lastErr[r]} \cup ContextError : app' = [app EXCEPT ![r].result = result]
    BY <1>8 DEF RecvMsgCtxDone, Returns, DoneOK
  <2> QED
    BY <1>8, <2>1 DEF AppOK
<1>9. CASE CallerCtxDone(r)
  BY <1>9 DEF CallerCtxDone, AppOK
<1> QED
  BY <1>1, <1>2, <1>3, <1>4, <1>5, <1>6, <1>7, <1>8, <1>9 DEF App

\* An error of a stream that was none before is the server's End that ReadMsg took,
\* or the monitor's.
LEMMA ErrorsGrow ==
  ASSUME TypeOK, CauseInv, [Next]_vars, NEW q \in Replies
  PROVE  /\ "Status" \in {reader'[q].err, endErr'[q], lastErr'[q], app'[q].result}
              => server[q].ended = "EndErr"
         /\ endErr'[q] = "Unavailable" => endErr[q] = "Unavailable" \/ monitor'[q] = "writeEnd"
<1> USE TypeParts
<1> DEFINE Err == {reader[q].err, endErr[q], lastErr[q], app[q].result}
<1>1. "Status" \in Err => server[q].ended = "EndErr"
  BY DEF CauseInv, StatusSent
<1>2. ASSUME NEW r \in Replies, App(r)
      PROVE  UNCHANGED endErr /\ ("Status" \in Err' => "Status" \in Err)
  <2>1. UNCHANGED <<endErr, lastErr>>
    BY <1>2 DEF App, NewClientStream, EnterStream, SendMsgChecks, SendMsgWrites, CloseSend,
                RecvMsgData, RecvMsgEOF, RecvMsgCtxDone, Returns, CallerCtxDone, AppVarsOnly,
                readVars
  <2>2. UNCHANGED reader \/ reader' = [reader EXCEPT ![r].pc = "idle"]
    BY <1>2 DEF App, NewClientStream, EnterStream, SendMsgChecks, SendMsgWrites, CloseSend,
                RecvMsgData, RecvMsgEOF, RecvMsgCtxDone, Returns, CallerCtxDone, AppVarsOnly,
                readVars
  <2>3. reader'[q].err = reader[q].err
    <3>1. reader \in [Replies -> [pc : {"none", "idle", "push", "fail", "exited"} \cup Teardown,
                                  n : 0..MaxData, err : {"nil", "Status", "Undecodable"}]]
      BY DEF ReadOK
    <3> QED
      BY <2>2, <3>1
  <2>4. app'[q].result = "Status" => app[q].result = "Status" \/ lastErr[q] = "Status"
    BY <1>2, AppSteps DEF ContextError
  <2> QED
    BY <2>1, <2>3, <2>4
<1>3. ASSUME NEW r \in Replies, ReadMsg(r), ~ReadEndErr(r)
      PROVE  UNCHANGED endErr /\ ("Status" \in Err' => "Status" \in Err)
  <2>1. UNCHANGED <<endErr, app>>
    BY <1>3 DEF ReadMsg, ReadIgnored, ReadData, ReadPush, HandOver, ReadEndOK, Take, ReaderDone,
                ReadUndecodable, SetLastErr, ReadExit
  <2>2. reader'[q].err = "Status" => reader[q].err = "Status"
    BY <1>3, ReaderSteps
  <2>3. lastErr'[q] = "Status" => reader[q].err = "Status" \/ lastErr[q] = "Status"
    BY <1>3 DEF ReadMsg, ReadIgnored, ReadData, ReadPush, HandOver, ReadEndOK, Take, ReaderDone,
                ReadUndecodable, SetLastErr, ReadExit, ReadOK
  <2> QED
    BY <2>1, <2>2, <2>3
<1>4. ASSUME NEW r \in Replies, ReadEndErr(r)
      PROVE  /\ "Status" \in Err' => "Status" \in Err \/ server[q].ended = "EndErr"
             /\ endErr'[q] = "Unavailable" => endErr[q] = "Unavailable"
  <2>1. /\ msgCh[r] \in Seq(Response) /\ msgCh[r] # <<>> /\ Head(msgCh[r]).type = "EndErr"
        /\ endErr' = [endErr EXCEPT ![r] = "Status"] /\ UNCHANGED <<lastErr, app>>
        /\ reader' = [reader EXCEPT ![r].pc = "cas", ![r].err = "Status"]
    BY <1>4 DEF ReadEndErr, Take, ReadOK
  <2>2. server[r].ended = "EndErr"
    <3>1. 1 \in 1..Len(msgCh[r]) /\ msgCh[r][1] = Head(msgCh[r])
      BY <2>1, TailParts
    <3> QED
      BY <2>1, <3>1 DEF CauseInv, EndsSent, EndsTell, IsEnd, Ends
  <2> QED
    BY <2>1, <2>2 DEF ReadOK, EndErrOK
<1>5. ASSUME NEW r \in Replies, Monitor(r)
      PROVE  /\ "Status" \in Err' => "Status" \in Err
             /\ endErr'[q] = "Unavailable" => endErr[q] = "Unavailable" \/ monitor'[q] = "writeEnd"
  <2>1. UNCHANGED <<reader, lastErr, app>>
    BY <1>5 DEF Monitor, MonitorFires, MonitorWritesEnd, MonitorDone, MonitorExit, MonitorStep,
                readVars
  <2>2. \/ UNCHANGED endErr
        \/ endErr' = [endErr EXCEPT ![r] = "Unavailable"] /\ monitor' = [monitor EXCEPT ![r] = "writeEnd"]
    BY <1>5 DEF Monitor, MonitorFires, MonitorWritesEnd, MonitorDone, MonitorExit, MonitorStep
  <2> QED
    BY <2>1, <2>2 DEF EndErrOK, LoopOK
<1>6. ASSUME \/ \E r \in Replies : Watcher(r) \/ PingLoop(r)
             \/ Close \/ Environment \/ UNCHANGED vars
      PROVE  UNCHANGED <<reader, endErr, lastErr, app>>
  BY <1>6 DEF Watcher, WatcherWakes, WatcherDone, WatcherStep, PingLoop, PingTick, PingWrite,
              Close, CloseSnapshot, CloseBegins, CloseNext, CloserDone, CloserStep, Environment,
              ServerStep, ServerBegins, ServerSends, ServerEnds, ServerPongs, ServerWrites,
              Deliver, readVars, vars
<1> QED
  BY <1>1, <1>2, <1>3, <1>4, <1>5, <1>6 DEF Next, Client

\* A sequence of frames that loses its first or gets another one.
LEMMA TailTells ==
  ASSUME NEW L \in Seq(Response), L # <<>>, NEW ended, EndsTell(L, ended)
  PROVE  EndsTell(Tail(L), ended) /\ (IsEnd(Head(L)) => ended = Head(L).type)
<1>1. \A i \in 1..Len(Tail(L)) : i + 1 \in 1..Len(L) /\ Tail(L)[i] = L[i + 1]
  BY HeadTailProperties
<1>2. 1 \in 1..Len(L) /\ Head(L) = L[1]
  BY TailParts
<1> QED
  BY <1>1, <1>2 DEF EndsTell

\* A frame that says the same may be added.
LEMMA AppendTells ==
  ASSUME NEW L \in Seq(Response), NEW f \in Response, NEW ended, EndsTell(L, ended),
         IsEnd(f) => ended = f.type
  PROVE  EndsTell(Append(L, f), ended)
<1>1. \A i \in 1..Len(Append(L, f)) : \/ i \in 1..Len(L) /\ Append(L, f)[i] = L[i]
                                      \/ Append(L, f)[i] = f
  BY AppendProperties
<1> QED
  BY <1>1 DEF EndsTell

\* What the server writes: one frame at the end of responses, an End only as its
\* first one.
LEMMA ServerSteps ==
  ASSUME TypeOK, NEW r \in Replies, ServerStep(r)
  PROVE  \E f \in Response :
           /\ responses' = [responses EXCEPT ![r] = Append(@, f)]
           /\ \A q \in Replies : q # r => server'[q] = server[q]
           /\ IsEnd(f) => server[r].ended = "no" /\ server'[r].ended = f.type
           /\ ~IsEnd(f) => server'[r].ended = server[r].ended
           /\ IF f.type = "Data"
                THEN /\ server[r].ended = "no"
                     /\ f.n = server[r].data + 1 /\ server'[r].data = server[r].data + 1
                ELSE server'[r].data = server[r].data
           /\ f.type # "Pong" => app[r].sends > 0
           /\ f.type = "Pong" => pinger[r].pings > 0
           /\ UNCHANGED <<lost, app, msgCh, recv, recvClosed, reader, subscribed, pinger>>
<1> USE TypeParts
<1>1. /\ server \in [Replies -> [begun : BOOLEAN, data : 0..MaxData, pongs : 0..MaxPings,
                                 ended : {"no", "EndOK", "EndErr"}]]
      /\ UNCHANGED <<lost, app, msgCh, recv, recvClosed, reader, subscribed, pinger>>
  BY DEF ServerStep, ServerBegins, ServerSends, ServerEnds, ServerPongs, ServerWrites, WireOK,
         doneVars, readVars, loopVars
<1>2. CASE ServerBegins(r)
  <2>1. Frame("Begin", 0) \in Response
    BY ClientAssumption DEF Frame, Response
  <2> QED
    BY <1>1, <1>2, <2>1 DEF ServerBegins, Serving, ServerWrites, Frame, IsEnd, Ends
<1>3. CASE ServerSends(r)
  <2>1. Frame("Data", server[r].data + 1) \in Response
    BY <1>1, <1>3, ClientAssumption DEF ServerSends, Frame, Response
  <2> QED
    BY <1>1, <1>3, <2>1 DEF ServerSends, Serving, ServerWrites, Frame, IsEnd, Ends
<1>4. CASE ServerEnds(r)
  <2>1. PICK t \in {"EndOK", "EndErr"} :
          ServerWrites(r, Frame(t, 0), [server[r] EXCEPT !.ended = t])
    BY <1>4 DEF ServerEnds
  <2>2. Frame(t, 0) \in Response
    BY ClientAssumption DEF Frame, Response
  <2> QED
    BY <1>1, <1>4, <2>1, <2>2 DEF ServerEnds, Serving, ServerWrites, Frame, IsEnd, Ends
<1>5. CASE ServerPongs(r)
  <2>1. Frame("Pong", 0) \in Response /\ pinger[r].pings > 0
    BY <1>1, <1>5, ClientAssumption DEF ServerPongs, Frame, Response, LoopOK
  <2> QED
    BY <1>1, <1>5, <2>1 DEF ServerPongs, ServerWrites, Frame, IsEnd, Ends
<1> QED
  BY <1>2, <1>3, <1>4, <1>5 DEF ServerStep

\* Only the server, NATS and ReadMsg touch the frames on their way to the caller.
LEMMA OthersLeaveFrames ==
  ASSUME [Next]_vars, \A r \in Replies : ~ServerStep(r) /\ ~Deliver(r) /\ ~ReadMsg(r)
  PROVE  UNCHANGED <<responses, server, lost, msgCh, recvClosed>>
<1>1. ASSUME NEW r \in Replies, App(r) \/ PingLoop(r)
      PROVE  UNCHANGED <<responses, server, lost, msgCh, recvClosed>>
  BY <1>1 DEF App, NewClientStream, EnterStream, SendMsgChecks, SendMsgWrites, CloseSend, Publish,
              RecvMsgData, RecvMsgEOF, RecvMsgCtxDone, Returns, CallerCtxDone, PingLoop,
              PingTick, PingWrite, AppVarsOnly, wireVars, readVars
<1>2. ASSUME NEW r \in Replies, Watcher(r) \/ Monitor(r)
      PROVE  UNCHANGED <<responses, server, lost, msgCh, recvClosed>>
  BY <1>2 DEF Watcher, WatcherWakes, WatcherDone, WatcherStep, Monitor, MonitorFires,
              MonitorWritesEnd, MonitorDone, MonitorExit, MonitorStep, Publish, wireVars, readVars
<1>3. ASSUME Close \/ UNCHANGED vars
      PROVE  UNCHANGED <<responses, server, lost, msgCh, recvClosed>>
  BY <1>3 DEF Close, CloseSnapshot, CloseBegins, CloseNext, CloserDone, CloserStep, wireVars,
              readVars, vars
<1> QED
  BY <1>1, <1>2, <1>3 DEF Next, Client, Environment

\* ReadMsg takes a frame off msgCh or leaves it alone.
LEMMA ReadMsgTakes ==
  ASSUME NEW r \in Replies, ReadMsg(r)
  PROVE  /\ UNCHANGED <<responses, server, lost>>
         /\ \/ UNCHANGED msgCh
            \/ msgCh[r] # <<>> /\ msgCh' = [msgCh EXCEPT ![r] = Tail(@)]
BY DEF ReadMsg, ReadIgnored, ReadData, ReadPush, HandOver, ReadEndOK, ReadEndErr, Take, ReaderDone,
       ReadUndecodable, SetLastErr, ReadExit, wireVars

\* What the Ends on their way say stays true.
LEMMA EndsKept ==
  ASSUME TypeOK, EndsSent, [Next]_vars
  PROVE  EndsSent'
<1> USE TypeParts
<1>1. /\ responses \in [Replies -> Seq(Response)] /\ msgCh \in [Replies -> Seq(Response)]
      /\ \A q \in Replies : responses[q] \in Seq(Response) /\ msgCh[q] \in Seq(Response)
  BY DEF WireOK, ReadOK
<1>2. ASSUME NEW r \in Replies, ServerStep(r)
      PROVE  EndsSent'
  <2>1. PICK f \in Response :
          /\ responses' = [responses EXCEPT ![r] = Append(@, f)]
          /\ \A q \in Replies : q # r => server'[q] = server[q]
          /\ IsEnd(f) => server[r].ended = "no" /\ server'[r].ended = f.type
          /\ ~IsEnd(f) => server'[r].ended = server[r].ended
          /\ UNCHANGED msgCh
    BY <1>2, ServerSteps
  <2>2. EndsTell(responses[r], server'[r].ended) /\ EndsTell(msgCh[r], server'[r].ended)
    BY <2>1 DEF EndsSent, EndsTell, IsEnd, Ends
  <2>3. EndsTell(responses'[r], server'[r].ended)
    BY <1>1, <2>1, <2>2, AppendTells
  <2> QED
    BY <1>1, <2>1, <2>2, <2>3 DEF EndsSent
<1>3. ASSUME NEW r \in Replies, Deliver(r)
      PROVE  EndsSent'
  <2>1. responses[r] # <<>> /\ responses' = [responses EXCEPT ![r] = Tail(@)] /\ UNCHANGED server
        /\ msgCh' \in {msgCh, [msgCh EXCEPT ![r] = Append(@, Head(responses[r]))]}
    BY <1>3 DEF Deliver
  <2>2. /\ EndsTell(Tail(responses[r]), server[r].ended) /\ Head(responses[r]) \in Response
        /\ IsEnd(Head(responses[r])) => server[r].ended = Head(responses[r]).type
    BY <1>1, <2>1, TailTells, TailParts DEF EndsSent
  <2>3. EndsTell(Append(msgCh[r], Head(responses[r])), server[r].ended)
    BY <1>1, <2>2, AppendTells DEF EndsSent
  <2> QED
    BY <1>1, <2>1, <2>2, <2>3 DEF EndsSent
<1>4. ASSUME NEW r \in Replies, ReadMsg(r)
      PROVE  EndsSent'
  <2>1. /\ UNCHANGED <<responses, server>>
        /\ \/ UNCHANGED msgCh
           \/ msgCh[r] # <<>> /\ msgCh' = [msgCh EXCEPT ![r] = Tail(@)]
    BY <1>4, ReadMsgTakes
  <2>2. msgCh[r] # <<>> => EndsTell(Tail(msgCh[r]), server[r].ended)
    BY <1>1, TailTells DEF EndsSent
  <2> QED
    BY <1>1, <2>1, <2>2 DEF EndsSent
<1>5. CASE UNCHANGED <<responses, server, msgCh>>
  BY <1>5 DEF EndsSent
<1> QED
  BY <1>2, <1>3, <1>4, <1>5, OthersLeaveFrames

\* Every step keeps the causes.
LEMMA NextCause ==
  ASSUME TypeOK, DoneInv, CauseInv, [Next]_vars
  PROVE  CauseInv'
<1>1. Lasting
  BY CausesLast
<1>2. StatusSent'
  BY <1>1, ErrorsGrow DEF StatusSent, Lasting
<1>3. TimeoutWritten'
  BY <1>1, ErrorsGrow DEF TimeoutWritten, CauseInv, Lasting
<1>4. EventsCaused'
  <2> SUFFICES ASSUME NEW r \in Replies, NEW i \in 1..Len(events'[r])
               PROVE  /\ events'[r][i] = "Status" => server'[r].ended = "EndErr"
                      /\ events'[r][i] = "Unavailable" => monitor'[r] = "writeEnd" \/ EndWritten(r)'
    BY DEF EventsCaused
  <2>1. events[r] \in Seq({"Begin", "nil", "Status", "Unavailable"})
        /\ endErr[r] \in {"nil", "Status", "Unavailable"}
    BY TypeParts DEF DoneOK, EndErrOK
  <2>2. events'[r] \in {events[r], Append(events[r], "Begin"), Append(events[r], endErr[r])}
    BY EventsGrow
  <2>3. \/ i \in 1..Len(events[r]) /\ events'[r][i] = events[r][i]
        \/ events'[r][i] \in {"Begin", endErr[r]}
    BY <2>1, <2>2, AppendProperties
  <2>4. CASE i \in 1..Len(events[r]) /\ events'[r][i] = events[r][i]
    BY <1>1, <2>4 DEF CauseInv, EventsCaused, Lasting
  <2>5. CASE events'[r][i] \in {"Begin", endErr[r]}
    BY <1>1, <2>5 DEF CauseInv, StatusSent, TimeoutWritten, Lasting
  <2> QED
    BY <2>3, <2>4, <2>5
<1> QED
  BY <1>2, <1>3, <1>4, EndsKept DEF CauseInv

\* Nothing has ended at first.
LEMMA InitCause == Init => CauseInv
<1> SUFFICES ASSUME Init PROVE CauseInv
  OBVIOUS
<1>1. \A r \in Replies :
        /\ responses[r] = <<>> /\ msgCh[r] = <<>> /\ events[r] = <<>>
        /\ Len(responses[r]) = 0 /\ Len(msgCh[r]) = 0 /\ Len(events[r]) = 0
        /\ reader[r].err = "nil" /\ endErr[r] = "nil" /\ lastErr[r] = "nil"
        /\ app[r].result = "none"
  BY DEF Init
<1>2. EndsSent
  <2>1. \A ended : EndsTell(<<>>, ended)
    BY DEF EndsTell
  <2> QED
    BY <1>1, <2>1 DEF EndsSent
<1>3. EventsCaused
  BY <1>1 DEF EventsCaused
<1>4. StatusSent /\ TimeoutWritten
  BY <1>1 DEF StatusSent, TimeoutWritten
<1> QED
  BY <1>2, <1>3, <1>4 DEF CauseInv

\* A status the caller is told, or the stats event carries, is the one the server
\* ended with; Unavailable is the monitor's, which tells the server or is about to
\* (client.go:576-582, 839-874 and 901-924).
THEOREM OutcomesCaused == Spec => []OutcomeHasCause
<1>1. Init => TeardownInv /\ CauseInv
  BY InitTyped, InitDone, InitCause DEF TeardownInv
<1>2. TeardownInv /\ CauseInv /\ [Next]_vars => (TeardownInv /\ CauseInv)'
  BY NextTyped, NextDone, NextCause DEF TeardownInv
<1>3. TeardownInv /\ CauseInv => OutcomeHasCause
  <2>1. ASSUME TeardownInv, NEW r \in Replies
        PROVE  DOMAIN events[r] = 1..Len(events[r])
    BY <2>1, TypeParts DEF TeardownInv, DoneOK
  <2> QED
    BY <2>1 DEF CauseInv, StatusSent, EventsCaused, EndWritten, OutcomeHasCause
<1> QED
  BY <1>1, <1>2, <1>3, PTL DEF Spec

-----------------------------------------------------------------------------
(* The way of the Data                                                      *)

\* What is still to be read: the channel, and what NATS will put into it.
Line(r) == IF subscribed[r] THEN msgCh[r] \o responses[r] ELSE msgCh[r]

\* How many Data frames ReadMsg took.
Taken(r) == Len(app[r].got) + Len(recv[r]) + (IF reader[r].pc = "push" THEN 1 ELSE 0)

\* What has been taken is the first Data, in order.
InOrder(r) ==
  /\ \A i \in 1..Len(app[r].got) : app[r].got[i] = i
  /\ \A i \in 1..Len(recv[r]) : recv[r][i] = Len(app[r].got) + i
  /\ reader[r].pc = "push" => reader[r].n = Len(app[r].got) + Len(recv[r]) + 1

\* ReadMsg goes on reading: what is in the line will be taken in order.
Reads(r) == reader[r].pc \notin {"fail", "exited"}

LineAt(r) == ~lost[r] =>
  /\ InOrder(r)
  /\ Reads(r) => /\ Ordered(Line(r), Taken(r), server[r].data, Ends)
                 /\ subscribed[r] => Whole(Line(r), Taken(r), server[r].data)
  /\ recvClosed[r] => Taken(r) = server[r].data
ClosedAtEnd(r) == recvClosed[r] => server[r].ended = "EndOK" /\ reader[r].pc # "push"
EOFDrained(r) == app[r].result = "EOF" => recvClosed[r] /\ recv[r] = <<>>

\* Before a stream is made nothing is on its way.
Quiet(r) == app[r].pc = "none" =>
  /\ app[r].sends = 0 /\ app[r].got = <<>> /\ recv[r] = <<>> /\ reader[r].pc = "none"
  /\ pinger[r].pc = "none" /\ pinger[r].pings = 0 /\ server[r].data = 0
  /\ msgCh[r] = <<>> /\ responses[r] = <<>> /\ ~subscribed[r] /\ ~recvClosed[r]

PipeAt(r) == LineAt(r) /\ ClosedAtEnd(r) /\ EOFDrained(r) /\ Quiet(r)
PipeInv == \A r \in Replies : PipeAt(r)

\* The server's frames are numbered, and its End is no Data.
LEMMA ResponsesNumbered == Numbers(Response) /\ "Data" \notin Ends
BY ClientAssumption DEF Numbers, Response, Ends

\* What the way of a stream's Data is made of.
LEMMA LineTyped ==
  ASSUME TypeOK, NEW r \in Replies
  PROVE  /\ Line(r) \in Seq(Response) /\ msgCh[r] \in Seq(Response)
         /\ responses[r] \in Seq(Response) /\ recv[r] \in Seq(0..MaxData)
         /\ app[r].got \in Seq(0..MaxData) /\ Taken(r) \in Nat /\ server[r].data \in Nat
         /\ Len(app[r].got) \in Nat /\ Len(recv[r]) \in Nat
<1>1. /\ msgCh[r] \in Seq(Response) /\ responses[r] \in Seq(Response)
      /\ recv[r] \in Seq(0..MaxData) /\ app[r].got \in Seq(0..MaxData)
  BY TypeParts DEF WireOK, ReadOK, AppOK
<1>d. server[r].data \in Nat
  <2>1. server[r].data \in 0..MaxData
    BY TypeParts DEF WireOK
  <2> QED
    BY <2>1, ClientAssumption
<1>2. Len(app[r].got) \in Nat /\ Len(recv[r]) \in Nat
  BY <1>1
<1>3. Line(r) \in Seq(Response)
  BY <1>1, ConcatProperties DEF Line
<1>4. Taken(r) \in Nat
  <2>1. PICK g \in Nat : g = Len(app[r].got)
    BY <1>2
  <2>2. PICK v \in Nat : v = Len(recv[r])
    BY <1>2
  <2>3. Taken(r) = g + v + (IF reader[r].pc = "push" THEN 1 ELSE 0)
    BY <2>1, <2>2, Zenon DEF Taken
  <2> QED
    BY <2>3
<1> QED
  BY <1>1, <1>2, <1>3, <1>4, <1>d

\* What a step leaves of the way of a stream's Data, if it may cut the line.
View(r) == <<lost[r], responses[r], msgCh[r], recv[r], recvClosed[r], reader[r].n, app[r].got,
             app[r].result, server[r].data, server[r].ended>>
Aside(r) ==
  /\ View(r)' = View(r)
  /\ subscribed'[r] \in {subscribed[r], FALSE}
  /\ reader'[r].pc = "push" <=> reader[r].pc = "push"
  /\ Reads(r)' => Reads(r)
  /\ app'[r].pc = "none" =>
       /\ app[r].pc = "none" /\ app'[r].sends = app[r].sends
       /\ reader'[r].pc = reader[r].pc /\ pinger'[r] = pinger[r]

\* Such a step keeps the stream's Data in order.
LEMMA AsideKeeps ==
  ASSUME TypeOK, NEW r \in Replies, PipeAt(r), Aside(r)
  PROVE  PipeAt(r)'
<1>1. ClosedAtEnd(r)' /\ EOFDrained(r)' /\ Quiet(r)'
  BY DEF PipeAt, Aside, View, ClosedAtEnd, EOFDrained, Quiet
<1>2. lost'[r] = lost[r] /\ Taken(r)' = Taken(r) /\ (InOrder(r) => InOrder(r)')
      /\ server'[r].data = server[r].data /\ recvClosed'[r] = recvClosed[r]
      /\ (Reads(r)' => Reads(r))
  BY DEF Aside, View, Taken, InOrder
<1>3. CASE subscribed'[r] = subscribed[r]
  <2>1. Line(r)' = Line(r)
    BY <1>3 DEF Aside, View, Line
  <2> QED
    BY <1>1, <1>2, <1>3, <2>1 DEF PipeAt, LineAt
<1>4. CASE subscribed[r] /\ ~subscribed'[r]
  <2>1. Line(r) = msgCh[r] \o responses[r] /\ Line(r)' = msgCh[r]
    BY <1>4 DEF Aside, View, Line
  <2>2. ~lost[r] /\ Reads(r) => Ordered(msgCh[r], Taken(r), server[r].data, Ends)
    BY <2>1, LineTyped, OrderedPrefix DEF PipeAt, LineAt
  <2> QED
    BY <1>1, <1>2, <1>4, <2>1, <2>2 DEF PipeAt, LineAt
<1>5. subscribed[r] \in BOOLEAN
  BY TypeParts DEF DoneOK
<1> QED
  BY <1>3, <1>4, <1>5 DEF Aside

\* done() touches of all this the subscription only, and cuts it at most.
LEMMA DoneCuts ==
  ASSUME TypeOK, NEW r \in Replies, NEW pc, Done(r, pc) \/ DoneCAS(r)
  PROVE  \A q \in Replies : subscribed'[q] \in {subscribed[q], FALSE}
                             /\ (q # r => subscribed'[q] = subscribed[q])
BY TypeParts DEF Done, DoneCAS, DoneEvent, DoneCancel, DoneCloseChannels, DoneRemove, DoneOK

\* A step leaves the other streams aside.
LEMMA OthersAside ==
  ASSUME TypeOK, NEW r \in Replies, NEW q \in Replies, q # r,
         \/ App(r) \/ ReadMsg(r) \/ Watcher(r) \/ Monitor(r) \/ PingLoop(r)
         \/ ServerStep(r) \/ Deliver(r)
  PROVE  Aside(q)
<1> USE TypeParts
<1>1. CASE App(r)
  <2>1. app'[q] = app[q]
    BY <1>1, AppSteps
  <2>2. /\ UNCHANGED <<lost, responses, msgCh, recvClosed, server>>
        /\ recv' \in {recv, [recv EXCEPT ![r] = Tail(@)]}
        /\ reader' \in {reader, [reader EXCEPT ![r].pc = "idle"]}
        /\ pinger' \in {pinger, [pinger EXCEPT ![r].pc = "idle"]}
        /\ subscribed'[q] = subscribed[q]
    BY <1>1 DEF App, NewClientStream, EnterStream, SendMsgChecks, SendMsgWrites, CloseSend, Publish,
                RecvMsgData, RecvMsgEOF, RecvMsgCtxDone, Returns, CallerCtxDone, AppVarsOnly,
                wireVars, doneVars, readVars, loopVars, DoneOK
  <2> QED
    BY <2>1, <2>2 DEF Aside, View, Reads, ReadOK, LoopOK
<1>2. CASE ReadMsg(r)
  <2>1. /\ reader'[q] = reader[q] /\ UNCHANGED <<responses, server, lost>>
        /\ msgCh' \in {msgCh, [msgCh EXCEPT ![r] = Tail(@)]}
    BY <1>2, ReaderSteps, ReadMsgTakes
  <2>2. /\ UNCHANGED <<app, pinger>>
        /\ recv' \in {recv, [recv EXCEPT ![r] = Append(@, reader[r].n)]}
        /\ recvClosed' \in {recvClosed, [recvClosed EXCEPT ![r] = TRUE]}
        /\ UNCHANGED subscribed \/ Done(r, reader[r].pc)
    BY <1>2 DEF ReadMsg, ReadIgnored, ReadData, ReadPush, HandOver, ReadEndOK, ReadEndErr, Take,
                ReaderDone, ReadUndecodable, SetLastErr, ReadExit, doneVars, loopVars
  <2>3. subscribed'[q] = subscribed[q]
    BY <2>2, DoneCuts
  <2> QED
    BY <2>1, <2>2, <2>3 DEF Aside, View, Reads, ReadOK
<1>3. CASE Watcher(r) \/ Monitor(r)
  <2>1. /\ UNCHANGED <<responses, server, lost, msgCh, recvClosed, recv, reader, app, pinger>>
        /\ UNCHANGED subscribed \/ DoneCAS(r) \/ Done(r, watcher[r]) \/ Done(r, monitor[r])
    BY <1>3 DEF Watcher, WatcherWakes, WatcherDone, WatcherStep, Monitor, MonitorFires,
                MonitorWritesEnd, MonitorDone, MonitorExit, MonitorStep, Publish, wireVars, readVars,
                doneVars
  <2>2. subscribed'[q] = subscribed[q]
    BY <2>1, DoneCuts
  <2> QED
    BY <2>1, <2>2 DEF Aside, View, Reads
<1>4. CASE PingLoop(r)
  <2>1. /\ UNCHANGED <<responses, server, lost, readVars, app, subscribed>> /\ pinger'[q] = pinger[q]
    BY <1>4 DEF PingLoop, PingTick, PingWrite, Publish, wireVars, doneVars, LoopOK
  <2> QED
    BY <2>1 DEF Aside, View, Reads, readVars
<1>5. CASE ServerStep(r)
  <2>1. PICK f \in Response :
          /\ responses' = [responses EXCEPT ![r] = Append(@, f)]
          /\ server'[q] = server[q]
          /\ UNCHANGED <<lost, app, msgCh, recv, recvClosed, reader, subscribed, pinger>>
    BY <1>5, ServerSteps
  <2> QED
    BY <2>1 DEF Aside, View, Reads, WireOK
<1>6. CASE Deliver(r)
  <2>1. /\ responses' = [responses EXCEPT ![r] = Tail(@)]
        /\ msgCh' \in {msgCh, [msgCh EXCEPT ![r] = Append(@, Head(responses[r]))]}
        /\ lost' \in {lost, [lost EXCEPT ![r] = @ \/ subscribed[r]]}
        /\ UNCHANGED <<app, server, recv, recvClosed, reader, subscribed, pinger>>
    BY <1>6 DEF Deliver, doneVars, loopVars
  <2> QED
    BY <2>1 DEF Aside, View, Reads, WireOK, ReadOK
<1> QED
  BY <1>1, <1>2, <1>3, <1>4, <1>5, <1>6

\* The steps of a stream that leave the way of its own Data aside.
LEMMA OwnAside ==
  ASSUME TypeOK, NEW r \in Replies, PipeAt(r),
         \/ EnterStream(r) \/ SendMsgChecks(r) \/ SendMsgWrites(r) \/ CloseSend(r)
         \/ CallerCtxDone(r) \/ ReaderDone(r) \/ SetLastErr(r) \/ ReadExit(r)
         \/ Watcher(r) \/ Monitor(r) \/ PingLoop(r)
  PROVE  Aside(r)
<1> USE TypeParts
<1>1. CASE \/ EnterStream(r) \/ SendMsgChecks(r) \/ SendMsgWrites(r) \/ CloseSend(r)
           \/ CallerCtxDone(r)
  <2>1. /\ UNCHANGED <<lost, responses, msgCh, recv, recvClosed, reader, subscribed, server, pinger>>
        /\ \/ UNCHANGED app
           \/ app' = [app EXCEPT ![r].pc = "open", ![r].late = closed[r]]
           \/ app' = [app EXCEPT ![r].pc = "sending"]
           \/ app' = [app EXCEPT ![r].pc = "open", ![r].sends = @ + 1]
           \/ app[r].pc = "open" /\ app' = [app EXCEPT ![r].half = TRUE]
    BY <1>1 DEF EnterStream, SendMsgChecks, SendMsgWrites, CloseSend, Publish, CallerCtxDone,
                AppVarsOnly, wireVars, doneVars, readVars, loopVars
  <2>2. app'[r].got = app[r].got /\ app'[r].result = app[r].result
        /\ (app'[r].pc = "none" => app[r].pc = "none" /\ app'[r].sends = app[r].sends)
    BY <2>1 DEF AppOK
  <2> QED
    BY <2>1, <2>2 DEF Aside, View, Reads
<1>2. CASE ReaderDone(r) \/ SetLastErr(r) \/ ReadExit(r)
  <2>1. /\ UNCHANGED <<lost, responses, msgCh, recv, recvClosed, app, server, pinger>>
        /\ UNCHANGED subscribed \/ Done(r, reader[r].pc)
    BY <1>2 DEF ReaderDone, SetLastErr, ReadExit, wireVars, doneVars, loopVars
  <2>2. reader[r].pc \in Teardown \cup {"fail", "idle"}
        /\ reader'[r].n = reader[r].n /\ reader'[r].pc \in Teardown \cup {"idle", "fail", "exited"}
    BY <1>2, AfterDoneTyped DEF ReaderDone, SetLastErr, ReadExit, ReadOK
  <2>3. subscribed'[r] \in {subscribed[r], FALSE}
    BY <2>1, DoneCuts
  <2>4. app[r].pc # "none"
    BY <2>2 DEF PipeAt, Quiet, Teardown
  <2>5. Reads(r)' => Reads(r)
    BY <1>2 DEF ReaderDone, SetLastErr, ReadExit, ReadOK, Reads, Teardown
  <2> QED
    BY <2>1, <2>2, <2>3, <2>4, <2>5 DEF Aside, View, Teardown
<1>3. CASE Watcher(r) \/ Monitor(r)
  <2>1. /\ UNCHANGED <<responses, server, lost, msgCh, recvClosed, recv, reader, app, pinger>>
        /\ UNCHANGED subscribed \/ DoneCAS(r) \/ Done(r, watcher[r]) \/ Done(r, monitor[r])
    BY <1>3 DEF Watcher, WatcherWakes, WatcherDone, WatcherStep, Monitor, MonitorFires,
                MonitorWritesEnd, MonitorDone, MonitorExit, MonitorStep, Publish, wireVars, readVars,
                doneVars
  <2>2. subscribed'[r] \in {subscribed[r], FALSE}
    BY <2>1, DoneCuts
  <2> QED
    BY <2>1, <2>2 DEF Aside, View, Reads
<1>4. CASE PingLoop(r)
  <2>1. UNCHANGED <<responses, server, lost, readVars, app, subscribed>> /\ pinger[r].pc # "none"
    BY <1>4 DEF PingLoop, PingTick, PingWrite, Publish, wireVars, doneVars
  <2> QED
    BY <2>1 DEF Aside, View, Reads, readVars, PipeAt, Quiet
<1> QED
  BY <1>1, <1>2, <1>3, <1>4

\* NewClientStream finds nothing on its way.
LEMMA NewPipe ==
  ASSUME TypeOK, NEW r \in Replies, PipeAt(r), NewClientStream(r)
  PROVE  PipeAt(r)'
<1>1. /\ UNCHANGED <<lost, responses, msgCh, recv, recvClosed, server>>
      /\ app' = [app EXCEPT ![r].pc = "made"] /\ reader' = [reader EXCEPT ![r].pc = "idle"]
      /\ app[r].pc = "none"
  BY DEF NewClientStream, wireVars
<1>2. app'[r].pc = "made" /\ app'[r].got = app[r].got /\ app'[r].result = app[r].result
      /\ reader'[r].pc = "idle"
  BY <1>1, TypeParts DEF AppOK, ReadOK
<1>3. /\ app'[r].got = <<>> /\ recv'[r] = <<>> /\ server'[r].data = 0 /\ ~recvClosed'[r]
      /\ msgCh'[r] = <<>> /\ responses'[r] = <<>>
  BY <1>1, <1>2 DEF PipeAt, Quiet
<1>4. ClosedAtEnd(r)' /\ EOFDrained(r)' /\ Quiet(r)'
  BY <1>1, <1>2, <1>3 DEF PipeAt, ClosedAtEnd, EOFDrained, Quiet
<1>5. Line(r)' = <<>>
  BY <1>3 DEF Line
<1>6. Len(<<>>) = 0
  OBVIOUS
<1>7. Taken(r)' = 0 /\ InOrder(r)'
  BY <1>2, <1>3, <1>6 DEF Taken, InOrder
<1> QED
  BY <1>3, <1>4, <1>5, <1>7, OrderedEmpty DEF PipeAt, LineAt

\* RecvMsg passes the first of the recv channel on to the caller.
LEMMA RecvDataPipe ==
  ASSUME TypeOK, NEW r \in Replies, PipeAt(r), RecvMsgData(r)
  PROVE  PipeAt(r)'
<1>1. /\ UNCHANGED <<lost, responses, msgCh, recvClosed, server, reader, subscribed>>
      /\ app' = [app EXCEPT ![r].got = Append(@, Head(recv[r]))]
      /\ recv' = [recv EXCEPT ![r] = Tail(@)] /\ recv[r] # <<>> /\ app[r].result = "none"
      /\ app[r].pc # "none"
  BY DEF RecvMsgData, wireVars, doneVars, Receiving
<1>2. /\ app'[r].pc = app[r].pc /\ app'[r].got = Append(app[r].got, Head(recv[r]))
      /\ app'[r].result = "none" /\ recv'[r] = Tail(recv[r])
  BY <1>1, TypeParts DEF AppOK, ReadOK
<1>3. ClosedAtEnd(r)' /\ EOFDrained(r)' /\ Quiet(r)'
  BY <1>1, <1>2 DEF PipeAt, ClosedAtEnd, EOFDrained, Quiet
<1>4. PICK g \in Seq(0..MaxData) : g = app[r].got
  BY LineTyped
<1>5. PICK v \in Seq(0..MaxData) : v = recv[r]
  BY LineTyped
<1>6. /\ Len(Append(g, Head(v))) = Len(g) + 1 /\ Append(g, Head(v))[Len(g) + 1] = v[1]
      /\ \A i \in 1..Len(g) : Append(g, Head(v))[i] = g[i]
      /\ Len(Tail(v)) = Len(v) - 1 /\ Len(v) \in Nat \ {0} /\ Len(g) \in Nat
      /\ \A i \in 1..Len(Tail(v)) : Tail(v)[i] = v[i + 1]
  BY <1>1, <1>5, HeadTailProperties, AppendProperties
<1>7. Taken(r)' = Taken(r)
  <2>1. \A b \in {0, 1} : Len(Append(g, Head(v))) + Len(Tail(v)) + b = Len(g) + Len(v) + b
    BY <1>6
  <2> QED
    BY <1>1, <1>2, <1>4, <1>5, <2>1 DEF Taken
<1>8. InOrder(r) => InOrder(r)'
  <2> SUFFICES ASSUME InOrder(r) PROVE InOrder(r)'
    OBVIOUS
  <2>1. /\ \A i \in 1..Len(g) : g[i] = i
        /\ \A i \in 1..Len(v) : v[i] = Len(g) + i
        /\ reader[r].pc = "push" => reader[r].n = Len(g) + Len(v) + 1
    BY <1>4, <1>5 DEF InOrder
  <2>2. /\ \A i \in 1..(Len(g) + 1) : Append(g, Head(v))[i] = i
        /\ \A i \in 1..Len(Tail(v)) : Tail(v)[i] = (Len(g) + 1) + i
        /\ reader[r].pc = "push" => reader[r].n = (Len(g) + 1) + Len(Tail(v)) + 1
    BY <1>6, <2>1
  <2> QED
    BY <1>1, <1>2, <1>4, <1>5, <1>6, <2>2 DEF InOrder
<1>9. Line(r)' = Line(r)
  BY <1>1 DEF Line
<1> QED
  BY <1>1, <1>3, <1>7, <1>8, <1>9 DEF PipeAt, LineAt, Reads

\* RecvMsg is told that nothing more comes.
LEMMA RecvEndPipe ==
  ASSUME TypeOK, NEW r \in Replies, PipeAt(r), RecvMsgEOF(r) \/ RecvMsgCtxDone(r)
  PROVE  PipeAt(r)'
<1>1. /\ UNCHANGED <<lost, responses, msgCh, recv, recvClosed, server, reader, subscribed>>
      /\ \E result : app' = [app EXCEPT ![r].result = result]
      /\ app[r].pc # "none"
  BY DEF RecvMsgEOF, RecvMsgCtxDone, Returns, AppVarsOnly, wireVars, doneVars, readVars, Receiving
<1>2. app'[r].pc = app[r].pc /\ app'[r].got = app[r].got
  BY <1>1, TypeParts DEF AppOK
<1>3. app'[r].result = "EOF" => recvClosed[r] /\ recv[r] = <<>>
  <2>1. CASE RecvMsgEOF(r)
    BY <2>1 DEF RecvMsgEOF
  <2>2. CASE RecvMsgCtxDone(r)
    <3>1. PICK result : result = IF lastErr[r] # "nil" THEN lastErr[r] ELSE ctx[r]
      OBVIOUS
    <3>2. app' = [app EXCEPT ![r].result = result]
      BY <2>2, <3>1 DEF RecvMsgCtxDone, Returns
    <3>3. lastErr[r] \in {"nil", "Status", "Undecodable"} /\ ctx[r] \in {"live"} \cup ContextError
      BY TypeParts DEF DoneOK, ReadOK
    <3>4. result # "EOF"
      BY <3>1, <3>3 DEF ContextError
    <3> QED
      BY <3>2, <3>4, TypeParts DEF AppOK
  <2> QED
    BY <2>1, <2>2
<1>4. ClosedAtEnd(r)' /\ EOFDrained(r)' /\ Quiet(r)'
  BY <1>1, <1>2, <1>3 DEF PipeAt, ClosedAtEnd, EOFDrained, Quiet
<1>5. Line(r)' = Line(r) /\ Taken(r)' = Taken(r) /\ (InOrder(r) => InOrder(r)')
  BY <1>1, <1>2 DEF Line, Taken, InOrder
<1> QED
  BY <1>1, <1>4, <1>5 DEF PipeAt, LineAt, Reads

\* ReadMsg takes the first frame of the line.
LEMMA TakeParts ==
  ASSUME TypeOK, NEW r \in Replies, NEW t, Take(r, t), PipeAt(r)
  PROVE  /\ UNCHANGED <<lost, responses, server, subscribed, app>>
         /\ Head(Line(r)) = Head(msgCh[r]) /\ Head(msgCh[r]).type = t
         /\ msgCh[r] # <<>> /\ Line(r) # <<>> /\ Line(r)' = Tail(Line(r))
         /\ app[r].pc # "none" /\ reader[r].pc = "idle" /\ Head(msgCh[r]) \in Response
<1>1. /\ UNCHANGED <<lost, responses, server, subscribed, app>>
      /\ msgCh[r] # <<>> /\ msgCh' = [msgCh EXCEPT ![r] = Tail(@)] /\ reader[r].pc = "idle"
      /\ Head(msgCh[r]).type = t
  BY DEF Take, wireVars, doneVars
<1>2. msgCh'[r] = Tail(msgCh[r])
  BY <1>1, TypeParts DEF ReadOK
<1>3. Head(msgCh[r]) \in Response
  BY <1>1, LineTyped, TailParts
<1>4. Head(Line(r)) = Head(msgCh[r]) /\ Line(r) # <<>> /\ Line(r)' = Tail(Line(r))
  <2>1. CASE subscribed[r]
    <3>1. /\ Line(r) = msgCh[r] \o responses[r] /\ Line(r)' = Tail(msgCh[r]) \o responses[r]
      BY <1>1, <1>2, <2>1 DEF Line
    <3>2. PICK A \in Seq(Response) : A = msgCh[r]
      BY LineTyped
    <3>3. PICK B \in Seq(Response) : B = responses[r]
      BY LineTyped
    <3>4. Tail(A \o B) = Tail(A) \o B /\ Head(A \o B) = Head(A) /\ A \o B # <<>>
      BY <1>1, <1>3, <3>2, Joined
    <3> QED
      BY <3>1, <3>2, <3>3, <3>4
  <2>2. CASE ~subscribed[r]
    BY <1>1, <1>2, <2>2 DEF Line
  <2> QED
    BY <2>1, <2>2
<1> QED
  BY <1>1, <1>3, <1>4 DEF PipeAt, Quiet

\* What the first frame of the line tells, and what remains when it is taken.
LEMMA TakeTells ==
  ASSUME TypeOK, NEW r \in Replies, NEW t, Take(r, t), PipeAt(r), ~lost[r]
  PROVE  /\ t # "Data" => Ordered(Line(r)', Taken(r), server[r].data, Ends)
                           /\ (subscribed[r] => Whole(Line(r)', Taken(r), server[r].data))
         /\ t = "Data" => /\ Head(msgCh[r]).n = Taken(r) + 1 /\ Taken(r) + 1 <= server[r].data
                          /\ Ordered(Line(r)', Taken(r) + 1, server[r].data, Ends)
                          /\ (subscribed[r] => Whole(Line(r)', Taken(r) + 1, server[r].data))
         /\ t \in {"EndOK", "EndErr"} => Taken(r) = server[r].data
<1>1. PICK L \in Seq(Response) : L = Line(r)
  BY LineTyped
<1>2. PICK a \in Nat : a = Taken(r)
  BY LineTyped
<1>3. PICK top \in Nat : top = server[r].data
  BY LineTyped
<1>4. /\ L # <<>> /\ Line(r)' = Tail(L) /\ Head(L) = Head(msgCh[r]) /\ Head(L).type = t
      /\ Ordered(L, a, top, Ends) /\ (subscribed[r] => Whole(L, a, top))
  BY <1>1, <1>2, <1>3, TakeParts DEF PipeAt, LineAt, Reads
<1>5. /\ t # "Data" => Ordered(Tail(L), a, top, Ends) /\ (Whole(L, a, top) => Whole(Tail(L), a, top))
      /\ t = "Data" => /\ Head(L).n = a + 1
                       /\ Ordered(Tail(L), a + 1, top, Ends)
                       /\ (Whole(L, a, top) => Whole(Tail(L), a + 1, top))
      /\ IsEnd(Head(L)) => a = top
  BY <1>4, OrderedTail, ResponsesNumbered DEF IsEnd, Ends
<1>6. Ordered(Tail(L), a + 1, top, Ends) => a + 1 <= top
  BY DEF Ordered
<1> QED
  BY <1>1, <1>2, <1>3, <1>4, <1>5, <1>6 DEF IsEnd, Ends

\* Begin and Pong tell nothing of the Data.
LEMMA ReadIgnoredPipe ==
  ASSUME TypeOK, NEW r \in Replies, PipeAt(r), ReadIgnored(r)
  PROVE  PipeAt(r)'
<1>1. PICK t \in {"Begin", "Pong"} : Take(r, t)
  BY DEF ReadIgnored
<1>2. UNCHANGED <<lost, responses, server, subscribed, app, recv, recvClosed, reader>>
      /\ app[r].pc # "none"
  BY <1>1, TakeParts DEF ReadIgnored
<1>3. ClosedAtEnd(r)' /\ EOFDrained(r)' /\ Quiet(r)'
  BY <1>2 DEF PipeAt, ClosedAtEnd, EOFDrained, Quiet
<1>4. Taken(r)' = Taken(r) /\ (InOrder(r) => InOrder(r)')
  BY <1>2 DEF Taken, InOrder
<1> QED
  BY <1>1, <1>2, <1>3, <1>4, TakeTells DEF PipeAt, LineAt

\* What does not unmarshal is the last that ReadMsg takes.
LEMMA ReadUndecodablePipe ==
  ASSUME TypeOK, NEW r \in Replies, PipeAt(r), ReadUndecodable(r)
  PROVE  PipeAt(r)'
<1>1. UNCHANGED <<lost, responses, server, subscribed, app, recv, recvClosed>>
      /\ reader[r].pc = "idle"
  BY DEF ReadUndecodable, wireVars, doneVars
<1>2. reader'[r].pc = "fail" /\ app[r].pc # "none"
  BY <1>1, TypeParts DEF ReadUndecodable, ReadOK, PipeAt, Quiet
<1>3. ClosedAtEnd(r)' /\ EOFDrained(r)' /\ Quiet(r)' /\ ~Reads(r)'
  BY <1>1, <1>2 DEF PipeAt, ClosedAtEnd, EOFDrained, Quiet, Reads
<1>4. Taken(r)' = Taken(r) /\ (InOrder(r) => InOrder(r)')
  BY <1>1, <1>2 DEF Taken, InOrder
<1> QED
  BY <1>1, <1>3, <1>4 DEF PipeAt, LineAt

\* Data is on its way to the recv channel: it is the next one, and none comes after
\* an End.
LEMMA ReadDataPipe ==
  ASSUME TypeOK, NEW r \in Replies, PipeAt(r), ReadData(r)
  PROVE  PipeAt(r)'
<1>1. Take(r, "Data")
  BY DEF ReadData
<1>2. UNCHANGED <<lost, responses, server, subscribed, app, recv, recvClosed>>
      /\ app[r].pc # "none" /\ reader[r].pc = "idle"
  BY <1>1, TakeParts DEF ReadData
<1>3. EOFDrained(r)' /\ Quiet(r)'
  BY <1>2 DEF PipeAt, EOFDrained, Quiet
<1>4. CASE recvClosed[r]
  <2>1. reader' = reader /\ lost[r]
    <3>1. recvClosed[r] /\ ~lost[r] => Taken(r) = server[r].data
      BY DEF PipeAt, LineAt
    <3>2. ~lost[r] => Taken(r) + 1 <= server[r].data
      BY <1>1, TakeTells
    <3>3. PICK a \in Nat : a = Taken(r)
      BY LineTyped
    <3>4. ~(a + 1 <= a)
      OBVIOUS
    <3>5. lost[r] \in BOOLEAN
      BY TypeParts DEF WireOK
    <3> QED
      BY <1>4, <3>1, <3>2, <3>3, <3>4, <3>5 DEF ReadData
  <2> QED
    BY <1>2, <1>3, <2>1 DEF PipeAt, LineAt, ClosedAtEnd
<1>5. CASE ~recvClosed[r]
  <2>1. reader'[r].pc = "push" /\ reader'[r].n = Head(msgCh[r]).n
    BY <1>5, TypeParts DEF ReadData, ReadOK
  <2>2. PICK g \in Nat : g = Len(app[r].got)
    BY LineTyped
  <2>3. PICK v \in Nat : v = Len(recv[r])
    BY LineTyped
  <2>4. Taken(r) = g + v /\ Taken(r)' = g + v + 1
    <3>1. Taken(r) = g + v + 0 /\ Taken(r)' = g + v + 1
      BY <1>2, <2>1, <2>2, <2>3, Zenon DEF Taken
    <3> QED
      BY <3>1
  <2>5. ASSUME ~lost[r]
        PROVE  LineAt(r)'
    <3>1. reader'[r].n = Taken(r) + 1
      BY <1>1, <2>1, <2>5, TakeTells
    <3>2. InOrder(r)'
      BY <1>2, <2>1, <2>2, <2>3, <2>4, <2>5, <3>1 DEF PipeAt, LineAt, InOrder
    <3>3. Ordered(Line(r)', Taken(r)', server[r].data, Ends)
          /\ (subscribed[r] => Whole(Line(r)', Taken(r)', server[r].data))
      BY <1>1, <2>4, <2>5, TakeTells
    <3> QED
      BY <1>2, <1>5, <3>2, <3>3 DEF LineAt
  <2> QED
    BY <1>2, <1>3, <1>5, <2>5 DEF PipeAt, LineAt, ClosedAtEnd
<1> QED
  BY <1>4, <1>5

\* The recv channel takes the Data that ReadMsg holds.
LEMMA PushPipe ==
  ASSUME TypeOK, NEW r \in Replies, PipeAt(r), ReadPush(r)
  PROVE  PipeAt(r)'
<1>1. /\ UNCHANGED <<lost, responses, server, subscribed, app, msgCh, recvClosed>>
      /\ reader[r].pc = "push" /\ reader' = [reader EXCEPT ![r].pc = "idle", ![r].n = 0]
      /\ recv' = [recv EXCEPT ![r] = Append(@, reader[r].n)]
  BY DEF ReadPush, HandOver, wireVars, doneVars
<1>2. reader'[r].pc = "idle" /\ recv'[r] = Append(recv[r], reader[r].n)
      /\ reader[r].n \in 0..MaxData
  BY <1>1, TypeParts DEF ReadOK
<1>3. ~recvClosed[r] /\ app[r].pc # "none" /\ app[r].result # "EOF"
  BY <1>1 DEF PipeAt, ClosedAtEnd, Quiet, EOFDrained
<1>4. ClosedAtEnd(r)' /\ EOFDrained(r)' /\ Quiet(r)'
  BY <1>1, <1>3 DEF ClosedAtEnd, EOFDrained, Quiet
<1>5. PICK g \in Nat : g = Len(app[r].got)
  BY LineTyped
<1>6. PICK v \in Seq(0..MaxData) : v = recv[r]
  BY LineTyped
<1>7. /\ Len(recv'[r]) = Len(v) + 1 /\ recv'[r][Len(v) + 1] = reader[r].n /\ Len(v) \in Nat
      /\ \A i \in 1..Len(v) : recv'[r][i] = v[i]
  BY <1>2, <1>6, AppendProperties
<1>8. Taken(r)' = Taken(r)
  <2>1. Taken(r) = g + Len(v) + 1 /\ Taken(r)' = g + (Len(v) + 1) + 0
    BY <1>1, <1>2, <1>5, <1>6, <1>7, Zenon DEF Taken
  <2> QED
    BY <1>7, <2>1
<1>9. InOrder(r) => InOrder(r)'
  <2> SUFFICES ASSUME InOrder(r) PROVE InOrder(r)'
    OBVIOUS
  <2>1. reader[r].n = g + Len(v) + 1 /\ \A i \in 1..Len(v) : v[i] = g + i
    BY <1>1, <1>5, <1>6 DEF InOrder
  <2>2. \A i \in 1..(Len(v) + 1) : recv'[r][i] = g + i
    <3>1. PICK w \in Nat : w = Len(v)
      BY <1>7
    <3>2. \A i \in 1..(w + 1) : i \in 1..w \/ i = w + 1
      OBVIOUS
    <3>3. recv'[r][w + 1] = g + (w + 1) /\ \A i \in 1..w : recv'[r][i] = g + i
      BY <1>7, <2>1, <3>1
    <3> QED
      BY <3>1, <3>2, <3>3
  <2>3. \A i \in 1..Len(recv'[r]) : recv'[r][i] = Len(app'[r].got) + i
    BY <1>1, <1>5, <1>7, <2>2
  <2> QED
    BY <1>1, <1>2, <2>3 DEF InOrder
<1>10. Line(r)' = Line(r)
  BY <1>1 DEF Line
<1> QED
  BY <1>1, <1>4, <1>8, <1>9, <1>10 DEF PipeAt, LineAt, Reads

\* An End is the last: everything before it has been taken.
LEMMA ReadEndPipe ==
  ASSUME TypeOK, EndsSent, NEW r \in Replies, PipeAt(r), ReadEndOK(r) \/ ReadEndErr(r)
  PROVE  PipeAt(r)'
<1>1. PICK t \in {"EndOK", "EndErr"} : Take(r, t) /\ (ReadEndErr(r) \/ t = "EndOK")
  BY DEF ReadEndOK, ReadEndErr
<1>2. /\ UNCHANGED <<lost, responses, server, subscribed, app, recv>> /\ app[r].pc # "none"
      /\ reader[r].pc = "idle" /\ Head(msgCh[r]).type = t /\ msgCh[r] # <<>>
  BY <1>1, TakeParts DEF ReadEndOK, ReadEndErr
<1>3. reader'[r].pc = "cas"
      /\ (recvClosed'[r] = recvClosed[r] \/ (recvClosed'[r] /\ t = "EndOK"))
  <2>1. CASE ReadEndOK(r)
    <3>1. t = "EndOK"
      BY <1>2, <2>1 DEF ReadEndOK, Take
    <3> QED
      BY <2>1, <3>1, TypeParts DEF ReadEndOK, ReadOK
  <2>2. CASE ReadEndErr(r)
    BY <2>2, TypeParts DEF ReadEndErr, ReadOK
  <2> QED
    BY <2>1, <2>2
<1>4. server[r].ended = t
  <2>1. msgCh[r] \in Seq(Response) /\ EndsTell(msgCh[r], server[r].ended)
    BY LineTyped DEF EndsSent
  <2>2. IsEnd(Head(msgCh[r]))
    BY <1>2 DEF IsEnd, Ends
  <2> QED
    BY <1>2, <2>1, <2>2, TailTells
<1>5. ClosedAtEnd(r)' /\ EOFDrained(r)' /\ Quiet(r)'
  BY <1>2, <1>3, <1>4, TypeParts DEF PipeAt, ClosedAtEnd, EOFDrained, Quiet, ReadOK
<1>6. Taken(r)' = Taken(r) /\ (InOrder(r) => InOrder(r)')
  BY <1>2, <1>3 DEF Taken, InOrder
<1> QED
  BY <1>1, <1>2, <1>5, <1>6, TakeTells DEF PipeAt, LineAt

\* In a line are the frames of the channel and those NATS has.
LEMMA LineTells ==
  ASSUME TypeOK, EndsSent, NEW r \in Replies
  PROVE  EndsTell(Line(r), server[r].ended)
<1>1. PICK A \in Seq(Response) : A = msgCh[r]
  BY LineTyped
<1>2. PICK B \in Seq(Response) : B = responses[r]
  BY LineTyped
<1>3. EndsTell(A, server[r].ended) /\ EndsTell(B, server[r].ended)
  BY <1>1, <1>2 DEF EndsSent
<1>4. PICK a \in Nat : a = Len(A)
  OBVIOUS
<1>5. PICK b \in Nat : b = Len(B)
  OBVIOUS
<1>6. Len(A \o B) = a + b /\ \A i \in 1..(a + b) : (A \o B)[i] = IF i <= a THEN A[i] ELSE B[i - a]
  BY <1>4, <1>5, ConcatProperties
<1>7. \A i \in 1..(a + b) : IF i <= a THEN i \in 1..a ELSE i - a \in 1..b
  OBVIOUS
<1>8. EndsTell(A \o B, server[r].ended)
  BY <1>3, <1>4, <1>5, <1>6, <1>7 DEF EndsTell
<1> QED
  BY <1>1, <1>2, <1>3, <1>8 DEF Line

\* The server adds to the line.
LEMMA ServerPipe ==
  ASSUME TypeOK, EndsSent, NEW r \in Replies, PipeAt(r), ServerStep(r)
  PROVE  PipeAt(r)'
<1>1. PICK f \in Response :
        /\ responses' = [responses EXCEPT ![r] = Append(@, f)]
        /\ IsEnd(f) => server[r].ended = "no" /\ server'[r].ended = f.type
        /\ ~IsEnd(f) => server'[r].ended = server[r].ended
        /\ IF f.type = "Data"
             THEN /\ server[r].ended = "no"
                  /\ f.n = server[r].data + 1 /\ server'[r].data = server[r].data + 1
             ELSE server'[r].data = server[r].data
        /\ f.type # "Pong" => app[r].sends > 0
        /\ f.type = "Pong" => pinger[r].pings > 0
        /\ UNCHANGED <<lost, app, msgCh, recv, recvClosed, reader, subscribed, pinger>>
  BY ServerSteps
<1>2. app[r].pc # "none"
  BY <1>1 DEF PipeAt, Quiet
<1>3. ClosedAtEnd(r)' /\ EOFDrained(r)' /\ Quiet(r)'
  BY <1>1, <1>2 DEF PipeAt, ClosedAtEnd, EOFDrained, Quiet, IsEnd, Ends
<1>4. Taken(r)' = Taken(r) /\ (InOrder(r) => InOrder(r)')
  BY <1>1 DEF Taken, InOrder
<1>5. PICK L \in Seq(Response) : L = Line(r)
  BY LineTyped
<1>6. PICK a \in Nat : a = Taken(r)
  BY LineTyped
<1>7. PICK top \in Nat : top = server[r].data
  BY LineTyped
<1>8. f.type = "Data" => \A i \in 1..Len(L) : L[i].type \notin Ends
  BY <1>1, <1>5, LineTells DEF EndsTell, IsEnd, Ends
<1>9. Line(r)' = IF subscribed[r] THEN Append(L, f) ELSE L
  <2>1. responses'[r] = Append(responses[r], f)
    BY <1>1, TypeParts DEF WireOK
  <2>2. PICK A \in Seq(Response) : A = msgCh[r]
    BY LineTyped
  <2>3. PICK B \in Seq(Response) : B = responses[r]
    BY LineTyped
  <2>4. A \o Append(B, f) = Append(A \o B, f)
    BY Joined
  <2> QED
    BY <1>1, <1>5, <2>1, <2>2, <2>3, <2>4 DEF Line
<1>10. ASSUME ~lost[r]
       PROVE  LineAt(r)'
  <2>1. /\ InOrder(r) /\ (Reads(r)' => Reads(r))
        /\ Reads(r) => Ordered(L, a, top, Ends) /\ (subscribed[r] => Whole(L, a, top))
        /\ recvClosed[r] => a = top
    BY <1>1, <1>5, <1>6, <1>7, <1>10 DEF PipeAt, LineAt, Reads
  <2>2. CASE f.type # "Data"
    <3>1. Reads(r) /\ subscribed[r] =>
            Ordered(Append(L, f), a, top, Ends) /\ Whole(Append(L, f), a, top)
      BY <2>1, <2>2, OrderedAppend, ResponsesNumbered
    <3> QED
      BY <1>1, <1>4, <1>6, <1>7, <1>9, <2>1, <2>2, <3>1 DEF LineAt
  <2>3. CASE f.type = "Data"
    <3>1. Reads(r) /\ subscribed[r] =>
            Ordered(Append(L, f), a, top + 1, Ends) /\ Whole(Append(L, f), a, top + 1)
      BY <1>1, <1>7, <1>8, <2>1, <2>3, OrderedAppend, ResponsesNumbered
    <3>2. Reads(r) => Ordered(L, a, top + 1, Ends)
      BY <1>8, <2>1, <2>3, OrderedHigher, ResponsesNumbered
    <3>3. ~recvClosed[r]
      BY <1>1, <2>3 DEF PipeAt, ClosedAtEnd
    <3> QED
      BY <1>1, <1>4, <1>6, <1>7, <1>9, <2>1, <2>3, <3>1, <3>2, <3>3 DEF LineAt
  <2> QED
    BY <2>2, <2>3
<1> QED
  BY <1>1, <1>3, <1>10 DEF PipeAt, LineAt

\* NATS moves a frame inside the line, or says that it lost it.
LEMMA DeliverPipe ==
  ASSUME TypeOK, NEW r \in Replies, PipeAt(r), Deliver(r)
  PROVE  PipeAt(r)'
<1>1. /\ responses[r] # <<>> /\ responses' = [responses EXCEPT ![r] = Tail(@)]
      /\ UNCHANGED <<server, app, recv, recvClosed, reader, subscribed, pinger>>
  BY DEF Deliver, doneVars, loopVars
<1>2. responses'[r] = Tail(responses[r])
  BY <1>1, TypeParts DEF WireOK
<1>3. ClosedAtEnd(r)' /\ EOFDrained(r)' /\ Quiet(r)'
  BY <1>1 DEF PipeAt, ClosedAtEnd, EOFDrained, Quiet
<1>4. Taken(r)' = Taken(r) /\ (InOrder(r) => InOrder(r)')
  BY <1>1 DEF Taken, InOrder
<1>5. CASE subscribed[r] /\ Len(msgCh[r]) < MsgCap
  <2>1. UNCHANGED lost /\ msgCh'[r] = Append(msgCh[r], Head(responses[r]))
    BY <1>5, TypeParts DEF Deliver, ReadOK
  <2>2. Line(r)' = Line(r)
    <3>1. PICK A \in Seq(Response) : A = msgCh[r]
      BY LineTyped
    <3>2. PICK B \in Seq(Response) : B = responses[r]
      BY LineTyped
    <3>3. B # <<>> /\ Head(B) \in Response
      BY <1>1, <3>2, TailParts
    <3>4. PICK f \in Response : f = Head(B)
      BY <3>3
    <3>5. Append(A, f) \o Tail(B) = A \o B
      BY <3>3, <3>4, Joined
    <3> QED
      BY <1>1, <1>2, <1>5, <2>1, <3>1, <3>2, <3>4, <3>5 DEF Line
  <2> QED
    BY <1>1, <1>3, <1>4, <2>1, <2>2 DEF PipeAt, LineAt, Reads
<1>6. CASE ~(subscribed[r] /\ Len(msgCh[r]) < MsgCap) /\ subscribed[r]
  <2>1. lost'[r]
    BY <1>6, TypeParts DEF Deliver, WireOK
  <2> QED
    BY <1>3, <2>1 DEF PipeAt, LineAt
<1>7. CASE ~subscribed[r]
  <2>1. UNCHANGED msgCh /\ lost'[r] = lost[r]
    BY <1>7, TypeParts DEF Deliver, WireOK
  <2>2. Line(r)' = Line(r)
    BY <1>1, <1>7, <2>1 DEF Line
  <2> QED
    BY <1>1, <1>3, <1>4, <2>1, <2>2 DEF PipeAt, LineAt, Reads
<1> QED
  BY <1>5, <1>6, <1>7

\* Every step keeps the way of the Data.
LEMMA NextPipe ==
  ASSUME TypeOK, EndsSent, PipeInv, [Next]_vars
  PROVE  PipeInv'
<1>1. ASSUME NEW r \in Replies,
             \/ App(r) \/ ReadMsg(r) \/ Watcher(r) \/ Monitor(r) \/ PingLoop(r)
             \/ ServerStep(r) \/ Deliver(r)
      PROVE  PipeInv'
  <2>1. PipeAt(r)
    BY DEF PipeInv
  <2>2. CASE App(r)
    <3>1. ASSUME \/ EnterStream(r) \/ SendMsgChecks(r) \/ SendMsgWrites(r) \/ CloseSend(r)
                 \/ CallerCtxDone(r)
          PROVE  PipeAt(r)'
      BY <2>1, <3>1, OwnAside, AsideKeeps
    <3>2. ASSUME NewClientStream(r)
          PROVE  PipeAt(r)'
      BY <2>1, <3>2, NewPipe
    <3>3. ASSUME RecvMsgData(r)
          PROVE  PipeAt(r)'
      BY <2>1, <3>3, RecvDataPipe
    <3>4. ASSUME RecvMsgEOF(r) \/ RecvMsgCtxDone(r)
          PROVE  PipeAt(r)'
      BY <2>1, <3>4, RecvEndPipe
    <3>5. PipeAt(r)'
      BY <2>2, <3>1, <3>2, <3>3, <3>4 DEF App
    <3>6. \A q \in Replies : q # r => PipeAt(q)'
      BY <1>1, OthersAside, AsideKeeps DEF PipeInv
    <3> QED
      BY <3>5, <3>6 DEF PipeInv
  <2>3. CASE ReadMsg(r)
    <3>1. ASSUME ReaderDone(r) \/ SetLastErr(r) \/ ReadExit(r) \/ ReadUndecodable(r)
          PROVE  PipeAt(r)'
      BY <2>1, <3>1, OwnAside, AsideKeeps, ReadUndecodablePipe
    <3>2. ASSUME ReadIgnored(r)
          PROVE  PipeAt(r)'
      BY <2>1, <3>2, ReadIgnoredPipe
    <3>3. ASSUME ReadData(r)
          PROVE  PipeAt(r)'
      BY <2>1, <3>3, ReadDataPipe
    <3>4. ASSUME ReadPush(r)
          PROVE  PipeAt(r)'
      BY <2>1, <3>4, PushPipe
    <3>5. ASSUME ReadEndOK(r) \/ ReadEndErr(r)
          PROVE  PipeAt(r)'
      BY <2>1, <3>5, ReadEndPipe
    <3>6. PipeAt(r)'
      BY <2>3, <3>1, <3>2, <3>3, <3>4, <3>5 DEF ReadMsg
    <3>7. \A q \in Replies : q # r => PipeAt(q)'
      BY <1>1, OthersAside, AsideKeeps DEF PipeInv
    <3> QED
      BY <3>6, <3>7 DEF PipeInv
  <2>4. CASE Watcher(r) \/ Monitor(r) \/ PingLoop(r) \/ ServerStep(r) \/ Deliver(r)
    <3>1. PipeAt(r)'
      BY <2>1, <2>4, OwnAside, AsideKeeps, ServerPipe, DeliverPipe
    <3>2. \A q \in Replies : q # r => PipeAt(q)'
      BY <1>1, OthersAside, AsideKeeps DEF PipeInv
    <3> QED
      BY <3>1, <3>2 DEF PipeInv
  <2> QED
    BY <1>1, <2>2, <2>3, <2>4
<1>2. CASE Close
  <2>1. UNCHANGED <<wireVars, readVars, app, loopVars>>
    BY <1>2 DEF Close, CloseSnapshot, CloseBegins, CloseNext, CloserDone, CloserStep
  <2>2. UNCHANGED subscribed \/ \E r \in Replies : DoneCAS(r) \/ \E pc : Done(r, pc)
    BY <1>2, TypeParts DEF Close, CloseSnapshot, CloseBegins, CloseNext, CloserDone, doneVars,
                           CloserOK
  <2>3. \A q \in Replies : subscribed'[q] \in {subscribed[q], FALSE}
    BY <2>2, DoneCuts
  <2>4. \A q \in Replies : Aside(q)
    BY <2>1, <2>3 DEF Aside, View, Reads, wireVars, readVars, loopVars
  <2> QED
    BY <2>4, AsideKeeps DEF PipeInv
<1>3. CASE UNCHANGED vars
  <2>1. \A q \in Replies : Aside(q)
    BY <1>3 DEF vars, wireVars, readVars, loopVars, doneVars, Aside, View, Reads
  <2> QED
    BY <2>1, AsideKeeps DEF PipeInv
<1> QED
  BY <1>1, <1>2, <1>3 DEF Next, Client, Environment

\* Nothing is on its way at first.
LEMMA InitPipe == Init => PipeInv
<1> SUFFICES ASSUME Init, NEW r \in Replies PROVE PipeAt(r)
  BY DEF PipeInv
<1>1. /\ app[r].got = <<>> /\ recv[r] = <<>> /\ server[r].data = 0 /\ ~recvClosed[r]
      /\ msgCh[r] = <<>> /\ responses[r] = <<>> /\ ~subscribed[r] /\ reader[r].pc = "none"
      /\ app[r].sends = 0 /\ pinger[r].pc = "none" /\ pinger[r].pings = 0 /\ ~lost[r]
      /\ app[r].result = "none"
  BY DEF Init
<1>2. Len(<<>>) = 0
  OBVIOUS
<1>3. Line(r) = <<>> /\ Taken(r) = 0 /\ InOrder(r)
  BY <1>1, <1>2 DEF Line, Taken, InOrder
<1> QED
  BY <1>1, <1>3, OrderedEmpty DEF PipeAt, LineAt, ClosedAtEnd, EOFDrained, Quiet

\* So the Data is in order always.
LEMMA PipeInvariant == Spec => [](TypeOK /\ PipeInv)
<1>1. Init => TeardownInv /\ CauseInv /\ PipeInv
  BY InitTyped, InitDone, InitCause, InitPipe DEF TeardownInv
<1>2. TeardownInv /\ CauseInv /\ PipeInv /\ [Next]_vars => (TeardownInv /\ CauseInv /\ PipeInv)'
  BY NextTyped, NextDone, NextCause, NextPipe DEF TeardownInv, CauseInv
<1>3. TeardownInv => TypeOK
  BY DEF TeardownInv
<1> QED
  BY <1>1, <1>2, <1>3, PTL DEF Spec

\* Unless NATS dropped a frame for a full channel, what RecvMsg returned is the server's
\* Data from the first on, in order and without a gap: one goroutine reads msgCh and
\* waits for the recv channel, and a teardown only cuts the line (client.go:777-837).
THEOREM DataInOrder == Spec => []ReceivesPrefix
<1>1. TypeOK /\ PipeInv => ReceivesPrefix
  <2> SUFFICES ASSUME TypeOK, PipeInv, NEW r \in Replies, ~lost[r], NEW i \in DOMAIN app[r].got
               PROVE  app[r].got[i] = i
    BY DEF ReceivesPrefix
  <2>1. DOMAIN app[r].got = 1..Len(app[r].got)
    BY LineTyped
  <2> QED
    BY <2>1 DEF PipeInv, PipeAt, LineAt, InOrder
<1> QED
  BY <1>1, PipeInvariant, PTL

\* RecvMsg returns io.EOF only when the server ended with OK and, unless NATS dropped a
\* frame, every Data frame it sent was received (client.go:839-874).
THEOREM EOFIsComplete == Spec => []EOFMeansComplete
<1>1. TypeOK /\ PipeInv => EOFMeansComplete
  <2> SUFFICES ASSUME TypeOK, PipeInv, NEW r \in Replies, app[r].result = "EOF"
               PROVE  server[r].ended = "EndOK" /\ (lost[r] \/ Len(app[r].got) = server[r].data)
    BY DEF EOFMeansComplete
  <2>1. /\ recvClosed[r] /\ recv[r] = <<>> /\ server[r].ended = "EndOK" /\ reader[r].pc # "push"
        /\ ~lost[r] => Taken(r) = server[r].data
    BY DEF PipeInv, PipeAt, LineAt, ClosedAtEnd, EOFDrained
  <2>2. PICK g \in Nat : g = Len(app[r].got)
    BY LineTyped
  <2>3. Len(<<>>) = 0 /\ g + 0 + 0 = g
    OBVIOUS
  <2>4. Taken(r) = g
    BY <2>1, <2>2, <2>3, Zenon DEF Taken
  <2> QED
    BY <2>1, <2>2, <2>4
<1> QED
  BY <1>1, PipeInvariant, PTL
=============================================================================
