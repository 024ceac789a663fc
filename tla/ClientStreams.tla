---------------------------- MODULE ClientStreams ----------------------------
(***************************************************************************)
(* The streaming half of pkg/rpc/client.go: Client.streams, the goroutines  *)
(* of a clientStream and the one teardown they share.                       *)
(*                                                                          *)
(* A stream is named by its reply inbox, which is fresh.  Around it run the *)
(* caller's goroutine (NewStream, SendMsg, RecvMsg, CloseSend), ReadMsg,    *)
(* the context watcher, pongMonitor and pingLoop, and beside all streams    *)
(* Client.Close.  Four of them can call done(): its CompareAndSwap, the     *)
(* stats event, cancel, the channel and subscription closes and the map     *)
(* removal are a step each, so that they interleave with everything else.   *)
(*                                                                          *)
(* responses[r] is the NATS subject to the client, requests[r] the set of    *)
(* what it published; the server is only bound by the protocol ServerStreams *)
(* shows it follows (ResponseProtocol).                                     *)
(***************************************************************************)
EXTENDS Naturals, Sequences

CONSTANTS
  Replies,    \* reply inboxes of the streams
  Heartbeat,  \* whether pingInterval > 0
  MsgCap,     \* capacity of clientStream.msgCh (8192)
  RecvCap,    \* capacity of the recv channel (1)
  CtxErrors,  \* how a caller's context may end: a subset of ContextError
  MaxCalls,   \* bound: SendMsg and CloseSend calls per stream
  MaxPings,   \* bound: Ping frames per stream
  MaxData,    \* bound: Data frames the server sends per stream
  WireCap     \* bound: frames in flight to the client per stream

ContextError == {"Canceled", "DeadlineExceeded"}

ASSUME ClientAssumption ==
  /\ Replies # {} /\ Heartbeat \in BOOLEAN
  /\ MsgCap \in Nat \ {0} /\ RecvCap \in Nat \ {0} /\ WireCap \in Nat \ {0}
  /\ CtxErrors \subseteq ContextError
  /\ MaxCalls \in Nat /\ MaxPings \in Nat /\ MaxData \in Nat

AnyReply == CHOOSE r \in Replies : TRUE

Frame(t, n) == [type |-> t, n |-> n]
Request == [type : {"Call", "Data", "EndOK", "EndErr", "Ping"}, n : 0..MaxCalls]
Response == [type : {"Begin", "Data", "EndOK", "EndErr", "Pong"}, n : 0..MaxData]

VARIABLES
  requests,    \* history, per stream: which frames the client published
  responses,   \* per stream: frames in flight to the client
  server,      \* per stream: what the server has sent
  lost,        \* history, per stream: NATS dropped a frame for a full msgCh
  \* Client
  streams,     \* the keys of Client.streams
  mu,          \* Client.mu is held beyond the step that takes it
  closer,      \* the goroutine in Client.Close: its pc, the streams left, the one at hand
  \* the caller's goroutine: pc, SendMsg calls, CloseSend called, what RecvMsg
  \* returned, the error that ended the receiving; history: the stream was torn
  \* down, or about to be, before NewStream entered it into the map
  app,
  \* clientStream
  ctx,         \* "live", or the error of the context
  closed, endOnce, endErr, lastErr,
  events,      \* stats events: Begin, then End with its error
  subscribed,  \* the subscription on the reply inbox
  msgCh, msgClosed, recv, recvClosed,
  reader,      \* the ReadMsg goroutine: its pc, the Data it hands over, its error
  watcher, monitor,  \* the pcs of the context watcher and of pongMonitor
  pinger       \* the pingLoop goroutine: its pc, the Pings it wrote

wireVars == <<requests, responses, server, lost>>
clientVars == <<mu, closer>>
doneVars == <<closed, endOnce, events, ctx, subscribed, msgClosed, streams>>
readVars == <<msgCh, recv, recvClosed, lastErr, reader>>
loopVars == <<watcher, monitor, pinger>>
vars == <<wireVars, clientVars, doneVars, readVars, endErr, app, loopVars>>

\* The pcs inside done().
Teardown == {"cas", "event", "cancel", "unsub", "remove"}

Init ==
  /\ requests = [r \in Replies |-> {}]
  /\ responses = [r \in Replies |-> <<>>]
  /\ server = [r \in Replies |-> [begun |-> FALSE, data |-> 0, pongs |-> 0, ended |-> "no"]]
  /\ lost = [r \in Replies |-> FALSE]
  /\ streams = {} /\ mu = FALSE
  /\ closer = [pc |-> "none", left |-> {}, at |-> AnyReply]
  /\ app = [r \in Replies |->
       [pc |-> "none", sends |-> 0, half |-> FALSE, got |-> <<>>, result |-> "none",
        late |-> FALSE]]
  /\ ctx = [r \in Replies |-> "live"]
  /\ closed = [r \in Replies |-> FALSE]
  /\ endOnce = [r \in Replies |-> FALSE]
  /\ endErr = [r \in Replies |-> "nil"]
  /\ lastErr = [r \in Replies |-> "nil"]
  /\ events = [r \in Replies |-> <<>>]
  /\ subscribed = [r \in Replies |-> FALSE]
  /\ msgCh = [r \in Replies |-> <<>>]
  /\ msgClosed = [r \in Replies |-> FALSE]
  /\ recv = [r \in Replies |-> <<>>]
  /\ recvClosed = [r \in Replies |-> FALSE]
  /\ reader = [r \in Replies |-> [pc |-> "none", n |-> 0, err |-> "nil"]]
  /\ watcher = [r \in Replies |-> "none"]
  /\ monitor = [r \in Replies |-> "none"]
  /\ pinger = [r \in Replies |-> [pc |-> "none", pings |-> 0]]

-----------------------------------------------------------------------------
(* The caller's goroutine                                                   *)

AppVarsOnly == UNCHANGED <<clientVars, doneVars, readVars, endErr, loopVars>>

Publish(r, fs) ==
  /\ requests' = [requests EXCEPT ![r] = @ \cup {fs[i] : i \in DOMAIN fs}]
  /\ UNCHANGED <<responses, server, lost>>

Calls(r) == app[r].sends + (IF app[r].half THEN 1 ELSE 0)

\* newClientStream: Begin, the subscription and the stream's goroutines.  The
\* context derives from the caller's, which may be done already; the error of
\* ChanSubscribe is dropped, and Unsubscribe of a nil subscription does nothing.
NewClientStream(r) ==
  /\ app[r].pc = "none"
  /\ app' = [app EXCEPT ![r].pc = "made"]
  /\ events' = [events EXCEPT ![r] = Append(@, "Begin")]
  /\ \E ok \in BOOLEAN : subscribed' = [subscribed EXCEPT ![r] = ok]
  /\ reader' = [reader EXCEPT ![r].pc = "idle"]
  /\ watcher' = [watcher EXCEPT ![r] = "waiting"]
  /\ IF Heartbeat THEN /\ monitor' = [monitor EXCEPT ![r] = "running"]
                       /\ pinger' = [pinger EXCEPT ![r].pc = "idle"]
     ELSE UNCHANGED <<monitor, pinger>>
  /\ UNCHANGED <<wireVars, clientVars, closed, endOnce, ctx, msgClosed, streams, msgCh, recv,
                 recvClosed, lastErr, endErr>>

\* streamOnSubject enters the stream into the map after its goroutines started.
EnterStream(r) ==
  /\ app[r].pc = "made" /\ ~mu
  /\ app' = [app EXCEPT ![r].pc = "open", ![r].late = closed[r]]
  /\ streams' = streams \cup {r}
  /\ UNCHANGED <<wireVars, clientVars, closed, endOnce, events, ctx, subscribed, msgClosed,
                 readVars, endErr, loopVars>>

\* SendMsg looks at closed, not at CloseSend, then publishes: Call before the first Data.
SendMsgChecks(r) ==
  /\ app[r].pc = "open" /\ ~closed[r] /\ Calls(r) < MaxCalls
  /\ app' = [app EXCEPT ![r].pc = "sending"]
  /\ UNCHANGED wireVars /\ AppVarsOnly

SendMsgWrites(r) ==
  /\ app[r].pc = "sending"
  /\ app' = [app EXCEPT ![r].pc = "open", ![r].sends = @ + 1]
  /\ Publish(r, (IF app[r].sends = 0 THEN <<Frame("Call", 0)>> ELSE <<>>)
                \o <<Frame("Data", app[r].sends + 1)>>)
  /\ AppVarsOnly

\* CloseSend looks at nothing.
CloseSend(r) ==
  /\ app[r].pc = "open" /\ ~app[r].half /\ Calls(r) < MaxCalls
  /\ app' = [app EXCEPT ![r].half = TRUE]
  /\ Publish(r, <<Frame("EndOK", 0)>>)
  /\ AppVarsOnly

Returns(r, result) ==
  /\ app' = [app EXCEPT ![r].result = result]
  /\ UNCHANGED wireVars /\ AppVarsOnly

Receiving(r) == app[r].pc \in {"open", "sending"} /\ app[r].result = "none"

RecvMsgData(r) ==
  /\ Receiving(r) /\ recv[r] # <<>>
  /\ recv' = [recv EXCEPT ![r] = Tail(@)]
  /\ app' = [app EXCEPT ![r].got = Append(@, Head(recv[r]))]
  /\ UNCHANGED <<wireVars, clientVars, doneVars, msgCh, recvClosed, lastErr, reader, endErr,
                 loopVars>>

\* Mutant: a closed recv channel ends the receiving whatever it still holds.
RecvMsgEOFEarly(r) == Receiving(r) /\ recvClosed[r] /\ Returns(r, "EOF")

RecvMsgEOF(r) == Receiving(r) /\ recv[r] = <<>> /\ recvClosed[r] /\ Returns(r, "EOF")

\* The select may take this case with data or EOF ready in the other.
RecvMsgCtxDone(r) ==
  /\ Receiving(r) /\ ctx[r] # "live"
  /\ Returns(r, IF lastErr[r] # "nil" THEN lastErr[r] ELSE ctx[r])

\* The caller's context is cancelled or runs out, before the stream exists or after.
CallerCtxDone(r) ==
  /\ ctx[r] = "live"
  /\ \E why \in CtxErrors : ctx' = [ctx EXCEPT ![r] = why]
  /\ UNCHANGED <<wireVars, clientVars, closed, endOnce, events, subscribed, msgClosed, streams,
                 readVars, endErr, app, loopVars>>


-----------------------------------------------------------------------------
(* done(), run by ReadMsg, the watcher, the monitor or Client.Close.  pc is *)
(* where the caller of done is, after is where it goes on.                  *)

\* CompareAndSwap: only one caller of done runs its body.
DoneCAS(r) ==
  /\ closed' = [closed EXCEPT ![r] = TRUE]
  /\ UNCHANGED <<endOnce, events, ctx, subscribed, msgClosed, streams>>

\* Mutant: done without the CompareAndSwap.
AfterDoneAlways(r, pc, after) ==
  CASE pc = "cas" -> "event" [] pc = "event" -> "cancel" [] pc = "cancel" -> "unsub"
    [] pc = "unsub" -> "remove" [] OTHER -> after

\* Mutant: the context is cancelled before the stats event.
AfterDoneCancelFirst(r, pc, after) ==
  CASE pc = "cas" -> IF closed[r] THEN after ELSE "cancel"
    [] pc = "cancel" -> "event" [] pc = "event" -> "unsub" [] pc = "unsub" -> "remove"
    [] OTHER -> after

\* endOnce.Do: stats.End carries the endErr of this moment.
DoneEvent(r) ==
  /\ endOnce' = [endOnce EXCEPT ![r] = TRUE]
  /\ events' = IF endOnce[r] THEN events ELSE [events EXCEPT ![r] = Append(@, endErr[r])]
  /\ UNCHANGED <<closed, ctx, subscribed, msgClosed, streams>>

DoneCancel(r) ==
  /\ ctx' = [ctx EXCEPT ![r] = IF @ = "live" THEN "Canceled" ELSE @]
  /\ UNCHANGED <<closed, endOnce, events, subscribed, msgClosed, streams>>

\* close(heartbeatStop), Unsubscribe, close(msgCh)
DoneCloseChannels(r) ==
  /\ subscribed' = [subscribed EXCEPT ![r] = FALSE]
  /\ msgClosed' = [msgClosed EXCEPT ![r] = TRUE]
  /\ UNCHANGED <<closed, endOnce, events, ctx, streams>>

\* Mutant: the entry is looked up by subject, which is never its key.
DoneRemoveBySubject(r) ==
  ~mu /\ UNCHANGED <<closed, endOnce, events, ctx, subscribed, msgClosed, streams>>

\* Client.remove takes mu.
DoneRemove(r) ==
  /\ ~mu
  /\ streams' = streams \ {r}
  /\ UNCHANGED <<closed, endOnce, events, ctx, subscribed, msgClosed>>

Done(r, pc) ==
  \/ pc = "cas" /\ DoneCAS(r)
  \/ pc = "event" /\ DoneEvent(r)
  \/ pc = "cancel" /\ DoneCancel(r)
  \/ pc = "unsub" /\ DoneCloseChannels(r)
  \/ pc = "remove" /\ DoneRemove(r)

AfterDone(r, pc, after) ==
  CASE pc = "cas" -> IF closed[r] THEN after ELSE "event"
    [] pc = "event" -> "cancel" [] pc = "cancel" -> "unsub" [] pc = "unsub" -> "remove"
    [] OTHER -> after

-----------------------------------------------------------------------------
(* ReadMsg                                                                  *)

Take(r, t) ==
  /\ reader[r].pc = "idle" /\ msgCh[r] # <<>> /\ Head(msgCh[r]).type = t
  /\ msgCh' = [msgCh EXCEPT ![r] = Tail(@)]
  /\ UNCHANGED <<wireVars, clientVars, doneVars, lastErr, app, loopVars>>

\* processBegin and processPong: nothing that is modelled changes.
ReadIgnored(r) ==
  /\ Take(r, "Begin") \/ Take(r, "Pong")
  /\ UNCHANGED <<recv, recvClosed, reader, endErr>>

\* Mutant: Data that finds the recv channel full is skipped.
ReadDataSkipping(r) ==
  /\ Take(r, "Data")
  /\ reader' = IF recvClosed[r] \/ Len(recv[r]) = RecvCap THEN reader
               ELSE [reader EXCEPT ![r].pc = "push", ![r].n = Head(msgCh[r]).n]
  /\ UNCHANGED <<recv, recvClosed, endErr>>

\* processData: dropped after End, else on its way to the recv channel.
ReadData(r) ==
  /\ Take(r, "Data")
  /\ reader' = IF recvClosed[r] THEN reader
               ELSE [reader EXCEPT ![r].pc = "push", ![r].n = Head(msgCh[r]).n]
  /\ UNCHANGED <<recv, recvClosed, endErr>>

HandOver(r) ==
  /\ recv' = [recv EXCEPT ![r] = Append(@, reader[r].n)]
  /\ reader' = [reader EXCEPT ![r].pc = "idle", ![r].n = 0]
  /\ UNCHANGED <<wireVars, clientVars, doneVars, msgCh, recvClosed, lastErr, endErr, app,
                 loopVars>>

\* Mutant: a recv channel that does not block.
ReadPushUnbounded(r) == reader[r].pc = "push" /\ HandOver(r)

\* recvWrite <- data.Data, which no context interrupts
ReadPush(r) == reader[r].pc = "push" /\ Len(recv[r]) < RecvCap /\ HandOver(r)

\* processEnd with OK: EOF for the receiver, then done.
ReadEndOK(r) ==
  /\ Take(r, "EndOK")
  /\ recvClosed' = [recvClosed EXCEPT ![r] = TRUE]
  /\ reader' = [reader EXCEPT ![r].pc = "cas", ![r].err = "nil"]
  /\ UNCHANGED <<recv, endErr>>

\* processEnd with an error: done first; ReadMsg records the error after it returned.
ReadEndErr(r) ==
  /\ Take(r, "EndErr")
  /\ endErr' = [endErr EXCEPT ![r] = "Status"]
  /\ reader' = [reader EXCEPT ![r].pc = "cas", ![r].err = "Status"]
  /\ UNCHANGED <<recv, recvClosed>>

ReaderDone(r) ==
  /\ reader[r].pc \in Teardown
  /\ Done(r, reader[r].pc)
  /\ reader' = [reader EXCEPT ![r].pc =
                  AfterDone(r, @, IF reader[r].err = "nil" THEN "idle" ELSE "fail")]
  /\ UNCHANGED <<wireVars, clientVars, msgCh, recv, recvClosed, lastErr, endErr, app,
                 loopVars>>

\* onMessage: a message that does not unmarshal ends ReadMsg, without done.
ReadUndecodable(r) ==
  /\ reader[r].pc = "idle" /\ msgCh[r] # <<>>
  /\ msgCh' = [msgCh EXCEPT ![r] = Tail(@)]
  /\ reader' = [reader EXCEPT ![r].pc = "fail", ![r].err = "Undecodable"]
  /\ UNCHANGED <<wireVars, clientVars, doneVars, recv, recvClosed, lastErr, endErr, app,
                 loopVars>>

SetLastErr(r) ==
  /\ reader[r].pc = "fail"
  /\ lastErr' = [lastErr EXCEPT ![r] = IF @ = "nil" THEN reader[r].err ELSE @]
  /\ reader' = [reader EXCEPT ![r].pc = "exited", ![r].err = "nil"]
  /\ UNCHANGED <<wireVars, clientVars, doneVars, msgCh, recv, recvClosed, endErr, app,
                 loopVars>>

ReadExit(r) ==
  /\ reader[r].pc = "idle"
  /\ ctx[r] # "live" \/ (msgClosed[r] /\ msgCh[r] = <<>>)
  /\ reader' = [reader EXCEPT ![r].pc = "exited"]
  /\ UNCHANGED <<wireVars, clientVars, doneVars, msgCh, recv, recvClosed, lastErr, endErr, app,
                 loopVars>>

ReadMsg(r) ==
  \/ ReadIgnored(r) \/ ReadData(r) \/ ReadPush(r) \/ ReadEndOK(r) \/ ReadEndErr(r)
  \/ ReaderDone(r) \/ ReadUndecodable(r) \/ SetLastErr(r) \/ ReadExit(r)

-----------------------------------------------------------------------------
(* The watcher of the context, pongMonitor and pingLoop                     *)

WatcherStep(r, pc) ==
  /\ watcher' = [watcher EXCEPT ![r] = pc]
  /\ UNCHANGED <<wireVars, clientVars, readVars, endErr, app, monitor, pinger>>

WatcherWakes(r) ==
  /\ watcher[r] = "waiting" /\ ctx[r] # "live"
  /\ DoneCAS(r) /\ WatcherStep(r, AfterDone(r, "cas", "exited"))

WatcherDone(r) ==
  /\ watcher[r] \in Teardown
  /\ Done(r, watcher[r]) /\ WatcherStep(r, AfterDone(r, watcher[r], "exited"))

Watcher(r) == WatcherWakes(r) \/ WatcherDone(r)

MonitorStep(r, pc) ==
  /\ monitor' = [monitor EXCEPT ![r] = pc]
  /\ UNCHANGED <<clientVars, readVars, app, watcher, pinger>>

\* No Pong for pongTimeout (Heartbeat says when): close(Unavailable) sets endErr ...
MonitorFires(r) ==
  /\ monitor[r] = "running"
  /\ endErr' = [endErr EXCEPT ![r] = "Unavailable"]
  /\ MonitorStep(r, "writeEnd") /\ UNCHANGED <<wireVars, doneVars>>

\* Mutant: the monitor goes straight to done.
MonitorSkipsEnd(r) ==
  /\ monitor[r] = "writeEnd"
  /\ MonitorStep(r, "cas") /\ UNCHANGED <<wireVars, doneVars, endErr>>

\* ... tells the server, and calls done.
MonitorWritesEnd(r) ==
  /\ monitor[r] = "writeEnd"
  /\ Publish(r, <<Frame("EndErr", 0)>>)
  /\ MonitorStep(r, "cas") /\ UNCHANGED <<doneVars, endErr>>

MonitorDone(r) ==
  /\ monitor[r] \in Teardown
  /\ Done(r, monitor[r]) /\ MonitorStep(r, AfterDone(r, monitor[r], "exited"))
  /\ UNCHANGED <<wireVars, endErr>>

MonitorExit(r) ==
  /\ monitor[r] = "running" /\ (ctx[r] # "live" \/ msgClosed[r])
  /\ MonitorStep(r, "exited") /\ UNCHANGED <<wireVars, doneVars, endErr>>

Monitor(r) == MonitorFires(r) \/ MonitorWritesEnd(r) \/ MonitorDone(r) \/ MonitorExit(r)

\* pingLoop: a tick, taken even if the context is done, looks at closed ...
PingTick(r) ==
  /\ pinger[r].pc = "idle" /\ ~closed[r] /\ pinger[r].pings < MaxPings
  /\ pinger' = [pinger EXCEPT ![r].pc = "writing"]
  /\ UNCHANGED <<wireVars, clientVars, doneVars, readVars, endErr, app, watcher, monitor>>

\* ... and writes its Ping whatever happened since.  That the loop ends afterwards
\* changes nothing else and is no step of the model.
PingWrite(r) ==
  /\ pinger[r].pc = "writing"
  /\ pinger' = [pinger EXCEPT ![r] = [pc |-> "idle", pings |-> @.pings + 1]]
  /\ Publish(r, <<Frame("Ping", 0)>>)
  /\ UNCHANGED <<clientVars, doneVars, readVars, endErr, app, watcher, monitor>>

PingLoop(r) == PingTick(r) \/ PingWrite(r)

-----------------------------------------------------------------------------
(* Client.Close                                                             *)

\* at is the stream whose done is under way.
CloserStep(pc, left, at) ==
  /\ closer' = [pc |-> pc, left |-> left, at |-> IF pc \in Teardown THEN at ELSE AnyReply]
  /\ UNCHANGED <<wireVars, readVars, endErr, app, loopVars>>

\* Close holds mu for its snapshot only.
CloseBegins(locked) ==
  /\ closer.pc = "none" /\ ~mu
  /\ mu' = locked
  /\ CloserStep("next", streams, AnyReply) /\ UNCHANGED doneVars

\* Mutant: mu is still held while the streams are closed.
CloseSnapshotLocked == CloseBegins(TRUE)

CloseSnapshot == CloseBegins(FALSE)

CloseNext ==
  /\ closer.pc = "next"
  /\ \/ \E r \in closer.left :
          DoneCAS(r) /\ CloserStep(AfterDone(r, "cas", "next"), closer.left \ {r}, r)
     \/ closer.left = {} /\ CloserStep("returned", {}, AnyReply) /\ UNCHANGED doneVars
  /\ UNCHANGED mu

CloserDone ==
  /\ closer.pc \in Teardown
  /\ Done(closer.at, closer.pc)
  /\ CloserStep(AfterDone(closer.at, closer.pc, "next"), closer.left, closer.at)
  /\ UNCHANGED mu

Close == CloseSnapshot \/ CloseNext \/ CloserDone

-----------------------------------------------------------------------------
(* NATS and the server                                                      *)

ServerWrites(r, f, state) ==
  /\ Len(responses[r]) < WireCap
  /\ responses' = [responses EXCEPT ![r] = Append(@, f)]
  /\ server' = [server EXCEPT ![r] = state]
  /\ UNCHANGED <<requests, lost, clientVars, doneVars, readVars, endErr, app, loopVars>>

\* Begin, Data and End answer a Call; Pongs answer Pings, after End too.
Serving(r) == app[r].sends > 0 /\ server[r].ended = "no"

ServerBegins(r) ==
  /\ Serving(r) /\ ~server[r].begun
  /\ ServerWrites(r, Frame("Begin", 0), [server[r] EXCEPT !.begun = TRUE])

ServerSends(r) ==
  /\ Serving(r) /\ server[r].begun /\ server[r].data < MaxData
  /\ ServerWrites(r, Frame("Data", server[r].data + 1), [server[r] EXCEPT !.data = @ + 1])

ServerEnds(r) ==
  /\ Serving(r) /\ server[r].begun
  /\ \E t \in {"EndOK", "EndErr"} : ServerWrites(r, Frame(t, 0), [server[r] EXCEPT !.ended = t])

ServerPongs(r) ==
  /\ server[r].pongs < pinger[r].pings
  /\ ServerWrites(r, Frame("Pong", 0), [server[r] EXCEPT !.pongs = @ + 1])

ServerStep(r) == ServerBegins(r) \/ ServerSends(r) \/ ServerEnds(r) \/ ServerPongs(r)

\* NATS hands a frame to the channel of the subscription, or drops it when the
\* channel is full; a frame for an inbox without subscription disappears.
Deliver(r) ==
  /\ responses[r] # <<>>
  /\ responses' = [responses EXCEPT ![r] = Tail(@)]
  /\ IF subscribed[r] /\ Len(msgCh[r]) < MsgCap
       THEN msgCh' = [msgCh EXCEPT ![r] = Append(@, Head(responses[r]))] /\ UNCHANGED lost
       ELSE lost' = [lost EXCEPT ![r] = @ \/ subscribed[r]] /\ UNCHANGED msgCh
  /\ UNCHANGED <<requests, server, clientVars, doneVars, recv, recvClosed, lastErr, reader,
                 endErr, app, loopVars>>

-----------------------------------------------------------------------------
App(r) ==
  \/ NewClientStream(r) \/ EnterStream(r) \/ SendMsgChecks(r) \/ SendMsgWrites(r)
  \/ CloseSend(r) \/ RecvMsgData(r) \/ RecvMsgEOF(r) \/ RecvMsgCtxDone(r) \/ CallerCtxDone(r)

Client ==
  \/ \E r \in Replies : App(r) \/ ReadMsg(r) \/ Watcher(r) \/ Monitor(r) \/ PingLoop(r)
  \/ Close

Environment == \E r \in Replies : ServerStep(r) \/ Deliver(r)

Next == Client \/ Environment

Spec == Init /\ [][Next]_vars

\* The goroutines of the package run; the caller and the server promise nothing,
\* and the monitor may never fire.
Fairness ==
  /\ \A r \in Replies :
       /\ WF_vars(ReadMsg(r)) /\ WF_vars(Watcher(r))
       /\ WF_vars(MonitorWritesEnd(r) \/ MonitorDone(r) \/ MonitorExit(r))
  /\ WF_vars(CloseNext \/ CloserDone)

FairSpec == Spec /\ Fairness

-----------------------------------------------------------------------------
(* Properties                                                               *)

\* Every variable keeps its type, and channels their capacity.
TypeOK ==
  /\ requests \in [Replies -> SUBSET Request]
  /\ responses \in [Replies -> Seq(Response)]
  /\ server \in [Replies -> [begun : BOOLEAN, data : 0..MaxData, pongs : 0..MaxPings,
                             ended : {"no", "EndOK", "EndErr"}]]
  /\ lost \in [Replies -> BOOLEAN]
  /\ streams \subseteq Replies /\ mu \in BOOLEAN
  /\ closer \in [pc : {"none", "next", "returned"} \cup Teardown,
                 left : SUBSET Replies, at : Replies]
  /\ app \in [Replies -> [pc : {"none", "made", "open", "sending"}, sends : 0..MaxCalls,
                          half : BOOLEAN, got : Seq(0..MaxData),
                          result : {"none", "EOF", "Status", "Undecodable"} \cup ContextError,
                          late : BOOLEAN]]
  /\ ctx \in [Replies -> {"live"} \cup ContextError]
  /\ closed \in [Replies -> BOOLEAN] /\ endOnce \in [Replies -> BOOLEAN]
  /\ endErr \in [Replies -> {"nil", "Status", "Unavailable"}]
  /\ lastErr \in [Replies -> {"nil", "Status", "Undecodable"}]
  /\ events \in [Replies -> Seq({"Begin", "nil", "Status", "Unavailable"})]
  /\ subscribed \in [Replies -> BOOLEAN]
  /\ msgCh \in [Replies -> Seq(Response)] /\ \A r \in Replies : Len(msgCh[r]) <= MsgCap
  /\ msgClosed \in [Replies -> BOOLEAN]
  /\ recv \in [Replies -> Seq(0..MaxData)] /\ \A r \in Replies : Len(recv[r]) <= RecvCap
  /\ recvClosed \in [Replies -> BOOLEAN]
  /\ reader \in [Replies -> [pc : {"none", "idle", "push", "fail", "exited"} \cup Teardown,
                             n : 0..MaxData, err : {"nil", "Status", "Undecodable"}]]
  /\ watcher \in [Replies -> {"none", "waiting", "exited"} \cup Teardown]
  /\ monitor \in [Replies -> {"none", "running", "writeEnd", "exited"} \cup Teardown]
  /\ pinger \in [Replies -> [pc : {"none", "idle", "writing"}, pings : 0..MaxPings]]

\* ReadMsg, the watcher, the monitor and Client.Close may all call done at once,
\* yet nobody gets to close heartbeatStop and msgCh a second time, which panics.
ChannelsClosedOnce == \A r \in Replies :
  msgClosed[r] => /\ "unsub" \notin {reader[r].pc, watcher[r], monitor[r]}
                  /\ ~(closer.pc = "unsub" /\ closer.at = r)

\* A stream reports one End at most, and it is out before done cancels the context
\* and closes the channels: who learns from the stream's own cancel that it is over,
\* the watcher, pingLoop or the app, finds its End reported.  (A receiver may see
\* io.EOF earlier: processEnd closes recv before it calls done.)
EndBeforeTeardown == \A r \in Replies :
  /\ Len(events[r]) <= 2
  /\ ctx[r] = "Canceled" => "Canceled" \in CtxErrors \/ Len(events[r]) = 2
  /\ msgClosed[r] => Len(events[r]) = 2

\* Unless NATS dropped a frame, the caller receives the server's Data from the
\* first one on, in order and without a gap, while streams are cancelled and torn
\* down around it.
ReceivesPrefix == \A r \in Replies :
  ~lost[r] => \A i \in DOMAIN app[r].got : app[r].got[i] = i

\* EOF is never early: the server ended with OK and, unless NATS dropped a frame,
\* the caller has received every Data frame the server sent.
EOFMeansComplete == \A r \in Replies :
  app[r].result = "EOF" =>
    server[r].ended = "EndOK" /\ (lost[r] \/ Len(app[r].got) = server[r].data)

\* What ends a stream is what happened: a status comes from the server's End, and
\* the stats error Unavailable from the monitor, which tells the server.
OutcomeHasCause == \A r \in Replies :
  /\ app[r].result = "Status" => server[r].ended = "EndErr"
  /\ \A i \in DOMAIN events[r] :
       /\ events[r][i] = "Status" => server[r].ended = "EndErr"
       /\ events[r][i] = "Unavailable" =>
            monitor[r] = "writeEnd" \/ \E f \in requests[r] : f.type = "EndErr"

\* done removes the entry of its stream, keyed by reply: once nobody is in done any
\* more the entry is gone, unless the stream was closed before it was entered.
EntryRemoved == \A r \in Replies :
  /\ closed[r] /\ {reader[r].pc, watcher[r], monitor[r]} \cap Teardown = {}
  /\ ~(closer.pc \in Teardown /\ closer.at = r)
  => r \notin streams \/ app[r].late

\* "Universal teardown trigger": whatever the caller does, a stream whose context
\* is done, by its caller or by the stream itself, ends with its End reported, its
\* subscription gone, and every goroutine over but a reader that holds Data nobody
\* receives; Client.Close, which may be in its done, is not stuck there on mu.
ContextEndsStream == \A r \in Replies :
  ctx[r] # "live" /\ app[r].pc # "none" ~>
    /\ Len(events[r]) = 2 /\ ~subscribed[r]
    /\ watcher[r] = "exited" /\ monitor[r] \in {"none", "exited"}
    /\ reader[r].pc = "exited" \/ (reader[r].pc = "push" /\ Len(recv[r]) = RecvCap)
    /\ ~(closer.pc \in Teardown /\ closer.at = r)

\* "Stream is closed with gRPC status: codes.Unavailable" (HEARTBEAT.md) and "full
\* close happens via Recv -> EOF" (CloseSend): where no caller cancels and Close is
\* not called, no receiver is told that its stream was cancelled.
NobodyCancelled == \A r \in Replies :
  CtxErrors = {} /\ closer.pc = "none" => app[r].result # "Canceled"
=============================================================================
