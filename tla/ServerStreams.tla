---------------------------- MODULE ServerStreams ----------------------------
(***************************************************************************)
(* The streaming half of pkg/rpc/server.go: Server.onMessage, which finds   *)
(* or creates the serverStream of a reply inbox; the per-stream worker      *)
(* goroutine runInbox; the goroutine of the user's handler; finalize, the   *)
(* shared teardown; Server.Stop and Server.CloseStream.                     *)
(*                                                                          *)
(* A stream object is a pair <<reply, generation>>: a late frame on a reply *)
(* inbox whose stream was already removed makes onMessage create a second   *)
(* object under the same key, and the goroutines of the first may still be  *)
(* running.  The map Server.streams is streams[reply], the generation of    *)
(* the entry, 0 when there is none.                                         *)
(*                                                                          *)
(* Every step is one access to state another goroutine shares, so the pc of *)
(* a goroutine names the code it is about to run.  The three parts of       *)
(* finalize (endOnce.Do, cancel, remove) are three steps.                   *)
(*                                                                          *)
(* requests[r] and responses[r] are the NATS subjects between a caller and  *)
(* this server: one publisher each, so order is kept.                       *)
(***************************************************************************)
EXTENDS Naturals, Sequences

CONSTANTS
  Replies,    \* reply inboxes, one per clientStream of the callers
  InboxCap,   \* capacity of serverStream.inbox (8192)
  RecvCap,    \* capacity of the recv channel (1)
  MaxAdmin,   \* bound: calls of Server.Stop and Server.CloseStream, one of each at most
  MaxGen,     \* bound: stream objects per reply
  MaxFrames,  \* bound: frames a caller publishes
  MaxSends,   \* bound: SendMsg calls of one handler
  WireCap     \* bound: frames in flight to the server per reply

ASSUME ServerAssumption ==
  /\ Replies # {}
  /\ InboxCap \in Nat \ {0} /\ RecvCap \in Nat \ {0}
  /\ MaxGen \in Nat \ {0} /\ WireCap \in Nat \ {0}
  /\ MaxFrames \in Nat /\ MaxSends \in Nat /\ MaxAdmin \in Nat

Stream == Replies \X (1..MaxGen)
Reply(s) == s[1]
Gen(s) == s[2]
AnyStream == CHOOSE s \in Stream : TRUE

\* nrpc.Request and nrpc.Response; n numbers the Data frames of one sender.
Frame(t, n) == [type |-> t, n |-> n]
NoFrame == Frame("Ping", 0)
Request == [type : {"Call", "Data", "EndOK", "EndErr", "Ping"}, n : Nat]
Response == [type : {"Begin", "Data", "EndOK", "EndErr", "Pong"}, n : Nat]

VARIABLES
  kind,        \* per reply: the entry its subject has in Server.handlers, fixed
  \* the callers and the wire
  caller,      \* per reply: what its clientStream has published so far
  requests,    \* per reply: frames published and not yet dispatched
  responses,   \* per reply: frames the server published
  \* Server
  streams,     \* Server.streams
  gen,         \* per reply: stream objects created
  subscribed,  \* the service subscription is in place
  serverDone,  \* Server.ctx is cancelled
  dispatcher,  \* the NATS callback goroutine: <<>>, or <<stream, frame>> in enqueue
  stopper,     \* the goroutine in Server.Stop: its pc, the snapshot left, the stream at hand
  closer,      \* the goroutine in Server.CloseStream: the same, over the keys left
  \* serverStream, per object
  ctxDone, inbox, recv, recvClosed, hasBegun,
  beginOnce, statsBegun, endOnce,
  events,      \* stats events emitted for the object: Begin and End
  worker,      \* the runInbox goroutine: its pc and the frame it processes
  handler,     \* the handler goroutine: its pc, SendMsg calls, what RecvMsg returned
  snapBegun    \* history: objects Stop found in the map with statsBegun set

wireVars == <<kind, caller, requests, responses>>
adminVars == <<serverDone, subscribed, stopper, closer, snapBegun>>
frameVars == <<gen, dispatcher, inbox, recv, recvClosed>>
statsVars == <<beginOnce, statsBegun, endOnce, events>>
vars == <<wireVars, adminVars, frameVars, statsVars, streams, ctxDone, hasBegun, worker, handler>>

Teardown == {"once", "cancel", "remove"}
WorkerPC == {"none", "idle", "begun", "spawn", "push", "exited"} \cup Teardown
HandlerPC == {"none", "user", "failed", "urecv", "ucheck", "usend", "close", "exited"} \cup Teardown

Kind == {"stream", "unary", "unhandled"}

Init ==
  /\ kind \in [Replies -> Kind]
  /\ caller = [r \in Replies |->
       [called |-> FALSE, half |-> FALSE, aborted |-> FALSE, data |-> 0, frames |-> 0]]
  /\ requests = [r \in Replies |-> <<>>]
  /\ responses = [r \in Replies |-> <<>>]
  /\ streams = [r \in Replies |-> 0]
  /\ gen = [r \in Replies |-> 0]
  /\ subscribed = TRUE /\ serverDone = FALSE
  /\ dispatcher = <<>>
  /\ stopper = [pc |-> "running", left |-> {}, at |-> AnyStream]
  /\ closer = [pc |-> "idle", left |-> {}, at |-> AnyStream]
  /\ ctxDone = [s \in Stream |-> FALSE]
  /\ inbox = [s \in Stream |-> <<>>]
  /\ recv = [s \in Stream |-> <<>>]
  /\ recvClosed = [s \in Stream |-> FALSE]
  /\ hasBegun = [s \in Stream |-> FALSE]
  /\ beginOnce = [s \in Stream |-> FALSE]
  /\ statsBegun = [s \in Stream |-> FALSE]
  /\ endOnce = [s \in Stream |-> FALSE]
  /\ events = [s \in Stream |-> <<>>]
  /\ worker = [s \in Stream |-> [pc |-> "none", frame |-> NoFrame]]
  /\ handler = [s \in Stream |-> [pc |-> "none", sends |-> 0, got |-> <<>>, resume |-> "exited"]]
  /\ snapBegun = {}


-----------------------------------------------------------------------------
(* The callers: what a clientStream (client.go) publishes on the subject of *)
(* its stream.  SendMsg writes Call before the first Data, CloseSend writes  *)
(* End{OK}, the pong monitor's close writes End with an error.  SendMsg     *)
(* does not look at CloseSend, and one that passed its closed check may     *)
(* still publish after the monitor's End.                                   *)

CallerWrites(r, f, state) ==
  /\ Len(requests[r]) < WireCap /\ caller[r].frames < MaxFrames
  /\ requests' = [requests EXCEPT ![r] = Append(@, f)]
  /\ caller' = [caller EXCEPT ![r] = [state EXCEPT !.frames = @ + 1]]
  /\ UNCHANGED <<kind, responses, adminVars, frameVars, statsVars, streams, ctxDone, hasBegun,
                 worker, handler>>

CallerCall(r) ==
  /\ ~caller[r].called
  /\ CallerWrites(r, Frame("Call", 0), [caller[r] EXCEPT !.called = TRUE])

CallerData(r) ==
  /\ caller[r].called
  /\ CallerWrites(r, Frame("Data", caller[r].data + 1), [caller[r] EXCEPT !.data = @ + 1])

CallerCloseSend(r) ==
  /\ ~caller[r].half
  /\ CallerWrites(r, Frame("EndOK", 0), [caller[r] EXCEPT !.half = TRUE])

CallerAborts(r) ==
  /\ ~caller[r].aborted
  /\ CallerWrites(r, Frame("EndErr", 0), [caller[r] EXCEPT !.aborted = TRUE])

CallerPings(r) == CallerWrites(r, Frame("Ping", 0), caller[r])

Caller == \E r \in Replies :
  CallerCall(r) \/ CallerData(r) \/ CallerCloseSend(r) \/ CallerAborts(r) \/ CallerPings(r)

-----------------------------------------------------------------------------
(* Server.onMessage runs on the one dispatcher goroutine of the service's   *)
(* subscription: find or create the stream under mu, then enqueue.          *)

\* Mutant: a stream context that does not derive from the server's.
DetachedContextDone == FALSE

\* newServerStream derives the stream's context from Server.ctx.
StreamContextDone == serverDone

\* The stream is found, or created whatever the type of the frame.
OnMessage(r) ==
  /\ dispatcher = <<>> /\ subscribed /\ requests[r] # <<>>
  /\ requests' = [requests EXCEPT ![r] = Tail(@)]
  /\ \/ /\ streams[r] # 0
        /\ dispatcher' = <<<<r, streams[r]>>, Head(requests[r])>>
        /\ UNCHANGED <<gen, streams, ctxDone, worker>>
     \/ LET s == <<r, gen[r] + 1>> IN
        /\ streams[r] = 0 /\ gen[r] < MaxGen
        /\ gen' = [gen EXCEPT ![r] = @ + 1]
        /\ streams' = [streams EXCEPT ![r] = gen[r] + 1]
        /\ ctxDone' = [ctxDone EXCEPT ![s] = StreamContextDone]
        /\ worker' = [worker EXCEPT ![s].pc = "idle"]
        /\ dispatcher' = <<s, Head(requests[r])>>
  /\ UNCHANGED <<kind, caller, responses, adminVars, inbox, recv, recvClosed, statsVars, hasBegun, handler>>

EnqueueFrame(s, queue) ==
  /\ inbox' = [inbox EXCEPT ![s] = queue]
  /\ dispatcher' = <<>>
  /\ UNCHANGED <<wireVars, adminVars, gen, recv, recvClosed, statsVars, streams, ctxDone,
                 hasBegun, worker, handler>>

\* Mutant: a default case in the select drops the frame that finds the inbox full.
EnqueueDropping ==
  /\ dispatcher # <<>>
  /\ LET s == dispatcher[1] IN
     \/ Len(inbox[s]) < InboxCap /\ EnqueueFrame(s, Append(inbox[s], dispatcher[2]))
     \/ (ctxDone[s] \/ Len(inbox[s]) = InboxCap) /\ EnqueueFrame(s, inbox[s])

\* Mutant: a plain send into the inbox, without the context's case.
EnqueueBlocking ==
  /\ dispatcher # <<>>
  /\ LET s == dispatcher[1] IN
       Len(inbox[s]) < InboxCap /\ EnqueueFrame(s, Append(inbox[s], dispatcher[2]))

\* The select in enqueue: the frame goes in when there is room, is dropped when
\* the context is done, and either may happen when both cases are ready.
Enqueue ==
  /\ dispatcher # <<>>
  /\ LET s == dispatcher[1] IN
     \/ Len(inbox[s]) < InboxCap /\ EnqueueFrame(s, Append(inbox[s], dispatcher[2]))
     \/ ctxDone[s] /\ EnqueueFrame(s, inbox[s])

-----------------------------------------------------------------------------
(* finalize, run by the worker, the handler, Stop or CloseStream            *)

\* Mutant: without endOnce every close path reports its own End.
EndOnceDoAgain(s) ==
  /\ endOnce' = [endOnce EXCEPT ![s] = TRUE]
  /\ events' = IF statsBegun[s] THEN [events EXCEPT ![s] = Append(@, "End")] ELSE events

\* endOnce.Do: stats.End goes out only if statsBegun is seen.
EndOnceDo(s) ==
  /\ endOnce' = [endOnce EXCEPT ![s] = TRUE]
  /\ events' = IF ~endOnce[s] /\ statsBegun[s]
                 THEN [events EXCEPT ![s] = Append(@, "End")] ELSE events

\* Server.remove deletes by reply, whichever object the entry is.
Remove(r) == streams' = [streams EXCEPT ![r] = 0]

Finalize(s, pc) ==
  \/ pc = "once" /\ EndOnceDo(s) /\ UNCHANGED <<ctxDone, streams>>
  \/ pc = "cancel" /\ ctxDone' = [ctxDone EXCEPT ![s] = TRUE] /\ UNCHANGED <<endOnce, events, streams>>
  \/ pc = "remove" /\ Remove(Reply(s)) /\ UNCHANGED <<endOnce, events, ctxDone>>

\* Mutant: the entry goes before the context is cancelled.
AfterStepRemoveFirst(pc, resume) ==
  CASE pc = "once" -> "remove" [] pc = "remove" -> "cancel" [] OTHER -> resume

AfterStep(pc, resume) ==
  CASE pc = "once" -> "cancel" [] pc = "cancel" -> "remove" [] OTHER -> resume

-----------------------------------------------------------------------------
(* runInbox: the worker of one stream                                       *)

Goto(s, pc) == worker' = [worker EXCEPT ![s].pc = pc]

Loop(s) == worker' = [worker EXCEPT ![s] = [pc |-> "idle", frame |-> NoFrame]]

Publish(r, fs) == responses' = [responses EXCEPT ![r] = @ \o fs]

\* A publish whose error nobody looks at: NATS may have refused it.
Unchecked(fs) == {<<>>, fs}

BeginMaybe(s) == IF hasBegun[s] THEN <<>> ELSE <<Frame("Begin", 0)>>

\* close(err): Begin if none was written, then End.
CloseWrites(s, end) ==
  \E begin \in Unchecked(BeginMaybe(s)), sent \in Unchecked(<<end>>) :
    Publish(Reply(s), begin \o sent)

\* The select of runInbox: a done context does not keep it from taking a frame.
\* A frame is taken together with the first step of its processing.
Take(s, t) ==
  /\ worker[s].pc = "idle" /\ inbox[s] # <<>> /\ Head(inbox[s]).type = t
  /\ inbox' = [inbox EXCEPT ![s] = Tail(@)]

Holding(s, pc) == worker' = [worker EXCEPT ![s] = [pc |-> pc, frame |-> Head(inbox[s])]]

WorkerExit(s) ==
  /\ worker[s].pc = "idle" /\ ctxDone[s]
  /\ Goto(s, "exited")
  /\ UNCHANGED <<wireVars, adminVars, frameVars, statsVars, streams, ctxDone, hasBegun, handler>>

\* processCall without an entry in handlers: close(Unimplemented).
ProcessCallUnimplemented(s) ==
  /\ Take(s, "Call") /\ kind[Reply(s)] = "unhandled"
  /\ CloseWrites(s, Frame("EndErr", 0))
  /\ hasBegun' = [hasBegun EXCEPT ![s] = TRUE]
  /\ Goto(s, "once")
  /\ UNCHANGED <<kind, caller, requests, adminVars, gen, dispatcher, recv, recvClosed, statsVars,
                 streams, ctxDone, handler>>

\* beginOnce.Do in statsBegin: Begin goes out first, statsBegun is set after it.
StatsBegin(s, next) ==
  /\ \/ /\ ~beginOnce[s]
        /\ beginOnce' = [beginOnce EXCEPT ![s] = TRUE]
        /\ events' = [events EXCEPT ![s] = Append(@, "Begin")]
        /\ Holding(s, "begun")
     \/ beginOnce[s] /\ Holding(s, next) /\ UNCHANGED <<beginOnce, events>>
  /\ UNCHANGED <<wireVars, adminVars, gen, dispatcher, recv, recvClosed, statsBegun, endOnce,
                 streams, ctxDone, hasBegun, handler>>

ProcessCall(s) == Take(s, "Call") /\ kind[Reply(s)] # "unhandled" /\ StatsBegin(s, "spawn")

SetStatsBegun(s) ==
  /\ worker[s].pc = "begun"
  /\ statsBegun' = [statsBegun EXCEPT ![s] = TRUE]
  /\ Goto(s, IF worker[s].frame.type = "Call" THEN "spawn" ELSE "push")
  /\ UNCHANGED <<wireVars, adminVars, frameVars, beginOnce, endOnce, events, streams, ctxDone,
                 hasBegun, handler>>

\* go handlerFunc(s)
SpawnHandler(s) ==
  /\ worker[s].pc = "spawn"
  /\ handler' = [handler EXCEPT ![s].pc = IF kind[Reply(s)] = "unary" THEN "urecv" ELSE "user"]
  /\ Loop(s)
  /\ UNCHANGED <<wireVars, adminVars, frameVars, statsVars, streams, ctxDone, hasBegun>>

ProcessDataDropped(s) ==
  /\ Take(s, "Data") /\ recvClosed[s]
  /\ UNCHANGED <<wireVars, adminVars, gen, dispatcher, recv, recvClosed, statsVars, streams,
                 ctxDone, hasBegun, worker, handler>>

ProcessData(s) == Take(s, "Data") /\ ~recvClosed[s] /\ StatsBegin(s, "push")

HandOver(s) ==
  /\ recv' = [recv EXCEPT ![s] = Append(@, worker[s].frame.n)]
  /\ Loop(s)
  /\ UNCHANGED <<wireVars, adminVars, gen, dispatcher, inbox, recvClosed, statsVars, streams,
                 ctxDone, hasBegun, handler>>

\* Mutant: a recv channel that does not block.
PushDataUnbounded(s) == worker[s].pc = "push" /\ HandOver(s)

\* recvWrite <- data.Data, which no context interrupts
PushData(s) == worker[s].pc = "push" /\ Len(recv[s]) < RecvCap /\ HandOver(s)

\* processEnd with OK: close the recv channel
ProcessHalfClose(s) ==
  /\ Take(s, "EndOK")
  /\ recvClosed' = [recvClosed EXCEPT ![s] = TRUE]
  /\ UNCHANGED <<wireVars, adminVars, gen, dispatcher, recv, statsVars, streams, ctxDone,
                 hasBegun, worker, handler>>

\* processEnd with an error: finalize
ProcessAbort(s) ==
  /\ Take(s, "EndErr")
  /\ Goto(s, "once")
  /\ UNCHANGED <<wireVars, adminVars, gen, dispatcher, recv, recvClosed, statsVars, streams,
                 ctxDone, hasBegun, handler>>

\* A refused Pong is left out: to its reader it is a Ping that came to nothing.
ProcessPing(s) ==
  /\ Take(s, "Ping")
  /\ Publish(Reply(s), <<Frame("Pong", 0)>>)
  /\ UNCHANGED <<kind, caller, requests, adminVars, gen, dispatcher, recv, recvClosed, statsVars,
                 streams, ctxDone, hasBegun, worker, handler>>

WorkerFinalize(s) ==
  /\ worker[s].pc \in Teardown
  /\ Finalize(s, worker[s].pc)
  /\ IF AfterStep(worker[s].pc, "idle") = "idle" THEN Loop(s)
     ELSE Goto(s, AfterStep(worker[s].pc, "idle"))
  /\ UNCHANGED <<wireVars, adminVars, frameVars, beginOnce, statsBegun, hasBegun, handler>>

Worker(s) ==
  \/ WorkerExit(s) \/ ProcessCallUnimplemented(s) \/ ProcessCall(s)
  \/ SetStatsBegun(s) \/ SpawnHandler(s) \/ ProcessDataDropped(s) \/ ProcessData(s)
  \/ PushData(s) \/ ProcessHalfClose(s) \/ ProcessAbort(s) \/ ProcessPing(s) \/ WorkerFinalize(s)


-----------------------------------------------------------------------------
(* The goroutine of the handler: user code between RecvMsg and SendMsg      *)
(* calls, then the wrapper of serverStreamHandler or serverUnaryHandler.    *)

\* RecvMsg taking a message; its other outcomes change nothing.
HandlerRecv(s) ==
  /\ handler[s].pc = "user" /\ recv[s] # <<>>
  /\ recv' = [recv EXCEPT ![s] = Tail(@)]
  /\ handler' = [handler EXCEPT ![s].got = Append(@, Head(recv[s]))]
  /\ UNCHANGED <<wireVars, adminVars, gen, dispatcher, inbox, recvClosed, statsVars, streams,
                 ctxDone, hasBegun, worker>>

\* SendHeader: Begin goes out once; refused or not, it is not written again.
HandlerSendHeader(s) ==
  /\ handler[s].pc = "user" /\ ~hasBegun[s]
  /\ \E begin \in Unchecked(BeginMaybe(s)) : Publish(Reply(s), begin)
  /\ hasBegun' = [hasBegun EXCEPT ![s] = TRUE]
  /\ UNCHANGED <<kind, caller, requests, adminVars, frameVars, statsVars, streams, ctxDone, worker,
                 handler>>

\* writeData's error is dropped: a Data frame NATS refuses is lost in silence.
SendData(s, next) ==
  /\ \E sent \in Unchecked(<<Frame("Data", handler[s].sends + 1)>>) :
       Publish(Reply(s), BeginMaybe(s) \o sent)
  /\ hasBegun' = [hasBegun EXCEPT ![s] = TRUE]
  /\ handler' = [handler EXCEPT ![s].sends = @ + 1, ![s].pc = next]
  /\ UNCHANGED <<kind, caller, requests, adminVars, frameVars, statsVars, streams, ctxDone, worker>>

\* SendMsg whose Begin is refused: the deferred close(err) writes End (it may be
\* refused too) and finalizes; then SendMsg returns the error to the handler, of
\* which the model assumes that it stops calling SendMsg.
SendFails(s, resume) ==
  /\ ~hasBegun[s]
  /\ hasBegun' = [hasBegun EXCEPT ![s] = TRUE]
  /\ \E sent \in Unchecked(<<Frame("EndErr", 0)>>) : Publish(Reply(s), sent)
  /\ handler' = [handler EXCEPT ![s].pc = "once", ![s].resume = resume]
  /\ UNCHANGED <<kind, caller, requests, adminVars, frameVars, statsVars, streams, ctxDone, worker>>

HandlerSend(s) ==
  /\ handler[s].pc = "user" /\ handler[s].sends < MaxSends
  /\ SendData(s, "user") \/ SendFails(s, "failed")

HandlerStep(s, pc) ==
  /\ handler' = [handler EXCEPT ![s].pc = pc]
  /\ UNCHANGED <<wireVars, adminVars, frameVars, statsVars, streams, ctxDone, hasBegun, worker>>

\* Mutant: close whatever the context says.
HandlerReturnsUnchecked(s) == handler[s].pc \in {"user", "failed"} /\ HandlerStep(s, "close")

\* The handler returns: if s.ctx.Err() == nil { s.close(err) }.
HandlerReturns(s) ==
  /\ handler[s].pc \in {"user", "failed"}
  /\ \/ ctxDone[s] /\ HandlerStep(s, "exited")
     \/ ~ctxDone[s] /\ HandlerStep(s, "close")

\* A unary method called with the streaming protocol: one RecvMsg, which may fail.
UnaryRecv(s) ==
  /\ handler[s].pc = "urecv"
  /\ \/ /\ recv[s] # <<>>
        /\ recv' = [recv EXCEPT ![s] = Tail(@)]
        /\ handler' = [handler EXCEPT ![s].got = Append(@, Head(recv[s])), ![s].pc = "ucheck"]
        /\ UNCHANGED <<wireVars, adminVars, gen, dispatcher, inbox, recvClosed, statsVars,
                       streams, ctxDone, hasBegun, worker>>
     \/ /\ ctxDone[s] \/ (recvClosed[s] /\ recv[s] = <<>>)
        /\ HandlerStep(s, "ucheck")

\* The context is checked before the response is sent, not between it and End.
UnaryCheck(s) ==
  /\ handler[s].pc = "ucheck"
  /\ \/ ctxDone[s] /\ HandlerStep(s, "exited")
     \/ ~ctxDone[s] /\ HandlerStep(s, "close")
     \/ ~ctxDone[s] /\ handler[s].got # <<>> /\ HandlerStep(s, "usend")

UnarySend(s) ==
  /\ handler[s].pc = "usend"
  /\ SendData(s, "close") \/ SendFails(s, "exited")

\* The status of End: a unary handler succeeded exactly if its response went out.
EndFrames(s) ==
  {Frame(t, 0) : t \in IF kind[Reply(s)] = "stream" THEN {"EndOK", "EndErr"}
                       ELSE IF handler[s].sends > 0 THEN {"EndOK"} ELSE {"EndErr"}}

\* close(err), then finalize.
HandlerClose(s) ==
  /\ handler[s].pc = "close"
  /\ \E end \in EndFrames(s) : CloseWrites(s, end)
  /\ hasBegun' = [hasBegun EXCEPT ![s] = TRUE]
  /\ handler' = [handler EXCEPT ![s].pc = "once", ![s].resume = "exited"]
  /\ UNCHANGED <<kind, caller, requests, adminVars, frameVars, statsVars, streams, ctxDone, worker>>

HandlerFinalize(s) ==
  /\ handler[s].pc \in Teardown
  /\ Finalize(s, handler[s].pc)
  /\ handler' = [handler EXCEPT ![s].pc = AfterStep(@, handler[s].resume)]
  /\ UNCHANGED <<wireVars, adminVars, frameVars, beginOnce, statsBegun, hasBegun, worker>>

Handler(s) ==
  \/ HandlerRecv(s) \/ HandlerSendHeader(s) \/ HandlerSend(s) \/ HandlerReturns(s)
  \/ UnaryRecv(s) \/ UnaryCheck(s) \/ UnarySend(s) \/ HandlerClose(s) \/ HandlerFinalize(s)

-----------------------------------------------------------------------------
(* Server.Stop and Server.CloseStream                                       *)

InMap == {s \in Stream : streams[Reply(s)] = Gen(s)}

AdminCalls == (IF stopper.pc = "running" THEN 0 ELSE 1) + (IF closer.pc = "idle" THEN 0 ELSE 1)

StopBegins(found) ==
  /\ AdminCalls < MaxAdmin /\ stopper.pc = "running"
  /\ stopper' = [stopper EXCEPT !.pc = "loop", !.left = found]
  /\ snapBegun' = {s \in InMap : statsBegun[s]}
  /\ UNCHANGED <<wireVars, serverDone, subscribed, closer, frameVars, statsVars, streams,
                 ctxDone, hasBegun, worker, handler>>

\* Mutant: Stop only cancels and unsubscribes.
StopFindsNone == StopBegins({})

StopSnapshot == StopBegins(InMap)

StopNext ==
  /\ stopper.pc = "loop"
  /\ \E s \in stopper.left :
       stopper' = [pc |-> "once", left |-> stopper.left \ {s}, at |-> s]
  /\ UNCHANGED <<wireVars, serverDone, subscribed, closer, snapBegun, frameVars, statsVars,
                 streams, ctxDone, hasBegun, worker, handler>>

StopFinalize ==
  /\ stopper.pc \in Teardown
  /\ Finalize(stopper.at, stopper.pc)
  /\ stopper' = [stopper EXCEPT !.pc = AfterStep(@, "loop"),
                                 !.at = IF AfterStep(stopper.pc, "loop") = "loop" THEN AnyStream ELSE @]
  /\ UNCHANGED <<wireVars, serverDone, subscribed, closer, snapBegun, frameVars, beginOnce,
                 statsBegun, hasBegun, worker, handler>>

\* s.cancel() reaches every stream: their contexts derive from the server's.
StopCancel ==
  /\ stopper.pc = "loop" /\ stopper.left = {}
  /\ stopper' = [stopper EXCEPT !.pc = "cancelled"]
  /\ serverDone' = TRUE
  /\ ctxDone' = [s \in Stream |-> ctxDone[s] \/ Gen(s) <= gen[Reply(s)]]
  /\ UNCHANGED <<wireVars, subscribed, closer, snapBegun, frameVars, statsVars, streams,
                 hasBegun, worker, handler>>

StopUnsubscribe ==
  /\ stopper.pc = "cancelled"
  /\ stopper' = [stopper EXCEPT !.pc = "stopped"]
  /\ subscribed' = FALSE
  /\ UNCHANGED <<wireVars, serverDone, closer, snapBegun, frameVars, statsVars, streams,
                 ctxDone, hasBegun, worker, handler>>

Stop == StopSnapshot \/ StopNext \/ StopFinalize \/ StopCancel \/ StopUnsubscribe

\* CloseStream ranges over the map without mu: an entry removed meanwhile is not
\* visited.  Which streams have the peer nid asked for is open.
CloseStreamBegin ==
  /\ AdminCalls < MaxAdmin /\ closer.pc = "idle"
  /\ closer' = [closer EXCEPT !.pc = "loop", !.left = {Reply(s) : s \in InMap}]
  /\ UNCHANGED <<wireVars, serverDone, subscribed, stopper, snapBegun, frameVars, statsVars,
                 streams, ctxDone, hasBegun, worker, handler>>

CloseStreamNext ==
  /\ closer.pc = "loop"
  /\ \/ \E r \in closer.left :
          \/ closer' = [closer EXCEPT !.left = @ \ {r}]
          \/ /\ streams[r] # 0
             /\ closer' = [pc |-> "once", left |-> closer.left \ {r}, at |-> <<r, streams[r]>>]
     \/ closer.left = {} /\ closer' = [closer EXCEPT !.pc = "closed"]
  /\ UNCHANGED <<wireVars, serverDone, subscribed, stopper, snapBegun, frameVars, statsVars,
                 streams, ctxDone, hasBegun, worker, handler>>

CloseStreamFinalize ==
  /\ closer.pc \in Teardown
  /\ Finalize(closer.at, closer.pc)
  /\ closer' = [closer EXCEPT !.pc = AfterStep(@, "loop"),
                               !.at = IF AfterStep(closer.pc, "loop") = "loop" THEN AnyStream ELSE @]
  /\ UNCHANGED <<wireVars, serverDone, subscribed, stopper, snapBegun, frameVars, beginOnce,
                 statsBegun, hasBegun, worker, handler>>

CloseStream == CloseStreamBegin \/ CloseStreamNext \/ CloseStreamFinalize

-----------------------------------------------------------------------------
Server ==
  \/ \E r \in Replies : OnMessage(r)
  \/ Enqueue
  \/ \E s \in Stream : Worker(s) \/ Handler(s)
  \/ Stop \/ CloseStream

Next == Caller \/ Server

Spec == Init /\ [][Next]_vars

\* Goroutines with a step to take take it; user code promises nothing: a handler
\* need neither receive nor return, and callers need not publish.
Fairness ==
  /\ WF_vars(\E r \in Replies : OnMessage(r)) /\ WF_vars(Enqueue)
  /\ \A s \in Stream :
       /\ WF_vars(Worker(s))
       /\ WF_vars(HandlerClose(s) \/ HandlerFinalize(s) \/ UnaryRecv(s) \/ UnaryCheck(s) \/ UnarySend(s))
  /\ WF_vars(StopNext \/ StopFinalize \/ StopCancel \/ StopUnsubscribe)
  /\ WF_vars(CloseStreamNext \/ CloseStreamFinalize)

FairSpec == Spec /\ Fairness

-----------------------------------------------------------------------------
(* Properties                                                               *)

\* Blocked in processData: the recv channel is full and its reader does not come.
SlowHandler(s) == worker[s].pc = "push" /\ Len(recv[s]) = RecvCap

WireOK ==
  /\ kind \in [Replies -> Kind]
  /\ caller \in [Replies -> [called : BOOLEAN, half : BOOLEAN, aborted : BOOLEAN,
                             data : Nat, frames : Nat]]
  /\ requests \in [Replies -> Seq(Request)]
  /\ responses \in [Replies -> Seq(Response)]

AdminOK ==
  /\ subscribed \in BOOLEAN /\ serverDone \in BOOLEAN
  /\ stopper \in [pc : {"running", "loop", "cancelled", "stopped"} \cup Teardown,
                  left : SUBSET Stream, at : Stream]
  /\ closer \in [pc : {"idle", "loop", "closed"} \cup Teardown,
                 left : SUBSET Replies, at : Stream]
  /\ snapBegun \subseteq Stream

FramesOK ==
  /\ gen \in [Replies -> 0..MaxGen]
  /\ dispatcher = <<>> \/ dispatcher \in Stream \X Request
  /\ inbox \in [Stream -> Seq(Request)] /\ \A s \in Stream : Len(inbox[s]) <= InboxCap
  /\ recv \in [Stream -> Seq(Nat)] /\ \A s \in Stream : Len(recv[s]) <= RecvCap
  /\ recvClosed \in [Stream -> BOOLEAN]

StatsOK ==
  /\ beginOnce \in [Stream -> BOOLEAN]
  /\ statsBegun \in [Stream -> BOOLEAN]
  /\ endOnce \in [Stream -> BOOLEAN]
  /\ events \in [Stream -> Seq({"Begin", "End"})]

StreamsOK ==
  /\ streams \in [Replies -> 0..MaxGen]
  /\ ctxDone \in [Stream -> BOOLEAN]
  /\ hasBegun \in [Stream -> BOOLEAN]

GoroutinesOK ==
  /\ worker \in [Stream -> [pc : WorkerPC, frame : Request]]
  /\ handler \in [Stream -> [pc : HandlerPC, sends : Nat, got : Seq(Nat),
                             resume : {"failed", "exited"}]]

\* Every variable keeps its type, and the inbox and recv channels their capacity.
TypeOK == WireOK /\ AdminOK /\ FramesOK /\ StatsOK /\ StreamsOK /\ GoroutinesOK

\* However the worker, the handler, Stop and CloseStream race to tear a stream
\* down, its stats handler sees at most one Begin, at most one End, and no End
\* without its Begin (statsBegin and finalize).
StatsWellFormed == \A s \in Stream : events[s] \in {<<>>, <<"Begin">>, <<"Begin", "End">>}

NotPong(f) == f.type # "Pong"
IsEnd(f) == f.type \in {"EndOK", "EndErr"}

\* What one caller can read from its reply inbox, Pongs apart: Begin at most
\* once and first, Data in the order the handler sent it, End at most once and
\* last.  This holds across the stream objects a reply may have had, although
\* SendMsg checks nothing and the handler checks its context before close.
ResponseProtocol == \A r \in Replies : \A i, j \in DOMAIN responses[r] :
  LET f == responses[r][i]  g == responses[r][j] IN
    i < j /\ NotPong(f) /\ NotPong(g) =>
      /\ g.type # "Begin" /\ ~IsEnd(f)
      /\ f.type = "Data" /\ g.type = "Data" => f.n < g.n

\* A handler whose stream is not cancelled received the caller's Data from the
\* first one on, in order and with no gap: the per-stream queue of onMessage
\* replaces the goroutine per frame that let Data overtake Call.
HandlerSeesPrefix == \A s \in Stream :
  ~ctxDone[s] => \A i \in DOMAIN handler[s].got : handler[s].got[i] = i

\* Until Stop or CloseStream is called, a handler whose stream is not cancelled owns the map
\* entry of its reply: End, Ping and Stop still reach it.  finalize removes by
\* reply, so a stale teardown of another object could take the entry away.
LiveHandlerReachable == \A s \in Stream :
  stopper.pc = "running" /\ closer.pc = "idle" /\ ~ctxDone[s] /\ handler[s].pc \notin {"none", "exited"}
    => streams[Reply(s)] = Gen(s)

\* When Stop has returned, every stream it found in the map with its Begin
\* recorded has had its End, whichever of its own goroutines tears it down
\* meanwhile.  CloseStream is set apart: its finalize may run between the Begin of
\* statsBegin and statsBegun, and that stream never has an End.
StopEndsBegun ==
  stopper.pc = "stopped" /\ closer.pc = "idle" => \A s \in snapBegun : events[s] = <<"Begin", "End">>

\* "each stream produces exactly one Begin and one End" (the comment on the stats
\* fields of serverStream): a stream that is torn down and whose goroutines are
\* gone has had the End of its Begin.
BeginGetsEnd == \A s \in Stream :
  endOnce[s] /\ worker[s].pc = "exited" /\ handler[s].pc \in {"none", "exited"}
    => events[s] # <<"Begin">>

\* Once the server is stopped every worker goroutine ends, those of streams
\* created while Stop was running too, unless it is blocked handing Data to a
\* handler that does not take it.
WorkersEndAfterStop ==
  stopper.pc = "stopped" ~> \A s \in Stream : worker[s].pc \in {"none", "exited"} \/ SlowHandler(s)

\* onMessage returns, so that the subscription of the service goes on: enqueue
\* never waits for a stream that is finished, only for a slow handler.
DispatcherReturns ==
  dispatcher # <<>> ~> dispatcher = <<>> \/ \E s \in Stream : SlowHandler(s) /\ ~ctxDone[s]

=============================================================================
