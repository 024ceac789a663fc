---------------------------- MODULE SidecarIngress ----------------------------
(***************************************************************************)
(* pkg/sidecar/ingress.go with the registrations of admin_http.go and the   *)
(* Start and Close of sidecar.go: NATS traffic for a local gRPC app.        *)
(*                                                                          *)
(* A lease is one POST /v1/register: its HTTP handler, the registration it  *)
(* opened with its stream subscription (of one service), and the gRPC       *)
(* connection to the app.  A stream subscription has one callback           *)
(* goroutine, the dispatcher.  A stream is named by the reply inbox of its  *)
(* call, and a worker by its lease and its reply; the worker reads frames   *)
(* for the app, its pump publishes what the app sends.  A reply may also    *)
(* belong to a unary call, whose worker is the goroutine of onUnary.        *)
(*                                                                          *)
(* Every access to state that goroutines share is a step of its own: the    *)
(* registration's mutex, streamsMu, a channel, a publish, a gRPC call.      *)
(* gRPC flow control is a rendezvous with the app, which may refuse to read *)
(* for ever.                                                                *)
(***************************************************************************)
EXTENDS Naturals, Sequences

CONSTANTS
  Leases,    \* registrations, all of the same svcid and service
  Replies,   \* reply inboxes of remote calls
  NoLease,
  FrameCap,  \* capacity of streamWorker.frames (64)
  MaxFrames, \* bound: Data and Ping frames a remote caller sends
  MaxUp,     \* bound: messages the app sends on a stream
  WireCap    \* bound: frames waiting at a subscription

ASSUME IngressAssumption ==
  /\ Leases # {} /\ Replies # {} /\ NoLease \notin Leases
  /\ FrameCap \in Nat \ {0} /\ WireCap \in Nat \ {0}
  /\ MaxFrames \in Nat /\ MaxUp \in Nat

Worker == Leases \X Replies
\* The Data of a caller are numbered from 1.
Frame == {f \in [reply : Replies, type : {"Call", "Data", "End", "Ping"}, n : 0..MaxFrames] :
            f.type = "Data" => f.n # 0}
Outcome == {"EOF", "Status", "Canceled", "OK", "Invalid"}
Response == [type : {"Begin", "Data", "End", "Unary"}, n : 0..MaxUp, err : Outcome \cup {"nil"}]
Begin == [type |-> "Begin", n |-> 0, err |-> "nil"]
Data(n) == [type |-> "Data", n |-> n, err |-> "nil"]
End(err) == [type |-> "End", n |-> 0, err |-> err]
Unary(err) == [type |-> "Unary", n |-> 0, err |-> err]

VARIABLES
  \* NATS and the remote callers
  pending,    \* per lease: frames at its subscription the dispatcher has not taken
  responses,  \* history, per reply: what the sidecar published, Pongs left out
  caller,     \* per reply: what its caller has published
  \* Sidecar
  registrations,  \* the registrations in Sidecar.registrations
  streams,    \* Sidecar.streams: the lease whose worker is entered, or NoLease
  closing,    \* Sidecar.Close: its pc, the registrations left, the one it tears down
  \* registration
  lease,      \* the HTTP handler: none, subscribed, held, closing, torn
  teardown,   \* its pc and the streams still to cancel; "none" means not torndown
  streamCtxs, \* the keys of registration.streamCtxs
  dispatcher, \* the callback: its pc, frame, and the lease of the worker it found
  \* streamWorker
  worker,     \* run: its pc, the Data it sends, the outcome it publishes
  ctxDone,    \* its context is cancelled
  frames,
  pump,       \* the goroutine upstream -> NATS: its pc and what it holds
  upDone,     \* the channel: an outcome, or "nil"
  upstream    \* the app's side: what it got, how much it sent, whether it ended

natsVars == <<pending, responses, caller>>
leaseVars == <<registrations, closing, lease, teardown>>
indexVars == <<streams, streamCtxs>>
pumpVars == <<pump, upDone>>
vars == <<natsVars, leaseVars, indexVars, dispatcher, worker, ctxDone, frames, pumpVars, upstream>>

Init ==
  /\ pending = [g \in Leases |-> <<>>]
  /\ responses = [r \in Replies |-> <<>>]
  /\ caller \in [Replies -> {[kind |-> k, called |-> FALSE, data |-> 0, pings |-> 0,
                               ended |-> FALSE] : k \in {"stream", "unary"}}]
  /\ registrations = {}
  /\ streams = [r \in Replies |-> NoLease]
  /\ closing = [pc |-> "none", left |-> {}, at |-> NoLease]
  /\ lease = [g \in Leases |-> "none"]
  /\ teardown = [g \in Leases |-> [pc |-> "none", cancels |-> {}]]
  /\ streamCtxs = [g \in Leases |-> {}]
  /\ dispatcher = [g \in Leases |-> [pc |-> "idle", frame |-> <<>>, at |-> NoLease]]
  /\ worker = [w \in Worker |-> [pc |-> "none", n |-> 0, err |-> "nil"]]
  /\ ctxDone = [w \in Worker |-> FALSE]
  /\ frames = [w \in Worker |-> <<>>]
  /\ pump = [w \in Worker |-> [pc |-> "none", n |-> 0]]
  /\ upDone = [w \in Worker |-> "nil"]
  /\ upstream = [w \in Worker |-> [got |-> <<>>, sent |-> 0, half |-> FALSE, ended |-> "no"]]

NatsUp == closing.pc # "returned"
Torndown(g) == teardown[g].pc # "none"
Subscribed(g) == NatsUp /\ lease[g] # "none" /\ teardown[g].pc \in {"none", "unsubscribe"}
ConnOpen(g) == teardown[g].pc # "done"

\* A publish on a closed connection fails, and its error is dropped.
Publish(r, m) == responses' = [responses EXCEPT ![r] = IF NatsUp THEN Append(@, m) ELSE @]

-----------------------------------------------------------------------------
(* Remote callers: clientStream and invokeOnSubject of pkg/rpc              *)

\* Every subscription on the subject gets a copy, no queue group.
Send(r, t, n) ==
  /\ \A g \in Leases : Subscribed(g) => Len(pending[g]) < WireCap
  /\ pending' = [g \in Leases |->
       IF Subscribed(g) THEN Append(pending[g], [reply |-> r, type |-> t, n |-> n])
       ELSE pending[g]]
  /\ UNCHANGED <<responses, leaseVars, indexVars, dispatcher, worker, ctxDone, frames,
                 pumpVars, upstream>>

CallerCalls(r) ==
  /\ caller[r].kind = "stream" /\ ~caller[r].called /\ ~caller[r].ended
  /\ caller' = [caller EXCEPT ![r].called = TRUE]
  /\ Send(r, "Call", 0)

CallerSendsData(r) ==
  /\ caller[r].kind = "stream" /\ caller[r].called /\ ~caller[r].ended
  /\ caller[r].data + caller[r].pings < MaxFrames
  /\ caller' = [caller EXCEPT ![r].data = @ + 1]
  /\ Send(r, "Data", caller[r].data + 1)

\* CloseSend and close(err) differ in the End's status, which run does not read.
CallerEnds(r) ==
  /\ caller[r].kind = "stream" /\ ~caller[r].ended
  /\ caller' = [caller EXCEPT ![r].ended = TRUE]
  /\ Send(r, "End", 0)

CallerPings(r) ==
  /\ caller[r].kind = "stream" /\ caller[r].data + caller[r].pings < MaxFrames
  /\ caller' = [caller EXCEPT ![r].pings = @ + 1]
  /\ Send(r, "Ping", 0)

\* onUnary runs in a goroutine per request; NATS picks one of the queue group.
CallerRequests(r) ==
  /\ caller[r].kind = "unary" /\ ~caller[r].called
  /\ caller' = [caller EXCEPT ![r].called = TRUE]
  /\ \/ \E g \in Leases :
          /\ Subscribed(g)
          /\ \/ worker' = [worker EXCEPT ![<<g, r>>].pc = "invoke"]
             \/ worker' = [worker EXCEPT ![<<g, r>>] = [pc |-> "respond", n |-> 0, err |-> "Invalid"]]
     \/ (\A g \in Leases : ~Subscribed(g)) /\ UNCHANGED worker
  /\ UNCHANGED <<pending, responses, leaseVars, indexVars, dispatcher, ctxDone, frames,
                 pumpVars, upstream>>

Caller(r) ==
  CallerCalls(r) \/ CallerSendsData(r) \/ CallerEnds(r) \/ CallerPings(r) \/ CallerRequests(r)

-----------------------------------------------------------------------------
(* The dispatcher: onStreamFrame and ensureStreamWorker                     *)

DispatcherOnly == UNCHANGED <<caller, leaseVars, pumpVars>>

\* The check under the registration's mutex: no registration any more, a known
\* stream, the Call of a new one, or a frame to drop.
OnStreamFrame(g) == LET f == Head(pending[g]) IN
  /\ dispatcher[g].pc = "idle" /\ Subscribed(g) /\ pending[g] # <<>>
  /\ pending' = [pending EXCEPT ![g] = Tail(@)]
  /\ dispatcher' = [dispatcher EXCEPT ![g].frame = f, ![g].pc =
       IF Torndown(g) \/ (f.reply \notin streamCtxs[g] /\ f.type # "Call") THEN "idle"
       ELSE IF f.reply \in streamCtxs[g] THEN "lookup" ELSE "create"]
  /\ DispatcherOnly
  /\ UNCHANGED <<responses, indexVars, worker, ctxDone, frames, upstream>>

\* Sidecar.streams is another map under another mutex.
FindWorker(g) == LET found == streams[dispatcher[g].frame.reply] IN
  /\ dispatcher[g].pc = "lookup"
  /\ dispatcher' = [dispatcher EXCEPT ![g].at = found,
                                      ![g].pc = IF found = NoLease THEN "idle" ELSE "put"]
  /\ DispatcherOnly
  /\ UNCHANGED <<pending, responses, indexVars, worker, ctxDone, frames, upstream>>

\* NewStream: the app may be out of reach at any time, and is once conn is closed.
NewStream(g) ==
  /\ dispatcher[g].pc = "create"
  /\ \/ /\ ConnOpen(g)
        /\ dispatcher' = [dispatcher EXCEPT ![g].pc = "add", ![g].at = g]
        /\ UNCHANGED responses
     \/ /\ dispatcher' = [dispatcher EXCEPT ![g].pc = "idle"]
        /\ Publish(dispatcher[g].frame.reply, End("Status"))
  /\ DispatcherOnly
  /\ UNCHANGED <<pending, indexVars, worker, ctxDone, frames, upstream>>

\* Mutant: addStream does not look at torndown.
AddStreamUnchecked(g) == LET r == dispatcher[g].frame.reply IN
  /\ dispatcher[g].pc = "add"
  /\ dispatcher' = [dispatcher EXCEPT ![g].pc = "index"]
  /\ streamCtxs' = [streamCtxs EXCEPT ![g] = @ \cup {r}] /\ UNCHANGED ctxDone
  /\ DispatcherOnly
  /\ UNCHANGED <<pending, responses, streams, worker, frames, upstream>>

AddStream(g) == LET r == dispatcher[g].frame.reply IN
  /\ dispatcher[g].pc = "add"
  /\ dispatcher' = [dispatcher EXCEPT ![g].pc = "index"]
  /\ \/ Torndown(g) /\ ctxDone' = [ctxDone EXCEPT ![<<g, r>>] = TRUE] /\ UNCHANGED streamCtxs
     \/ ~Torndown(g) /\ streamCtxs' = [streamCtxs EXCEPT ![g] = @ \cup {r}] /\ UNCHANGED ctxDone
  /\ DispatcherOnly
  /\ UNCHANGED <<pending, responses, streams, worker, frames, upstream>>

IndexWorker(g) ==
  /\ dispatcher[g].pc = "index"
  /\ dispatcher' = [dispatcher EXCEPT ![g].pc = "begin"]
  /\ streams' = [streams EXCEPT ![dispatcher[g].frame.reply] = g]
  /\ DispatcherOnly
  /\ UNCHANGED <<pending, responses, streamCtxs, worker, ctxDone, frames, upstream>>

\* publishBegin, then go w.run(), which starts the pump.
StartWorker(g) == LET r == dispatcher[g].frame.reply IN
  /\ dispatcher[g].pc = "begin"
  /\ dispatcher' = [dispatcher EXCEPT ![g].pc = "put"]
  /\ Publish(r, Begin)
  /\ worker' = [worker EXCEPT ![<<g, r>>].pc = "select"]
  /\ pump' = [pump EXCEPT ![<<g, r>>].pc = "recv"]
  /\ UNCHANGED <<pending, caller, leaseVars, indexVars, ctxDone, frames, upDone, upstream>>

\* Mutant: the channel's bound is ignored, every frame is taken at once.
PutFrameUnbounded(g) == LET w == <<dispatcher[g].at, dispatcher[g].frame.reply>> IN
  /\ dispatcher[g].pc = "put"
  /\ frames' = [frames EXCEPT ![w] = Append(@, dispatcher[g].frame)]
  /\ dispatcher' = [dispatcher EXCEPT ![g].pc = "idle"]
  /\ DispatcherOnly
  /\ UNCHANGED <<pending, responses, indexVars, worker, ctxDone, upstream>>

\* Mutant: the select has a default case and a full channel drops the frame.
PutFrameDropping(g) == LET w == <<dispatcher[g].at, dispatcher[g].frame.reply>> IN
  /\ dispatcher[g].pc = "put"
  /\ frames' = [frames EXCEPT ![w] =
       IF Len(@) < FrameCap THEN Append(@, dispatcher[g].frame) ELSE @]
  /\ dispatcher' = [dispatcher EXCEPT ![g].pc = "idle"]
  /\ DispatcherOnly
  /\ UNCHANGED <<pending, responses, indexVars, worker, ctxDone, upstream>>

\* The select of onStreamFrame: room in the channel, or the worker's context done.
PutFrame(g) == LET w == <<dispatcher[g].at, dispatcher[g].frame.reply>> IN
  /\ dispatcher[g].pc = "put"
  /\ \/ Len(frames[w]) < FrameCap /\ frames' = [frames EXCEPT ![w] = Append(@, dispatcher[g].frame)]
     \/ ctxDone[w] /\ UNCHANGED frames
  /\ dispatcher' = [dispatcher EXCEPT ![g].pc = "idle"]
  /\ DispatcherOnly
  /\ UNCHANGED <<pending, responses, indexVars, worker, ctxDone, upstream>>

Dispatcher(g) ==
  \/ OnStreamFrame(g) \/ FindWorker(g) \/ NewStream(g) \/ AddStream(g) \/ IndexWorker(g)
  \/ StartWorker(g) \/ PutFrame(g)

-----------------------------------------------------------------------------
(* streamWorker.run and its pump, with the app at the other end             *)

UpstreamLive(w) == ~ctxDone[w] /\ ConnOpen(w[1]) /\ upstream[w].ended = "no"

WorkerOnly == UNCHANGED <<pending, caller, leaseVars, dispatcher>>

\* Mutant: run publishes the End right after CloseSend.
WorkerTakesNoDrain(w) == LET f == Head(frames[w]) IN
  /\ worker[w].pc = "select" /\ frames[w] # <<>>
  /\ frames' = [frames EXCEPT ![w] = Tail(@)]
  /\ worker' = [worker EXCEPT ![w] =
       CASE f.type = "Data" -> [pc |-> "send", n |-> f.n, err |-> "nil"]
         [] f.type = "End"  -> [pc |-> "end", n |-> 0, err |-> "EOF"]
         [] OTHER           -> @]
  /\ upstream' = [upstream EXCEPT ![w].half = @ \/ f.type = "End"]
  /\ WorkerOnly /\ UNCHANGED <<responses, indexVars, ctxDone, pumpVars>>

\* Mutant: run returns after CloseSend and leaves the End to the pump.
WorkerTakesReturns(w) == LET f == Head(frames[w]) IN
  /\ worker[w].pc = "select" /\ frames[w] # <<>>
  /\ frames' = [frames EXCEPT ![w] = Tail(@)]
  /\ worker' = [worker EXCEPT ![w] =
       CASE f.type = "Data" -> [pc |-> "send", n |-> f.n, err |-> "nil"]
         [] f.type = "End"  -> [pc |-> "remove", n |-> 0, err |-> "nil"]
         [] OTHER           -> @]
  /\ upstream' = [upstream EXCEPT ![w].half = @ \/ f.type = "End"]
  /\ WorkerOnly /\ UNCHANGED <<responses, indexVars, ctxDone, pumpVars>>

\* The select takes a frame. A known Call is ignored, and a Pong is not recorded.
WorkerTakes(w) == LET f == Head(frames[w]) IN
  /\ worker[w].pc = "select" /\ frames[w] # <<>>
  /\ frames' = [frames EXCEPT ![w] = Tail(@)]
  /\ worker' = [worker EXCEPT ![w] =
       CASE f.type = "Data" -> [pc |-> "send", n |-> f.n, err |-> "nil"]
         [] f.type = "End"  -> [@ EXCEPT !.pc = "drain"]
         [] OTHER           -> @]
  /\ upstream' = [upstream EXCEPT ![w].half = @ \/ f.type = "End"]
  /\ WorkerOnly /\ UNCHANGED <<responses, indexVars, ctxDone, pumpVars>>

WorkerCancelled(w) ==
  /\ worker[w].pc = "select" /\ ctxDone[w]
  /\ worker' = [worker EXCEPT ![w].pc = "remove"]
  /\ WorkerOnly /\ UNCHANGED <<responses, indexVars, ctxDone, frames, pumpVars, upstream>>

\* SendMsg on an upstream stream that is over: the error is dropped.
WorkerSendFails(w) ==
  /\ worker[w].pc = "send" /\ ~UpstreamLive(w)
  /\ worker' = [worker EXCEPT ![w].pc = "select", ![w].n = 0]
  /\ WorkerOnly /\ UNCHANGED <<responses, indexVars, ctxDone, frames, pumpVars, upstream>>

\* After CloseSend run waits for upDone and for nothing else.
WorkerSeesEnd(w) ==
  /\ worker[w].pc \in {"select", "drain"} /\ upDone[w] # "nil"
  /\ worker' = [worker EXCEPT ![w].pc = "end", ![w].err = upDone[w]]
  /\ upDone' = [upDone EXCEPT ![w] = "nil"]
  /\ WorkerOnly /\ UNCHANGED <<responses, indexVars, ctxDone, frames, pump, upstream>>

WorkerPublishesEnd(w) ==
  /\ worker[w].pc = "end"
  /\ worker' = [worker EXCEPT ![w].pc = "remove", ![w].err = "nil"]
  /\ Publish(w[2], End(worker[w].err))
  /\ WorkerOnly /\ UNCHANGED <<indexVars, ctxDone, frames, pumpVars, upstream>>

WorkerRemoves(w) ==
  /\ worker[w].pc = "remove"
  /\ worker' = [worker EXCEPT ![w].pc = "delete"]
  /\ streamCtxs' = [streamCtxs EXCEPT ![w[1]] = @ \ {w[2]}]
  /\ WorkerOnly /\ UNCHANGED <<responses, streams, ctxDone, frames, pumpVars, upstream>>

WorkerDeletes(w) ==
  /\ worker[w].pc = "delete"
  /\ worker' = [worker EXCEPT ![w].pc = "cancel"]
  /\ streams' = [streams EXCEPT ![w[2]] = NoLease]
  /\ WorkerOnly /\ UNCHANGED <<responses, streamCtxs, ctxDone, frames, pumpVars, upstream>>

WorkerCancels(w) ==
  /\ worker[w].pc = "cancel"
  /\ worker' = [worker EXCEPT ![w].pc = "gone"]
  /\ ctxDone' = [ctxDone EXCEPT ![w] = TRUE]
  /\ WorkerOnly /\ UNCHANGED <<responses, indexVars, frames, pumpVars, upstream>>

\* The rest of onUnary: Invoke ends when conn is closed, and msg.Respond.
UnaryCancelled(w) ==
  /\ worker[w].pc = "invoke" /\ ~ConnOpen(w[1])
  /\ worker' = [worker EXCEPT ![w].pc = "respond", ![w].err = "Canceled"]
  /\ WorkerOnly /\ UNCHANGED <<responses, indexVars, ctxDone, frames, pumpVars, upstream>>

RespondUnary(w) ==
  /\ worker[w].pc = "respond"
  /\ worker' = [worker EXCEPT ![w].pc = "gone", ![w].err = "nil"]
  /\ Publish(w[2], Unary(worker[w].err))
  /\ WorkerOnly /\ UNCHANGED <<indexVars, ctxDone, frames, pumpVars, upstream>>

RunWorker(w) ==
  \/ WorkerTakes(w) \/ WorkerCancelled(w) \/ WorkerSendFails(w) \/ WorkerSeesEnd(w)
  \/ WorkerPublishesEnd(w) \/ WorkerRemoves(w) \/ WorkerDeletes(w) \/ WorkerCancels(w)
  \/ UnaryCancelled(w) \/ RespondUnary(w)

PumpOnly ==
  UNCHANGED <<pending, caller, leaseVars, indexVars, dispatcher, worker, ctxDone, frames, upstream>>

PumpPublishes(w) ==
  /\ pump[w].pc = "publish"
  /\ pump' = [pump EXCEPT ![w].pc = "recv"]
  /\ Publish(w[2], Data(pump[w].n))
  /\ PumpOnly /\ UNCHANGED upDone

\* RecvMsg returns how the app ended the stream, or that it was cancelled.
PumpEnds(w) ==
  /\ pump[w].pc = "recv"
  /\ pump' = [pump EXCEPT ![w].pc = "done"]
  /\ \E err \in {upstream[w].ended} \cup IF ctxDone[w] \/ ~ConnOpen(w[1]) THEN {"Canceled"} ELSE {} :
       err # "no" /\ upDone' = [upDone EXCEPT ![w] = err]
  /\ PumpOnly /\ UNCHANGED responses

Pump(w) == PumpPublishes(w) \/ PumpEnds(w)

AppOnly == UNCHANGED <<natsVars, leaseVars, indexVars, dispatcher, ctxDone, frames, upDone>>

AppReceives(w) ==
  /\ worker[w].pc = "send" /\ UpstreamLive(w)
  /\ upstream' = [upstream EXCEPT ![w].got = Append(@, worker[w].n)]
  /\ worker' = [worker EXCEPT ![w].pc = "select", ![w].n = 0]
  /\ AppOnly /\ UNCHANGED pump

AppSends(w) ==
  /\ pump[w].pc = "recv" /\ UpstreamLive(w) /\ upstream[w].sent < MaxUp
  /\ upstream' = [upstream EXCEPT ![w].sent = @ + 1]
  /\ pump' = [pump EXCEPT ![w] = [pc |-> "publish", n |-> upstream[w].sent + 1]]
  /\ AppOnly /\ UNCHANGED worker

AppEnds(w) ==
  /\ pump[w].pc \in {"recv", "publish"} /\ UpstreamLive(w)
  /\ \E err \in {"EOF", "Status"} : upstream' = [upstream EXCEPT ![w].ended = err]
  /\ AppOnly /\ UNCHANGED <<worker, pump>>

AppAnswersUnary(w) ==
  /\ worker[w].pc = "invoke" /\ ConnOpen(w[1])
  /\ \E err \in {"OK", "Status"} : worker' = [worker EXCEPT ![w].pc = "respond", ![w].err = err]
  /\ AppOnly /\ UNCHANGED <<pump, upstream>>

App(w) == AppReceives(w) \/ AppSends(w) \/ AppEnds(w) \/ AppAnswersUnary(w)

-----------------------------------------------------------------------------
(* handleHTTPRegister and the registration it opens                         *)

LeaseOnly ==
  UNCHANGED <<responses, caller, streams, dispatcher, worker, frames, pumpVars, upstream>>

\* openIngress: the subscriptions of the service, or the failure of one of them.
OpenIngress(g) ==
  /\ lease[g] = "none" /\ NatsUp
  /\ lease' = [lease EXCEPT ![g] = "subscribed"]
  /\ LeaseOnly
  /\ UNCHANGED <<pending, streamCtxs, registrations, closing, teardown, ctxDone>>

SubscribeFails(g) ==
  /\ lease[g] = "subscribed"
  /\ lease' = [lease EXCEPT ![g] = "closing"]
  /\ LeaseOnly
  /\ UNCHANGED <<pending, streamCtxs, registrations, closing, teardown, ctxDone>>

OpenRegisters(g) ==
  /\ lease[g] = "subscribed"
  /\ lease' = [lease EXCEPT ![g] = "held"]
  /\ registrations' = registrations \cup {g}
  /\ LeaseOnly /\ UNCHANGED <<pending, streamCtxs, closing, teardown, ctxDone>>

\* closeIngress, whose first step is under Sidecar.mu.
CloseIngress(g) ==
  /\ lease[g] = "held"
  /\ lease' = [lease EXCEPT ![g] = "closing"]
  /\ registrations' = registrations \ {g}
  /\ LeaseOnly /\ UNCHANGED <<pending, streamCtxs, closing, teardown, ctxDone>>

\* The two cases of the handler's select: the app's connection is gone, or done.
LeaseEnds(g) == CloseIngress(g)
HandlerNeverStops(g) == FALSE \* Mutant: the handler's select has no case for done.
HandlerStops(g) == closing.pc # "none" /\ CloseIngress(g)

\* teardown, whoever calls it: only the first call does anything.
Teardown(g) ==
  IF Torndown(g) THEN UNCHANGED <<teardown, streamCtxs>>
  ELSE /\ teardown' = [teardown EXCEPT ![g] = [pc |-> "unsubscribe", cancels |-> streamCtxs[g]]]
       /\ streamCtxs' = [streamCtxs EXCEPT ![g] = {}]

HandlerTeardown(g) ==
  /\ lease[g] = "closing"
  /\ lease' = [lease EXCEPT ![g] = "torn"]
  /\ Teardown(g)
  /\ LeaseOnly /\ UNCHANGED <<pending, registrations, closing, ctxDone>>

\* Unsubscribe drops what waits at the subscription, not the callback that runs.
Unsubscribe(g) ==
  /\ teardown[g].pc = "unsubscribe"
  /\ teardown' = [teardown EXCEPT ![g].pc = "cancel"]
  /\ pending' = [pending EXCEPT ![g] = <<>>]
  /\ LeaseOnly /\ UNCHANGED <<streamCtxs, registrations, closing, lease, ctxDone>>

CancelStream(g) ==
  /\ teardown[g].pc = "cancel"
  /\ \E r \in teardown[g].cancels :
       /\ teardown' = [teardown EXCEPT ![g].cancels = @ \ {r}]
       /\ ctxDone' = [ctxDone EXCEPT ![<<g, r>>] = TRUE]
  /\ LeaseOnly /\ UNCHANGED <<pending, streamCtxs, registrations, closing, lease>>

CloseConn(g) ==
  /\ teardown[g].pc = "cancel" /\ teardown[g].cancels = {}
  /\ teardown' = [teardown EXCEPT ![g].pc = "done"]
  /\ LeaseOnly /\ UNCHANGED <<pending, streamCtxs, registrations, closing, lease, ctxDone>>

Handler(g) == OpenRegisters(g) \/ HandlerStops(g) \/ HandlerTeardown(g)
TeardownSteps(g) == Unsubscribe(g) \/ CancelStream(g) \/ CloseConn(g)

-----------------------------------------------------------------------------
(* Sidecar.Close                                                            *)

CloseOnly == UNCHANGED <<natsVars, streams, lease, dispatcher, worker, ctxDone, frames,
                         pumpVars, upstream>>

CloseBegins ==
  /\ closing.pc = "none"
  /\ closing' = [closing EXCEPT !.pc = "snapshot"]
  /\ CloseOnly /\ UNCHANGED <<streamCtxs, registrations, teardown>>

CloseSnapshot ==
  /\ closing.pc = "snapshot"
  /\ closing' = [closing EXCEPT !.pc = "teardown", !.left = registrations]
  /\ registrations' = {}
  /\ CloseOnly /\ UNCHANGED <<streamCtxs, teardown>>

CloseTearsDown(g) ==
  /\ closing.pc = "teardown" /\ closing.at = NoLease /\ g \in closing.left
  /\ closing' = [closing EXCEPT !.left = @ \ {g}, !.at = IF Torndown(g) THEN NoLease ELSE g]
  /\ Teardown(g)
  /\ CloseOnly /\ UNCHANGED registrations

CloseTornDown ==
  /\ closing.pc = "teardown" /\ (closing.at # NoLease \/ closing.left = {})
  /\ closing.at # NoLease => teardown[closing.at].pc = "done"
  /\ closing' = [closing EXCEPT !.at = NoLease, !.pc = IF closing.left = {} THEN "graceful" ELSE @]
  /\ CloseOnly /\ UNCHANGED <<streamCtxs, registrations, teardown>>

\* GracefulStop waits for the egress calls, which end when their callers want;
\* then httpAdminSrv.Close, cli.Close and nc.Close.
CloseReturns ==
  /\ closing.pc = "graceful"
  /\ closing' = [closing EXCEPT !.pc = "returned"]
  /\ pending' = [g \in Leases |-> <<>>]
  /\ UNCHANGED <<responses, caller, indexVars, registrations, lease, teardown, dispatcher,
                 worker, ctxDone, frames, pumpVars, upstream>>

CloseSteps == CloseSnapshot \/ (\E g \in Leases : CloseTearsDown(g)) \/ CloseTornDown

-----------------------------------------------------------------------------
Next ==
  \/ \E r \in Replies : Caller(r)
  \/ \E g \in Leases :
       Dispatcher(g) \/ Handler(g) \/ TeardownSteps(g) \/ OpenIngress(g) \/ SubscribeFails(g) \/ LeaseEnds(g)
  \/ \E w \in Worker : RunWorker(w) \/ Pump(w) \/ App(w)
  \/ CloseBegins \/ CloseSteps \/ CloseReturns

Spec == Init /\ [][Next]_vars

\* Goroutines run, NATS and Unsubscribe answer.  Callers, the app behind the
\* registration, its HTTP connection and whoever calls Close are free.
Fairness ==
  /\ WF_vars(CloseSteps)
  /\ \A g \in Leases :
       WF_vars(Dispatcher(g)) /\ WF_vars(Handler(g)) /\ WF_vars(TeardownSteps(g))
  /\ \A w \in Worker : WF_vars(RunWorker(w)) /\ WF_vars(Pump(w))

FairSpec == Spec /\ Fairness

-----------------------------------------------------------------------------
IsPrefix(s, t) == Len(s) <= Len(t) /\ \A i \in 1..Len(s) : s[i] = t[i]
UpTo(n) == [i \in 1..n |-> i]

(* Every variable keeps its type; the frame channel of a worker never holds more
   than its capacity (the unconditional send of onStreamFrame waits for room). *)
TypeOK ==
  /\ pending \in [Leases -> Seq(Frame)] /\ \A g \in Leases : Len(pending[g]) <= WireCap
  /\ responses \in [Replies -> Seq(Response)]
  /\ caller \in [Replies -> [kind : {"stream", "unary"}, called : BOOLEAN, data : 0..MaxFrames,
                             pings : 0..MaxFrames, ended : BOOLEAN]]
  /\ registrations \subseteq Leases
  /\ streams \in [Replies -> Leases \cup {NoLease}]
  /\ closing \in [pc : {"none", "snapshot", "teardown", "graceful", "returned"},
                  left : SUBSET Leases, at : Leases \cup {NoLease}]
  /\ lease \in [Leases -> {"none", "subscribed", "held", "closing", "torn"}]
  /\ teardown \in [Leases -> [pc : {"none", "unsubscribe", "cancel", "done"},
                              cancels : SUBSET Replies]]
  /\ streamCtxs \in [Leases -> SUBSET Replies]
  /\ dispatcher \in [Leases ->
       [pc : {"idle", "lookup", "create", "add", "index", "begin", "put"},
        frame : Frame \cup {<<>>}, at : Leases \cup {NoLease}]]
  /\ worker \in [Worker ->
       [pc : {"none", "select", "send", "drain", "end", "remove", "delete", "cancel", "gone",
              "invoke", "respond"}, n : 0..MaxFrames, err : Outcome \cup {"nil"}]]
  /\ ctxDone \in [Worker -> BOOLEAN]
  /\ frames \in [Worker -> Seq(Frame)] /\ \A w \in Worker : Len(frames[w]) <= FrameCap
  /\ pump \in [Worker -> [pc : {"none", "recv", "publish", "done"}, n : 0..MaxUp]]
  /\ upDone \in [Worker -> Outcome \cup {"nil"}]
  /\ upstream \in [Worker -> [got : Seq(1..MaxFrames), sent : 0..MaxUp,
                              half : BOOLEAN, ended : {"no", "EOF", "Status"}]]

(* The app receives a prefix of what the caller sent, without gaps, and sees the
   half-close only after all of it, although frames pass a subscription, a
   dispatcher that looks the worker up under two mutexes, a channel and a worker. *)
UpstreamSeesPrefix ==
  \A w \in Worker :
    /\ IsPrefix(upstream[w].got, UpTo(caller[w[2]].data))
    /\ upstream[w].half /\ UpstreamLive(w) => Len(upstream[w].got) = caller[w[2]].data

(* What a caller can read at its reply inbox: Begin, the app's messages in order,
   then at most one End, which says EOF or the app's status only after every
   message of the app; or a lone error End; or one unary response. *)
ReplyProtocol ==
  \A r \in Replies : LET p == responses[r] IN
    IF caller[r].kind = "unary" THEN Len(p) <= 1 /\ \A i \in 1..Len(p) : p[i].type = "Unary"
    ELSE \/ p = <<>> \/ p = <<End("Status")>>
         \/ /\ p[1] = Begin
            /\ \A i \in 2..Len(p) :
                 \/ p[i] = Data(i - 1)
                 \/ /\ i = Len(p) /\ p[i].type = "End"
                    /\ p[i].err # "Canceled" =>
                         \E g \in Leases : /\ upstream[<<g, r>>].ended = p[i].err
                                           /\ upstream[<<g, r>>].sent = i - 2

(* A worker that runs and is not cancelled can be reached: by its frames through
   both maps, and by the teardown, one that will come or one that is under way,
   although the worker is made outside the registration's mutex. *)
TeardownReaches ==
  \A g \in Leases, r \in Replies :
    worker[<<g, r>>].pc \in {"select", "send", "drain", "end"} /\ ~ctxDone[<<g, r>>] =>
      /\ streams[r] = g
      /\ (r \in streamCtxs[g] /\ ~Torndown(g)) \/ r \in teardown[g].cancels

(* The caller of a stream whose worker is gone was sent an End, unless the
   registration was torn down; and no map still names that worker. *)
EndedOrTorndown ==
  \A g \in Leases, r \in Replies :
    worker[<<g, r>>].pc = "gone" /\ caller[r].kind = "stream" =>
      /\ NatsUp /\ ~Torndown(g) => \E i \in 1..Len(responses[r]) : responses[r][i].type = "End"
      /\ r \notin streamCtxs[g] /\ streams[r] # g

Gone(g) ==
  /\ lease[g] = "torn" /\ g \notin registrations /\ dispatcher[g].pc = "idle"
  /\ \A r \in Replies : worker[<<g, r>>].pc \in {"none", "gone"} /\ pump[<<g, r>>].pc \in {"none", "done"}

(* Close, or the end of a lease, ends every goroutine of the registration: those
   of a registration opened while Close runs too, a dispatcher that waits for room
   in a frame channel, a worker that waits for the app, and while GracefulStop
   waits for egress calls for ever. *)
DoneMeansGone ==
  \A g \in Leases : (closing.pc # "none" /\ lease[g] # "none") \/ lease[g] = "closing" ~> Gone(g)

(* HEARTBEAT.md: the server answers Pings immediately, also for a call whose
   caller has half-closed.  run does not read frames while it drains. *)
PingAnswered ==
  \A w \in Worker :
    upstream[w].half /\ (\E i \in 1..Len(frames[w]) : frames[w][i].type = "Ping")
      ~> (worker[w].pc = "gone" \/ frames[w] = <<>>)
=============================================================================
