# nats-grpc: a TLA+ verification project

nats-grpc runs gRPC over NATS. A call is a set of frames on NATS subjects; `pkg/rpc` turns them
into `grpc.ClientStream` and `grpc.ServerStream`, `pkg/sidecar` bridges plain gRPC processes to
that protocol. The hard part of the program is the life of a streaming call: on each side four or
five goroutines share one stream object and race to tear it down, while frames are in flight and
either side may disappear. The sidecar and the proxy put two such sides back to back, with pumps
between them and registrations that come and go. That is what the modules here are about.

## Inventory

| Component | State | Operations | Interacts with |
|---|---|---|---|
| client streams (`pkg/rpc/client.go`) | `Client.streams` under `mu`; per stream: context, `closed`, `endOnce`, `endErr`, `lastErr`, `msgCh` (8192), the recv channel (1), subscription | `NewStream`, `SendMsg`, `RecvMsg`, `CloseSend`, `close`, `done`, `ReadMsg`, the context watcher, `Client.Close` | NATS subscription on a fresh reply inbox; stats handlers |
| heartbeat (`client.go`) | `lastPongTime`, two tickers, `heartbeatStop` | `pingLoop`, `pongMonitor`, `processPong` | the client stream it closes; the server's `processPing` |
| server streams (`pkg/rpc/server.go`) | `Server.streams` under `mu`; per stream: context, `inbox` (8192), recv channel (1), `hasBegun`, `beginOnce`, `statsBegun`, `endOnce` | `onMessage`, `enqueue`, `runInbox` and the `process…` functions, the handler wrappers, `SendMsg`, `RecvMsg`, `SendHeader`, `finalize`, `Stop`, `CloseStream` | one NATS callback goroutine per service; user handlers; stats handlers |
| unary RPC (`client.go`, `server.go`) | none beyond the call | `invokeOnSubject`, `serverUnaryRequestHandler` | NATS request/reply, queue groups |
| registration and subjects (`server.go`, `subjects.go`) | `handlers`, `unaryHandlers`, `subs`, `services` | `RegisterService`, the subject builders | NATS queue subscriptions of replicas |
| sidecar ingress (`pkg/sidecar/ingress.go`) | per registration `streamCtxs` and `torndown` under its mutex; `Sidecar.streams` under `streamsMu`; per stream: `frames` (64), `upDone`, context | `openIngress`, `onUnary`, `onStreamFrame`, `ensureStreamWorker`, `run`, `teardown` | NATS subscriptions, an upstream gRPC connection |
| sidecar egress (`pkg/sidecar/egress.go`) | per call: two pumps | `handleEgress`, `dispatchUnaryEgress`, `pumpBidi` | the rpc `Client` |
| sidecar lifecycle, admin API (`sidecar.go`, `admin_http.go`) | `registrations` under `mu`, `done`, servers | `Start`, `Close`, register and deregister over HTTP | ingress |
| proxy (`pkg/rpc/proxy`) | per call: two forwarding goroutines | the transparent handler | a client and a server stream |
| server reflection (`pkg/rpc/reflection/serverreflection.go`) | an index of symbols made once; per stream: `sentFileDescriptors` | `getSymbols`, `processFile`, `fileDescWithDependencies`, `ServerReflectionInfo` | `Server.GetServiceInfo`, the descriptors linked into the process |
| reflection client, generated code, commands, examples | – | – | not modelled |

What makes these hard, component by component:

- *Client streams.* `ReadMsg`, the watcher, the monitor and `Client.Close` all end in `done`.
  Its parts (stats event, cancel, channel closes, map removal) are visible one by one to the
  receiver, whose `select` chooses freely among what is ready. Correct means: nothing is closed
  twice; exactly one End event, before the stream's own cancel shows; the receiver gets a gap-free
  prefix and no early EOF; a done context always leads to a complete teardown.
- *Server streams.* The worker, the handler, `Stop` and `CloseStream` all run `finalize`, whose
  three parts are not atomic either, and late frames create a second object under the same
  reply. Correct means: stats events stay well formed; the caller can parse what is sent; Data
  is not reordered; a stale teardown does not remove a live stream; the dispatcher always
  returns; all workers end after `Stop`.
- *Heartbeat.* Tickers that start late, lost exchanges and the moment of death fall in any order.
  Correct means: no false alarm, and a bound on detection.
- *Unary.* The deadline races the answer, a queue group picks the replica, replicas register, stop
  and crash meanwhile, and frames of streams share the subscription. Correct means: a call is handled once at most, its outcome is true, and no
  handler holds up the other requests.
- *Sidecar ingress and lifecycle.* A worker is made by a frame, outside the mutex its teardown
  takes, and entered in two maps under two locks; the dispatcher blocks on a full channel; `Close`
  races with leases that open and close. Correct means: the app gets the caller's messages in
  order; the caller can parse the answer; no worker escapes a teardown; every goroutine of a lease
  ends after it.
- *Egress and proxy.* Two pumps block on each other's side, report through channels nobody may
  read any more, the End behind the last message is published by a third goroutine, and the
  heartbeat of the outbound stream may end it meanwhile. Correct means: the half-close comes last; an
  OK is true; both pumps end.
- *Reflection.* The index is read once while services may still be registered; a walk leaves out
  what was sent on the stream before. Correct means: the index is closed under imports, and so is
  what a client holds.

`PROJECT.json` lists the hazards line by line, with the property that covers each or the reason
why none does.

## Modules

### ServerStreams

State is named after the code. `requests` and `responses` are the NATS subjects between a caller
and the server; NATS keeps the order of one publisher. A stream object is a pair of a reply and a
generation, because a frame on a reply whose stream was removed makes `onMessage` create a second
object; `streams[r]` is the entry of `Server.streams`. A step is one access to shared state, and
the `pc` of a goroutine names the code it is about to run:

| Code | Model |
|---|---|
| `Server.onMessage`, `newServerStream`, `enqueue` | `OnMessage`, `Enqueue` (the `select` with both cases) |
| `runInbox`, `processCall/Data/End/Ping`, `statsBegin` | `Worker`: `ProcessCall`, `SetStatsBegun`, `SpawnHandler`, `ProcessData`, `PushData`, `ProcessHalfClose`, `ProcessAbort`, `ProcessPing`, `WorkerExit`, … |
| `finalize` | `Finalize` with the steps `once`, `cancel`, `remove`, run by worker, handler, `Stop`, `CloseStream` |
| `serverStreamHandler`, `serverUnaryHandler`, `SendMsg`, `SendHeader`, `RecvMsg`, `close` | `Handler`: `HandlerRecv`, `HandlerSendHeader`, `HandlerSend`, `HandlerReturns`, `UnaryRecv`, `UnaryCheck`, `UnarySend`, `HandlerClose` |
| `Server.Stop`, `Server.CloseStream` | `Stop…`, `CloseStream…`, one step per stream and per part of `finalize` |

User code is arbitrary: a handler may receive, send, return or do nothing for ever; the one
assumption is that it stops sending after a `SendMsg` that failed. Callers publish what
`client.go` lets them publish, including frames after their own End. A publish of the server may
be refused (`Unchecked`); a refused Pong is left out, since nothing but the caller's heartbeat
depends on it. NATS delivers what a caller published, in order.

### ClientStreams

The client's counterpart: the caller's goroutine, `ReadMsg`, watcher, `pongMonitor`, `pingLoop`,
and `Client.Close`. `done` is five steps (`cas`, `event`, `cancel`, `unsub`, `remove`); the last
needs `Client.mu`. `Deliver` is NATS: a frame goes into `msgCh`, is dropped when that is full
(`lost` remembers it), and disappears when the subscription is gone or was never made (the code drops
the error of `ChanSubscribe`). The server may do whatever
`ResponseProtocol` of ServerStreams allows. What the client publishes is kept as a set of frames per
reply: the server of this module may ignore or answer any of them, so order adds nothing here. `endErr` is written without a lock in the code; the
model has the writes as steps of their own, in any order. A publish of the client that is refused
changes nothing in the client, and the server of this module may ignore any frame. Any frame may
fail to unmarshal (`ReadUndecodable`): `ReadMsg` records the error and exits without `done`, and
nobody reads the stream until its context or its monitor ends it. When the monitor fires is left
open here: that is the subject of the next module.

`EndBeforeTeardown` is about the stream's own teardown: the End event is out before `done` cancels
the context and before it closes `heartbeatStop` and `msgCh`, so the watcher, `pingLoop` or an app
that learns from them that the stream is over finds it reported. It is not about `io.EOF`:
`processEnd` closes the recv channel before it calls `done` (client.go:865, 871), and a receiver may
have its EOF before the event.

### Heartbeat

Discrete time for one stream. `Tick` is a unit of time; both tickers fire every `Interval`, and
`pongMonitor` and `pingLoop` handle their ticks in either order. `newClientStream` stamps
`lastPongTime` (client.go:487) before it subscribes and before the two goroutines create their
tickers (877, 902): the clocks `sincePing` and `sinceCheck` start anywhere in `(-Lag)..0`, negative
while a ticker is still to be created, so on a check the silence is a number of intervals and a bit.
Three bounds describe the environment: a ticker is created, and a check handled, at most `Lag` late;
the Pong of an answered Ping is processed at most `Delay` after the tick; and at most `MaxLost`
exchanges in a row are lost while the server is up.

`Tolerates`, that is `(MaxLost + 1) * Interval + Delay + Lag <= Timeout`, is the condition under
which a live server's stream is never closed. It is strict in the sense that matters: a timeout of
exactly `MaxLost + 1` intervals is too short as soon as there is a lag or a delay. The defaults (5s,
15s) tolerate one lost exchange in a row. With the first two lost, the third check finds 15s and
a bit and closes the stream. The comment on `WithHeartbeat` (client.go:79-80) asks only for
`timeout > interval`, which tolerates none. Detection needs no such condition: `DetectionBound` holds
for every timeout.

### UnaryContract and UnaryCalls

`UnaryContract` is the abstract specification of a unary call: handled by one replica at most,
ended at most once, with an outcome that is true of what happened. `UnaryCalls` is the code, and
`Contract == INSTANCE UnaryContract WITH …` the refinement mapping: `handled` is the set of
replicas whose `work` for the call has begun, `result` what its handler returned.

| Code | Model |
|---|---|
| `Client.invokeOnSubject` | `Invoke`, `InvokeFails`, `ReturnReply`, `ReturnContextError`, `ReturnConnectionClosed` |
| `Server.RegisterService` | `RegisterSubscribes`, `RegisterEntries`, with `registering` as the holder of `Server.mu` |
| `Server.onMessage`, `enqueue` | `OnMessage` (handler found), `OnMessageMisses` and `EnterStream` (everything else) |
| `serverUnaryRequestHandler` | `HandlerReturns`, `Respond` |
| `Server.Stop` | `StopStreams`, `Unsubscribe` per service |
| NATS, the process (external) | `Route`, `NoResponders`, `FrameArrives`, `Crash` |

The code fixes two things of NATS: all replicas of a service are in one queue group, and a reply
goes to an inbox of its call. A lost request stays on the wire, a lost reply is one `Respond` did
not send. While a service is being registered the maps are written without the lock `onMessage`
would need, so a lookup in that window may say anything; a request that misses becomes a stream
object (`strays`) that nothing ends before `Stop`, and its caller waits for its context.

The subscription of a service carries the frames of its streams too, and one goroutine dispatches
both. `Frame` stands for any of them, on the replicas in `Streaming`; `OnMessageMisses` takes it to
its stream, and `EnterStream` is the `enqueue` that waits while the stream's inbox is full. Which it
stays for as long as the stream's handler does not receive, so no fairness is assumed for a frame,
and `RequestIsHandled` excuses a dispatcher that stays with one for ever (server.go:479, 566-571):
the unary requests behind it wait as long. What the streams do with their frames is ServerStreams.

### SidecarIngress

A lease is one `POST /v1/register`: the HTTP handler, the registration it opens and the
subscriptions of its service. A stream is named by its reply, a worker by lease and reply. Every
access to state that goroutines share is a step.

| Code | Model |
|---|---|
| `onStreamFrame`, `ensureStreamWorker` | `Dispatcher`: `OnStreamFrame` (the check under the registration's mutex), `FindWorker` (`streamsMu`), `NewStream`, `AddStream`, `IndexWorker`, `StartWorker`, `PutFrame` (the `select`) |
| `streamWorker.run` | `RunWorker`: `WorkerTakes`, `WorkerCancelled`, `WorkerSendFails`, `WorkerSeesEnd`, `WorkerPublishesEnd`, and the deferred `WorkerRemoves`, `WorkerDeletes`, `WorkerCancels` |
| its goroutine upstream → NATS | `Pump`: `PumpPublishes`, `PumpEnds` |
| `onUnary`, `respondUnaryError` | `CallerRequests`, `AppAnswersUnary`, `UnaryCancelled`, `RespondUnary` |
| `openIngress`, `closeIngress`, `handleHTTPRegister` | `OpenIngress`, `SubscribeFails`, `OpenRegisters`, `LeaseEnds`, `HandlerStops`, `HandlerTeardown` |
| `teardown` | `Teardown` (under the mutex), `Unsubscribe`, `CancelStream` per stream, `CloseConn` |
| `Sidecar.Close` | `CloseBegins` (closes `done`), `CloseSnapshot`, `CloseTearsDown`, `CloseTornDown`, `CloseReturns` (after `GracefulStop`, which may never return) |
| the remote callers, the app, gRPC (external) | `Caller`, `App`; flow control is a rendezvous with an app that may refuse to read for ever |

`NewStream` may fail at any time and must fail once `conn` is closed. `CloseSend` and an abort of
the caller both arrive as an End, whose status `run` does not read. A Ping is answered when the
worker takes it; the Pong is not recorded. `responses` is a history of what was published; a
publish on a closed connection is dropped, as its error is.

### StreamBridge

`handleEgress` with `pumpBidi`, and the proxy's `handler` with `forwardServerToClient` and
`forwardClientToServer`: the same two pumps and loop, in three variants (`sidecar`, `proxy`,
`proxyLong` for `autoCloseSend` false). `Route` also has the unary and the invalid requests. The
differences are conjuncts on the variant: what the loop does with an error of the sending pump,
whether it half-closes, and the proxy's deferred `CloseSend`.

The outbound `clientStream` is the part of ClientStreams that its caller sees, and everyone who can
end it:

| Code | Model |
|---|---|
| `SendMsg`: its check of `closed`, the Call before the first message | `S2CSends`, `S2CPublishes` |
| `RecvMsg`: the free `select` between what is ready and the context | `C2SReceives` |
| `ReadMsg`, `processData`, `processEnd` (closes `recv`, runs `done`), `setLastErr` after it | `ReadData`, `ReadEnd`, `ReaderDone`, `RecordStatus`, `ReadExit` |
| the context watcher | `WatchContext` |
| `pongMonitor`: `close` publishes End{Unavailable} (`Abort`), then runs `done` | `MonitorFires`, `MonitorDone` |
| `Client.Close`, by the owner of the proxy's client, or of `Sidecar.Close` after `GracefulStop` | `ClientCloses` |
| `ChanSubscribe` into `msgCh`: NATS drops what finds it full | `Arrives`, with `lost` |

The monitor may fire at any time, as in ClientStreams (why it would is Heartbeat); it is on by
default in the sidecar, which makes its client without options (sidecar.go:125). `done` is one step
here, its parts are in ClientStreams, and so are the frames that do not unmarshal. gRPC's flow
control is in the pump's `SendMsg`: `C2SSends` waits for an app that may stop reading for ever, with
`recv` and then `msgCh` filling behind it, until the call is over (`C2SFails`). The app and the
server are free; a server may also end a call whose frames it has not read.

### Reflection

The files linked into the process are constants: `Known` can be found and decoded, `Deps` is what
each imports (an import may not be linked), `Defines` its symbols. `getSymbols` under its `Once` is
`StartIndex`, `GetServiceInfo` (one service a step, since the map is read without the lock
`RegisterService` writes it under), `VisitService`, `ProcessFile`, `IndexDone`. The recursion of
`processFile` is a set of files still to process: the order does not matter to the properties, so
the model allows every order. A request is `Recv`, `GetSymbols`, `FindFile`, the walk
(`WalkFile`, `WalkDep` per import, `WalkNext`) and `Send`. A concurrent map access the Go runtime
notices sets `crashed`. `MCReflection` gives the graph.

The operators introduced by a comment beginning with "Mutant" are faulty variants of the operator
that follows; they are not part of `Next` and exist to show that each property depends on the code.

## Runs

| Run | Configuration | Shows |
|---|---|---|
| `server_streams` | 1 reply, 2 objects, 4 frames, 2 messages of the handler, inbox and recv of 1 | `TypeOK` (with capacities), `ResponseProtocol`, `HandlerSeesPrefix`, `LiveHandlerReachable` |
| `server_live` | 1 reply, 2 objects, 2 frames, one `Stop` or `CloseStream`, fairness | `StatsWellFormed`, `StopEndsBegun`, `WorkersEndAfterStop`, `DispatcherReturns` |
| `client_streams` | heartbeat with 1 Ping, 3 Data, `msgCh` of 2, `Client.Close` | `TypeOK`, `ReceivesPrefix`, `EOFMeansComplete` |
| `client_live` | heartbeat, 2 Data, `msgCh` of 1, deadline, `Client.Close`, fairness | `ChannelsClosedOnce`, `EndBeforeTeardown`, `OutcomeHasCause`, `EntryRemoved`, `ContextEndsStream` |
| `heartbeat` | 5/15, `Lag` 3, `Delay` 2, 1 lost in a row, fairness | `TypeOK`, `NoFalseAlarm`, `DetectionBound`, `DeathDetected` |
| `unary` | 2 calls, one of a known method and one of an unknown, 2 replicas of one nid, the first serving streams too, the second still to register, deadlines, fairness | `TypeOK`, `ImplementsContract`, `RequestIsHandled` |
| `ingress` | 1 lease, 1 call (unary or streaming), 1 Data or Ping, 1 message of the app, frame channel of 1, `Close`, fairness | `TypeOK`, `UpstreamSeesPrefix`, `ReplyProtocol`, `TeardownReaches`, `EndedOrTorndown`, `DoneMeansGone` |
| `bridge` | 1 call through `sidecar` or `proxyLong`, 2 messages each way, room for 1 frame, cancel, monitor, `Client.Close`, fairness | `TypeOK`, `HalfCloseComplete`, `AppOutcomeTrue`, `RelayEnds` |
| `reflection` | 2 streams, 2 requests, 2 services, a diamond of 4 files and an import that is missing, fairness | `TypeOK`, `IndexComplete`, `ClientClosed`, `NoResend`, `RequestsAnswered` |
| `server_begin_end` | no `Stop`, 1 object | **violated**: `BeginGetsEnd` |
| `client_outcome` | nobody cancels, no `Client.Close`, heartbeat | **violated**: `NobodyCancelled` |
| `ingress_ping` | as `ingress` | **violated**: `PingAnswered` |

*Bounds.* Streams of different replies share only the map, the mutex and the dispatcher, and the
model lets any step of the environment fall between any two steps of a stream, so one reply is
enough for every property except the ones about the dispatcher, where a second stream would only
wait. Capacity 1 (2) in the place of 8192 makes full channels happen within the bounds; the recv
channel has its real capacity. In `client_streams` the context is cancelled by `Client.Close` or the
monitor, in `client_live` by a deadline of the caller as well. Two objects per reply are enough for a stale goroutine and its
successor. Four frames are Call, Data, an End and a late frame. One `Stop` or `CloseStream` at a
time: with both, `StopEndsBegun` has the exception its comment names. For unary calls, two calls
on one subscription show one waiting for the other, two replicas show a request handled twice or
by a replica that comes late; of a stream's frames one waits in a queue at a time, which is enough
for one to hold the requests behind it; `Canceled` is treated like `DeadlineExceeded` and left out of the
run to keep it small. `MCUnaryCalls` gives the subjects their values. In `ingress` a channel of 1 is
full after the Call, so the Data and the End make the dispatcher wait; one message each way is
enough for a gap, a swap and an End that comes too early, since nothing in the code counts
messages. With two leases of one service (two apps behind one sidecar, or one that registers anew
before its old connection is found dead) `ReplyProtocol` and `TeardownReaches` do not hold: both
leases get the frames, both workers send a Begin, and one loses its entry in `Sidecar.streams`. The
code neither supports nor refuses it, so the run has one lease. In `bridge` two messages each way
make a first and a last one, and `MsgCap` 1 in the place of 8192 makes `msgCh` full behind one frame,
so that a message is dropped and an OK still arrives. The two variants take every branch of the
code: `proxy` is the loop of `sidecar` with the ends of `proxyLong`, and the theorems cover all three
(with `MaxMsgs` 1 the run has room for all three as well; a drop between two messages that arrive
takes `MaxMsgs` 3 and one variant). In `heartbeat` the bounds are
the largest that `Tolerates` admits with the defaults and one lost exchange (10 + 2 + 3 = 15). The graph of `reflection` has a file reached on two ways, the case in
which leaving out sent files could lose an import. Deadlock checking is off
where the system may stop: callers and handlers need not do anything, and a stream ends.

*Fairness.* Weak fairness for each goroutine of the package that has a step to take, which the Go
scheduler gives. None for callers, handlers, the server as seen by the client, or the monitor's
timeout: user code and the network promise nothing. In UnaryCalls not even a handler's return is
assumed, so `RequestIsHandled` holds with handlers that never end; nor is the end of an `enqueue`
with a stream's frame. In the sidecar and the proxy the goroutines, NATS and `Unsubscribe` are fair;
the remote callers, the app, its HTTP connection, the remote server, whoever calls `Close`, and
`GracefulStop` are not. In StreamBridge a `SendMsg` to the app (`C2SSends`, `UnaryReplies`) and a
unary answer that nobody gives are not fair either: `RelayEnds` promises the end after a cancel
whatever the app does, and otherwise unless the app keeps a `SendMsg` waiting for ever. A reflection client sends and
leaves when it wants. In Heartbeat, time passes and ticks are handled.

*What the violated runs say.*

1. `BeginGetsEnd`: "each stream produces exactly one Begin and one End" (server.go:534-535) fails
   when a Data frame is behind an abort: `runInbox` may take it although the context is done, and
   its Begin comes after `endOnce` is used up.
2. `NobodyCancelled`: the status of a heartbeat timeout reaches the stats event, never the
   receiver, whom the cancel of `done` gives `Canceled` (HEARTBEAT.md:113 promises `Unavailable`).
   The same cancel can overtake the data and the EOF of an End{OK} (client.go:568-569).
3. `PingAnswered`: once the caller has half-closed, the sidecar's worker reads no frame until the
   app ends the stream, so Pings are not answered "immediately" (HEARTBEAT.md:23) and a caller
   with heartbeat gives up a call that is alive.

Three more remarks without a run of their own.

- HEARTBEAT.md:107 promises detection 10 to 15 seconds after a death. The monitor looks only on its
  own ticks, so a death is noticed at the first check behind the timeout, 15 to 20 seconds and a bit
  after the last Pong with the defaults: the bound that holds is `DetectionBound`, the timeout, an
  interval, the monitor's lag and a Pong's delay.
- SIDECAR.md:358-363 has the status of an End mapped back onto the local app's stream. In the model, as
  in the code, it may be lost: the server ends with a status (`RemoteEnds`, `ReadEnd`), `done` cancels
  the context (`ReaderDone`), `RecvMsg` finds no status yet and returns `Canceled` (`C2SReceives`), and
  only then `ReadMsg` records it (`RecordStatus`). A `SendMsg` on the closed stream does the same.
  `AppOutcomeTrue` therefore says that a status which does arrive is the server's.
- The proxy's deferred `CloseSend` runs after a cancel too, so a server that still runs sees a clean
  end of the messages; `HalfCloseComplete` therefore speaks of the time in which the loop runs.

## Proofs

Every safety property that a passing run checks is also a theorem, for every value of the
constants the module's assumption admits, and so is the refinement of `UnaryContract`. Each proof
has the same shape: a strengthening that is inductive (checked with TLC on an instance before it
was proved), one lemma per conjunct and goroutine that it is kept, one that it holds at first, and
a theorem that combines them. Nothing is assumed but the named `ASSUME` of each module, which TLC
evaluates on every run, and where a theorem says so that there is one lease.

`DataLines` holds what four of the proofs share: a *line* is the frames on their way from a
sender to a receiver, the channels of the code being its pieces one behind the other. `Ordered` says
that a line carries the Data after the first `a` of `top`, each behind all that come before it, and
a terminal frame behind all of them; `Whole` that none is missing. Lemmas say what a frame more
at the end, one less at the front or in the middle, and a cut do to both.

`HeartbeatProofs` proves, for every interval, timeout, lag, delay and number of lost exchanges that
satisfy the assumption of the module (lag and delay shorter than an interval), `TypeOK`,
`DetectionBound` and `NoFalseAlarm`, the last under its condition `Tolerates`. Neither property is
inductive. `IInv` adds what explains the silence of a stream: with the server up and no exchange lost,
the silence is at most an interval and the time since `pingLoop`'s last tick, or what the stamp is
older than its ticker; each lost exchange adds an interval; a tick that is due has reset `sincePing`
or `sinceCheck`, and is younger than the delay or the lag; a monitor that let a stream live bounds
its silence by the timeout, the lag and the time since the tick; and a dead server's `down` is at
most the silence and a Pong's delay.

`ServerStreamsProofs`, for every set of replies, number of objects per reply, capacity and bound:

- `TypeCorrect`: `TypeOK`, with the capacities of `inbox` and `recv`.
- `StatsOnce`: `StatsWellFormed`. `StatsInv` says, per stream, what `events` is as a function of
  `beginOnce`, `statsBegun` and `endOnce`, and that `statsBegun` can only be pending while the
  worker is in `statsBegin`. This is the argument the comments in the code leave to `sync.Once`:
  the two `Once` guards and the flag suffice for well-formedness. They do not suffice for
  completeness, see `BeginGetsEnd`.
- `StopEnds`: `StopEndsBegun`. `BirthInv` says that an object that was not created is blank and in
  nobody's hands; `StopInv` that a stream still in the map whose `endOnce` is used up had its End
  or is on its way out without a Begin, and that what `Stop` found begun is ended, ahead in its
  list, or in its hands.
- `DataReachesHandler`: `HandlerSeesPrefix`. `PrefixInv` follows the Data through the subject, the
  dispatcher's hand, the inbox, the worker's hand and the recv channel to the handler: as long as a
  stream is not cancelled and has the Call, had it or stands where it will arrive, these pieces are
  one line behind what the handler got; and a Call on the wire has all Data behind it, so a second
  object of the reply, made by a late frame, is never the owner of the Call.
- `LiveHandlerKeepsEntry`: `LiveHandlerReachable`. `RouteInv` says that Call and abort are each in
  one place and that one stream object spends the Call; `LiveInv` that who still has something to
  remove holds the entry himself, or nothing of the reply's other objects is alive. The delicate case
  is the abort: while it is on its way, an object without the Call has not begun a teardown.
- `RepliesInOrder`: `ResponseProtocol`. `ReplyInv` ties what was published for a reply to the one
  object with `hasBegun`, across all the objects of the reply.

`ClientStreamsProofs`, for every set of streams, capacity and bound:

- `TypeCorrect`: `TypeOK`. A `SendMsg` or a ping checks its bound before it takes a step that
  writes, so `Rooms` (what is about to be written has its place) is part of the invariant.
- `ClosesOnce`, `EndComesFirst`, `EntryIsRemoved`: `ChannelsClosedOnce`, `EndBeforeTeardown` and
  `EntryRemoved`. `DoneInv` is the argument for `done()`: of the four goroutines that call it one at
  most is in its body, how far he is shows in `closed`, `endOnce` and `msgClosed`, the events counted
  are those the flags allow, and the entry of a closed stream is owed by who is in the body.
- `OutcomesCaused`: `OutcomeHasCause`. `CauseInv` follows a status from the server's End through the
  wire, the channel and the two error fields to the caller, and the timeout from the monitor.
- `DataInOrder`, `EOFIsComplete`: `ReceivesPrefix` and `EOFMeansComplete`. `PipeInv` is the line of
  subject, `msgCh`, `ReadMsg`'s hand and recv channel, whole until the subscription is gone; a recv
  channel that is closed has everything behind it, and an EOF needs it closed and empty.

`UnaryCallsProofs`, for every set of calls, replicas and services and every capacity:

- `TypeCorrect`: `TypeOK`.
- `CallsImplementContract`: `Spec => Contract!Spec`. `handled` maps to `HandledBy` (the replicas
  whose `work` for the call has begun) and `result` to `ResultOf` (what its handler returned).
  `PlaceInv` says where a request is: on the wire, at one position of one queue, or taken by one
  replica; an answer on its way is the handler's result; a call told that nobody responds was never
  given to a replica. Every step is then a step of the contract or a stutter, one lemma per action.

`StreamBridgeProofs`, for the sidecar and both variants of the proxy and any number of messages:

- `TypeCorrect`: `TypeOK`.
- `HalfCloseComesLast`: `HalfCloseComplete`. `OutInv` says how far the sending pump is: all before its
  hand are out, in order, with Aborts of the monitor anywhere between them; an EOF it reports, and an
  End while the loop runs, has them all in front.
- `OutcomeIsTrue`: `AppOutcomeTrue`. `EndsInv` brings the server's End to the client stream, behind
  everything, and says what `closed`, `eof` and the status rest on, whoever ran `done`; `OrderInv`
  that what is on the wire, in `recv`, with the pump and with the app is in order, with drops or
  without; `LineInv` counts these messages as long as none was dropped; `ReportInv` says what each
  report on its way to the loop, and to the app, rests on.

`SidecarIngressProofs`, for every set of replies, capacity and bound. For every set of leases:

- `TypeCorrect`: `TypeOK`, with the capacity of the frame channels.
- `GoneMeansEnded`: `EndedOrTorndown`; and `AlwaysCancellable`, the second part of
  `TeardownReaches`: a worker that runs and is not cancelled is in the map a teardown will read or in
  the set one is going through. `CallInv` says that a worker is made once, by the one Call;
  `EnteredInv` where it is entered at each point of its life, between a mutex and the next; and
  `EndSentInv` that who left the loop without having sent an End was cancelled by a teardown.

With one lease of the service (`OneLease`), which is what the code is written for: a second one takes
the frames as well, and overwrites the entry in `Sidecar.streams`, see the bounds of `ingress`:

- `WorkerIsReached`: `TeardownReaches`, with `EntryKeptInv`: nobody else touches a worker's entry.
- `RepliesInOrder`: `ReplyProtocol`. `UpstreamInv` relates worker, pump and app at each point;
  `SentInv` says what the caller was sent, by the state of his worker, or of nobody.
- `AppSeesPrefix`: `UpstreamSeesPrefix`. The line of a call is the worker's hand, its frame channel,
  the dispatcher's hand and, until the registration is torn down, the frames of the call at the
  subscription (`View`: those of others count for nothing). `MadeInv` says that Data and End stand
  behind their Call and that frames are on their way only to a worker that was made; `GotInv` that
  for a call that has a worker, or will have one, the line is ordered behind what the app got, and
  whole until the teardown. A frame the dispatcher drops because it knows no worker then belongs to a
  call that is over, and a half-close that reaches a live stream stands behind all Data.

`ReflectionProofs`, for every graph of files (cycles and missing imports included), every number
of streams and requests, and services registered at any moment:

- `TypeCorrect`: `TypeOK`, with a walk that never leaves the linked files.
- `IndexAlwaysComplete`: `IndexComplete`. `IndexInv` says that while the index is made every
  import of a processed file is processed or still to be processed, the file of every visited
  service too, and that `symbols` names exactly the processed definitions.
- `ClientAlwaysClosed` and `NothingResent`: `ClientClosed` and `NoResend`, from `WalksInv`. A file
  may be left out of an answer because it was sent before, so the closure cannot be shown answer by
  answer: the invariant says that every import of a file in an earlier answer or in this one is in
  one of them, in the queue, or ahead in the imports the walk is reading, and that
  `sentFileDescriptors` is exactly what the stream was sent and what the answer holds.

Only model-checked: the liveness properties under fairness (`WorkersEndAfterStop`,
`DispatcherReturns`, `ContextEndsStream`, `DeathDetected`, `RequestIsHandled`, `DoneMeansGone`,
`RelayEnds`, `RequestsAnswered`), for which the prover has no support, and the three properties the
code violates (`BeginGetsEnd`, `NobodyCancelled`, `PingAnswered`). `ResponseProtocol` and `HalfCloseComplete` are stated by position (a frame and those
in front of it) and not with `SubSeq` or a filter, which says the same and can be reasoned about
without induction over sequences.

## Not modelled

Metadata (headers, trailers) and its translation in the sidecar, interceptors, payload stats events,
encoding, logging; the fatal error of the Go runtime on a concurrent map access in `CloseStream`;
NATS dropping frames on the server's subscription; a handler that goes
on sending after an error; `clientStream.Invoke`, which has no caller; a `grpc.ClientConn` behind
the proxy, which is grpc-go's; `Sidecar.Start`, the validation and JSON of the admin API; the
content of Pongs. The reflection client (`reflection.go`, `errors.go`) is a sequential caller of
the service with one request outstanding, and what it adds, wrapping of errors, is formatting; the
numbers of extensions are a lookup in the registry of types. Generated code, commands and examples
have no protocol of their own.

## Plan

In this order:

1. `StreamRPC`: ClientStreams and ServerStreams composed over shared wires (`C == INSTANCE`,
   `S == INSTANCE`), with server crash and restart, lost frames, and the second objects made by
   late frames. Abstract specification `StreamContract`: an ordered pipe in each direction that
   ends once, shown to be implemented through a refinement mapping; the lines of `DataLines` are
   the invariants its proof needs.
2. Streams fanned out over replicas that share a nid (the warning of `validateStreamingNid`), and
   what a unary request for an unknown method should lead to.
