----------------------------- MODULE StreamBridge -----------------------------
(***************************************************************************)
(* A local gRPC call carried over NATS: handleEgress of pkg/sidecar and the *)
(* handler of pkg/rpc/proxy, which shares its two pumps and its loop.       *)
(*                                                                          *)
(* One call.  The goroutine of the gRPC server routes it and waits for two  *)
(* pumps, s2c (local app to NATS) and c2s (NATS to local app), through two  *)
(* channels of capacity 1.  The outbound clientStream of pkg/rpc is reduced *)
(* to what its caller sees and who ends it: SendMsg fails once done has     *)
(* run; the first SendMsg publishes the Call; CloseSend publishes End{OK}   *)
(* whatever happened before; RecvMsg may report the context instead of what *)
(* is still to be read; and done is run by ReadMsg, the context watcher,    *)
(* pongMonitor, behind an End of its own, or Client.Close.  (ClientStreams  *)
(* has the parts of done and the frames that do not unmarshal, Heartbeat    *)
(* the reasons of the monitor.)  Frames of the server that find msgCh full  *)
(* are dropped.  The local app, the server behind NATS and gRPC's flow      *)
(* control are the environment.                                             *)
(***************************************************************************)
EXTENDS Naturals, Sequences

CONSTANTS
  Variants,  \* of the program: "sidecar", "proxy", "proxyLong" (autoCloseSend false)
  MaxMsgs,   \* bound: messages in each direction
  MsgCap     \* capacity of clientStream.msgCh, with the frame in ReadMsg's hand

ASSUME BridgeAssumption ==
  /\ Variants \subseteq {"sidecar", "proxy", "proxyLong"}
  /\ MaxMsgs \in Nat \ {0} /\ MsgCap \in Nat \ {0}

\* What a call asks for: its mode header and whether its headers are valid; of
\* the proxy, whether its director knows the method.
Request == {"streaming", "unary", "invalid"}
Errors == {"EOF", "Status", "Canceled", "Closed", "Broken", "Internal", "Invalid", "Unavailable"}

VARIABLES
  call,    \* the variant and the request
  app,     \* local app: messages sent, half-closed, cancelled, what it got, the call's result
  main,    \* the handler: its pc and the error it returns
  s2c, c2s,       \* the pumps: pc and the message at hand (of s2c: the last one received)
  s2cErr, c2sErr, \* the channels: an error or "nil"
  up,      \* history: what was published towards the remote server
  remote,  \* the server: messages sent, how it ended
  down,    \* frames from the server that ReadMsg has still to handle
  lost,    \* history: the kinds of frames dropped for a full msgCh
  nrpc     \* clientStream: recv (capacity 1) and whether it is closed (eof), whether
           \* done has run (closed), whether lastErr is the server's status, the pcs of
           \* ReadMsg and pongMonitor; and whether clientCancel was called

bridgeVars == <<call, main, s2c, c2s, s2cErr, c2sErr, nrpc>>
wireVars == <<remote, down, lost>>
vars == <<bridgeVars, app, up, wireVars>>

Frame(t, n) == [type |-> t, n |-> n]

Init ==
  /\ call \in {[variant |-> v, request |-> q] : v \in Variants, q \in Request}
  /\ call.variant # "sidecar" => call.request # "unary"
  /\ app = [sent |-> 0, half |-> FALSE, cancelled |-> FALSE, got |-> <<>>, result |-> "none"]
  /\ main = [pc |-> "route", err |-> "nil"]
  /\ s2c = [pc |-> "none", n |-> 0]
  /\ c2s = [pc |-> "none", n |-> 0]
  /\ s2cErr = "nil" /\ c2sErr = "nil"
  /\ up = <<>> /\ down = <<>> /\ lost = {}
  /\ remote = [sent |-> 0, ended |-> "no"]
  /\ nrpc = [recv |-> <<>>, eof |-> FALSE, closed |-> FALSE, status |-> FALSE,
             reader |-> "run", monitor |-> "run", cancel |-> FALSE]

Proxy == call.variant # "sidecar"
Returned == main.pc = "gone"

\* The context of the local call, and the one of the clientStream under it.
ServerDone == app.cancelled \/ Returned
ClientDone == ServerDone \/ nrpc.cancel \/ nrpc.closed

-----------------------------------------------------------------------------
(* The environment                                                          *)

AppOnly == UNCHANGED <<bridgeVars, up, wireVars>>

AppSends ==
  /\ app.sent < MaxMsgs /\ ~app.half /\ ~ServerDone
  /\ app' = [app EXCEPT !.sent = @ + 1] /\ AppOnly

AppHalfCloses == ~app.half /\ ~ServerDone /\ app' = [app EXCEPT !.half = TRUE] /\ AppOnly

AppCancels == ~ServerDone /\ app' = [app EXCEPT !.cancelled = TRUE] /\ AppOnly

\* done has unsubscribed, or msgCh has room, or the frame is dropped.
Arrives(f, kind) ==
  IF nrpc.closed THEN UNCHANGED <<down, lost>>
  ELSE IF Len(down) < MsgCap THEN down' = Append(down, f) /\ UNCHANGED lost
  ELSE lost' = lost \cup {kind} /\ UNCHANGED down

\* The server knows the call from its Call frame on; it may end whenever it likes.
Called == \E i \in 1..Len(up) : up[i].type = "Call"

RemoteSends ==
  /\ Called /\ remote.ended = "no" /\ remote.sent < MaxMsgs
  /\ remote' = [remote EXCEPT !.sent = @ + 1]
  /\ Arrives(Frame("Data", remote.sent + 1), "Data")
  /\ UNCHANGED <<bridgeVars, app, up>>

RemoteEnds ==
  /\ remote.ended = "no"
  /\ Called \/ \E i \in 1..Len(up) : up[i].type = "Unary"
  /\ \E s \in {"OK", "Status"} :
       /\ remote' = [remote EXCEPT !.ended = s]
       /\ Arrives(Frame(s, 0), "End")
  /\ UNCHANGED <<bridgeVars, app, up>>

-----------------------------------------------------------------------------
(* The outbound clientStream's own goroutines                               *)

NrpcOnly == UNCHANGED <<call, main, s2c, c2s, s2cErr, c2sErr, app, remote, lost>>

\* Mutant: recv takes a second message.
ReadDataUnbounded ==
  /\ nrpc.reader = "run" /\ down # <<>> /\ Head(down).type = "Data"
  /\ nrpc' = [nrpc EXCEPT !.recv = Append(@, Head(down).n)] /\ down' = Tail(down)
  /\ UNCHANGED up /\ NrpcOnly

\* ReadMsg: its select is free when msgCh holds a frame and the context is done.
ReadData ==
  /\ nrpc.reader = "run" /\ down # <<>> /\ Head(down).type = "Data" /\ nrpc.recv = <<>>
  /\ nrpc' = [nrpc EXCEPT !.recv = <<Head(down).n>>] /\ down' = Tail(down)
  /\ UNCHANGED up /\ NrpcOnly

\* processEnd closes recv on OK.
ReadEnd ==
  /\ nrpc.reader = "run" /\ down # <<>> /\ Head(down).type # "Data"
  /\ call.request = "streaming"
  /\ nrpc' = IF Head(down).type = "OK" THEN [nrpc EXCEPT !.eof = TRUE, !.reader = "ok"]
             ELSE [nrpc EXCEPT !.reader = "status"]
  /\ down' = Tail(down) /\ UNCHANGED up /\ NrpcOnly

\* It then runs done, and ReadMsg records the status of an error after that.
ReaderDone ==
  /\ \/ nrpc.reader = "ok" /\ nrpc' = [nrpc EXCEPT !.closed = TRUE, !.reader = "exit"]
     \/ nrpc.reader = "status" /\ nrpc' = [nrpc EXCEPT !.closed = TRUE, !.reader = "record"]
  /\ UNCHANGED <<up, down>> /\ NrpcOnly

RecordStatus ==
  /\ nrpc.reader = "record"
  /\ nrpc' = [nrpc EXCEPT !.status = TRUE, !.reader = "exit"]
  /\ UNCHANGED <<up, down>> /\ NrpcOnly

ReadExit ==
  /\ nrpc.reader = "run" /\ s2c.pc # "none" /\ ClientDone
  /\ nrpc' = [nrpc EXCEPT !.reader = "exit"] /\ UNCHANGED <<up, down>> /\ NrpcOnly

WatchContext ==
  /\ s2c.pc # "none" /\ ~nrpc.closed /\ (ServerDone \/ nrpc.cancel)
  /\ nrpc' = [nrpc EXCEPT !.closed = TRUE] /\ UNCHANGED <<up, down>> /\ NrpcOnly

\* pongMonitor has waited too long: close publishes End{Unavailable}, then runs done.
MonitorFires ==
  /\ s2c.pc # "none" /\ nrpc.monitor = "run"
  /\ nrpc' = [nrpc EXCEPT !.monitor = "abort"]
  /\ up' = Append(up, Frame("Abort", 0)) /\ UNCHANGED down /\ NrpcOnly

MonitorDone ==
  /\ nrpc.monitor = "abort"
  /\ nrpc' = [nrpc EXCEPT !.monitor = "over", !.closed = TRUE]
  /\ UNCHANGED <<up, down>> /\ NrpcOnly

\* Client.Close, by the owner of the proxy's client at any time; Sidecar.Close calls it
\* when GracefulStop has seen the handlers return.
ClientCloses ==
  /\ s2c.pc # "none" /\ ~nrpc.closed /\ (Proxy \/ Returned)
  /\ nrpc' = [nrpc EXCEPT !.closed = TRUE] /\ UNCHANGED <<up, down>> /\ NrpcOnly

Reader == ReadData \/ ReadEnd \/ ReaderDone \/ RecordStatus \/ ReadExit
Nrpc == Reader \/ WatchContext \/ MonitorFires \/ MonitorDone \/ ClientCloses

\* CloseSend: a half-close on the wire and nothing else.
CloseSend == up' = Append(up, Frame("End", 0))

-----------------------------------------------------------------------------
(* Routing, and dispatchUnaryEgress                                         *)

MainOnly == UNCHANGED <<call, s2c, c2s, s2cErr, c2sErr, nrpc, remote, lost>>

Route ==
  /\ main.pc = "route"
  /\ \/ /\ call.request = "invalid" /\ main' = [pc |-> "return", err |-> "Invalid"]
        /\ UNCHANGED <<s2c, c2s>>
     \/ /\ call.request = "unary" /\ main' = [main EXCEPT !.pc = "unary"] /\ UNCHANGED <<s2c, c2s>>
     \/ /\ call.request = "streaming" /\ main' = [main EXCEPT !.pc = "loop"]
        /\ s2c' = [s2c EXCEPT !.pc = "recv"] /\ c2s' = [c2s EXCEPT !.pc = "recv"]
  /\ UNCHANGED <<call, s2cErr, c2sErr, nrpc, app, up, wireVars>>

UnaryReceives ==
  /\ main.pc = "unary"
  /\ \/ /\ app.sent > 0 /\ main' = [main EXCEPT !.pc = "invoke"]
        /\ up' = Append(up, Frame("Unary", 0))
     \/ /\ app.sent = 0 /\ app.half /\ main' = [pc |-> "return", err |-> "Broken"] /\ UNCHANGED up
     \/ /\ app.cancelled /\ main' = [pc |-> "return", err |-> "Canceled"] /\ UNCHANGED up
  /\ MainOnly /\ UNCHANGED <<app, down>>

\* InvokeWithSvcID's own failure: nobody answers, or the connection is closed.
UnaryFails ==
  /\ main.pc = "invoke" /\ main' = [pc |-> "return", err |-> "Unavailable"]
  /\ MainOnly /\ UNCHANGED <<up, app, down>>

UnaryAnswers ==
  /\ main.pc = "invoke"
  /\ \/ /\ down # <<>> /\ down' = Tail(down)
        /\ main' = IF Head(down).type = "OK" THEN [main EXCEPT !.pc = "reply"]
                   ELSE [pc |-> "return", err |-> "Status"]
     \/ app.cancelled /\ main' = [pc |-> "return", err |-> "Canceled"] /\ UNCHANGED down
  /\ MainOnly /\ UNCHANGED <<up, app>>

\* SendMsg of the answer: the app takes it, or the call is cancelled first.
UnaryReplies ==
  /\ main.pc = "reply" /\ ~app.cancelled
  /\ main' = [pc |-> "return", err |-> "OK"] /\ app' = [app EXCEPT !.got = Append(@, 1)]
  /\ MainOnly /\ UNCHANGED <<up, down>>

UnaryReplyFails ==
  /\ main.pc = "reply" /\ app.cancelled
  /\ main' = [pc |-> "return", err |-> "Broken"]
  /\ MainOnly /\ UNCHANGED <<up, app, down>>

-----------------------------------------------------------------------------
(* The pumps                                                                *)

S2COnly == UNCHANGED <<call, app, main, c2s, c2sErr, wireVars, nrpc>>

\* Mutant: the channel has no capacity, and nobody takes the error after the loop.
S2CReceivesUnbuffered ==
  /\ s2c.pc = "recv"
  /\ \/ /\ s2c.n < app.sent /\ ~Returned /\ s2c' = [pc |-> "send", n |-> s2c.n + 1]
        /\ UNCHANGED s2cErr
     \/ /\ s2c' = [s2c EXCEPT !.pc = "done"] /\ main.pc = "loop"
        /\ \/ s2c.n = app.sent /\ app.half /\ s2cErr' = "EOF"
           \/ ServerDone /\ s2cErr' = "Canceled"
  /\ S2COnly /\ UNCHANGED up

\* Mutant: the end of the app's messages is reported while the last is being sent.
S2CReceivesEarlyEOF ==
  /\ s2c.pc = "recv"
  /\ \/ /\ s2c.n < app.sent /\ ~Returned /\ s2c' = [pc |-> "send", n |-> s2c.n + 1]
        /\ s2cErr' = IF app.half /\ s2c.n + 1 = app.sent THEN "EOF" ELSE s2cErr
     \/ /\ s2c' = [s2c EXCEPT !.pc = "done"]
        /\ \/ s2c.n = app.sent /\ app.half /\ s2cErr' = s2cErr
           \/ ServerDone /\ s2cErr' = "Canceled"
  /\ S2COnly /\ UNCHANGED up

S2CReceives ==
  /\ s2c.pc = "recv"
  /\ \/ /\ s2c.n < app.sent /\ ~Returned /\ s2c' = [pc |-> "send", n |-> s2c.n + 1]
        /\ UNCHANGED s2cErr
     \/ /\ s2c' = [s2c EXCEPT !.pc = "done"]
        /\ \/ s2c.n = app.sent /\ app.half /\ s2cErr' = "EOF"
           \/ ServerDone /\ s2cErr' = "Canceled"
  /\ S2COnly /\ UNCHANGED up

\* SendMsg: its check of closed, and what it publishes.
S2CSends ==
  /\ s2c.pc = "send"
  /\ \/ /\ ~nrpc.closed /\ s2c' = [s2c EXCEPT !.pc = "publish"] /\ UNCHANGED s2cErr
     \/ /\ nrpc.closed /\ s2c' = [s2c EXCEPT !.pc = "done"] /\ s2cErr' = "Closed"
  /\ S2COnly /\ UNCHANGED up

S2CPublishes ==
  /\ s2c.pc = "publish"
  /\ s2c' = [s2c EXCEPT !.pc = "recv"]
  /\ up' = up \o (IF s2c.n = 1 THEN <<Frame("Call", 0)>> ELSE <<>>) \o <<Frame("Data", s2c.n)>>
  /\ S2COnly /\ UNCHANGED s2cErr

S2C == S2CReceives \/ S2CSends \/ S2CPublishes

C2SOnly == UNCHANGED <<call, main, s2c, s2cErr, up, wireVars>>

\* RecvMsg: its select is free when both the channel and the context are ready.
C2SReceives ==
  /\ c2s.pc = "recv"
  /\ \/ /\ nrpc.recv # <<>> /\ c2s' = [pc |-> "send", n |-> Head(nrpc.recv)]
        /\ nrpc' = [nrpc EXCEPT !.recv = <<>>] /\ UNCHANGED c2sErr
     \/ /\ c2s' = [c2s EXCEPT !.pc = "done"] /\ UNCHANGED nrpc
        /\ \/ nrpc.recv = <<>> /\ nrpc.eof /\ c2sErr' = "EOF"
           \/ ClientDone /\ c2sErr' = IF nrpc.status THEN "Status" ELSE "Canceled"
  /\ C2SOnly /\ UNCHANGED app

\* SendMsg to the local app, in the proxy with the header before the first one: it
\* waits for flow control until the app reads, or the call is over.
C2SSends ==
  /\ c2s.pc = "send" /\ ~ServerDone
  /\ c2s' = [c2s EXCEPT !.pc = "recv"] /\ app' = [app EXCEPT !.got = Append(@, c2s.n)]
  /\ UNCHANGED c2sErr /\ C2SOnly /\ UNCHANGED nrpc

C2SFails ==
  /\ c2s.pc = "send" /\ ServerDone
  /\ c2s' = [c2s EXCEPT !.pc = "done"] /\ c2sErr' = "Broken"
  /\ UNCHANGED app /\ C2SOnly /\ UNCHANGED nrpc

C2S == C2SReceives \/ C2SSends \/ C2SFails

-----------------------------------------------------------------------------
(* The select loop and the return                                           *)

LoopOnly == UNCHANGED <<call, s2c, c2s, app, wireVars>>

\* Mutant: the half-close ends the call like an EOF of the server.
TakeHalfCloseReturns ==
  /\ main.pc = "loop" /\ s2cErr = "EOF" /\ s2cErr' = "nil"
  /\ main' = [pc |-> "return", err |-> "OK"]
  /\ IF call.variant = "proxyLong" THEN UNCHANGED up ELSE CloseSend
  /\ LoopOnly /\ UNCHANGED <<c2sErr, nrpc>>

\* The happy half-close goes on to wait for c2s; the loop has no third round.
TakeHalfClose ==
  /\ main.pc = "loop" /\ s2cErr = "EOF" /\ s2cErr' = "nil"
  /\ IF call.variant = "proxyLong" THEN UNCHANGED up ELSE CloseSend
  /\ LoopOnly /\ UNCHANGED <<main, c2sErr, nrpc>>

TakeS2CError ==
  /\ main.pc = "loop" /\ s2cErr \notin {"nil", "EOF"} /\ s2cErr' = "nil"
  /\ main' = [pc |-> "return", err |-> IF Proxy THEN "Internal" ELSE s2cErr]
  /\ nrpc' = [nrpc EXCEPT !.cancel = Proxy]
  /\ LoopOnly /\ UNCHANGED <<up, c2sErr>>

TakeC2S ==
  /\ main.pc = "loop" /\ c2sErr # "nil" /\ c2sErr' = "nil"
  /\ main' = [pc |-> "return", err |-> IF c2sErr = "EOF" THEN "OK" ELSE c2sErr]
  /\ LoopOnly /\ UNCHANGED <<up, s2cErr, nrpc>>

\* The proxy's deferred CloseSend, on every way out of the loop.
Return ==
  /\ main.pc = "return"
  /\ main' = [main EXCEPT !.pc = "gone"]
  /\ IF Proxy /\ call.request = "streaming" THEN CloseSend ELSE UNCHANGED up
  /\ app' = [app EXCEPT !.result = IF app.cancelled THEN "Canceled" ELSE main.err]
  /\ MainOnly /\ UNCHANGED down

Main ==
  \/ Route \/ UnaryReceives \/ UnaryFails \/ UnaryAnswers \/ UnaryReplies \/ UnaryReplyFails
  \/ TakeHalfClose \/ TakeS2CError \/ TakeC2S \/ Return

Next ==
  \/ AppSends \/ AppHalfCloses \/ AppCancels \/ RemoteSends \/ RemoteEnds
  \/ Nrpc \/ S2C \/ C2S \/ Main

Spec == Init /\ [][Next]_vars

\* The goroutines run and NATS delivers; the app, which may stop reading, the server,
\* and the owner of the client are free, and the monitor need not find a reason.
FairSpec ==
  /\ Spec
  /\ WF_vars(Reader) /\ WF_vars(WatchContext) /\ WF_vars(MonitorDone)
  /\ WF_vars(S2C) /\ WF_vars(C2SReceives \/ C2SFails)
  /\ WF_vars(\/ Route \/ UnaryReceives \/ UnaryAnswers \/ UnaryReplyFails
             \/ TakeHalfClose \/ TakeS2CError \/ TakeC2S \/ Return)

-----------------------------------------------------------------------------
UpTo(n) == [i \in 1..n |-> i]

\* The app's message m is among the first i frames of fs.
Carries(fs, i, m) == \E j \in 1..i : fs[j] = Frame("Data", m)

(* Every variable keeps its type; recv holds one message, the channels one error. *)
TypeOK ==
  /\ call \in [variant : Variants, request : Request]
  /\ app \in [sent : 0..MaxMsgs, half : BOOLEAN, cancelled : BOOLEAN,
              got : Seq(1..MaxMsgs), result : Errors \cup {"none", "OK"}]
  /\ main \in [pc : {"route", "unary", "invoke", "reply", "loop", "return", "gone"},
               err : Errors \cup {"nil", "OK"}]
  /\ s2c \in [pc : {"none", "recv", "send", "publish", "done"}, n : 0..MaxMsgs]
  /\ c2s \in [pc : {"none", "recv", "send", "done"}, n : 0..MaxMsgs]
  /\ s2cErr \in Errors \cup {"nil"} /\ c2sErr \in Errors \cup {"nil"}
  /\ up \in Seq([type : {"Unary", "Call", "Data", "End", "Abort"}, n : 0..MaxMsgs])
  /\ remote \in [sent : 0..MaxMsgs, ended : {"no", "OK", "Status"}]
  /\ down \in Seq([type : {"Data", "OK", "Status"}, n : 0..MaxMsgs])
  /\ lost \subseteq {"Data", "End"}
  /\ nrpc \in [recv : Seq(1..MaxMsgs), eof : BOOLEAN, closed : BOOLEAN, status : BOOLEAN,
               reader : {"run", "ok", "status", "record", "exit"},
               monitor : {"run", "abort", "over"}, cancel : BOOLEAN]
  /\ Len(nrpc.recv) <= 1

(* What goes out are the app's messages in order, each once; and while the call runs a
   clean End, the half-close of the protocol, goes out only when the app has half-closed,
   after all its messages, although another goroutine publishes it.  (The heartbeat
   monitor's End is an Abort, which carries Unavailable.)  An invalid call publishes
   nothing at all. *)
HalfCloseComplete ==
  /\ \A i \in 1..Len(up) : up[i].type = "Data" =>
       /\ up[i].n \in 1..app.sent
       /\ \A j \in 1..(i - 1) : up[j].type = "Data" => up[j].n < up[i].n
       /\ \A m \in 1..(up[i].n - 1) : Carries(up, i, m)
  /\ \A i \in 1..Len(up) : up[i].type = "End" /\ main.pc = "loop" =>
       app.half /\ \A m \in 1..app.sent : Carries(up, i, m)
  /\ call.request = "invalid" => up = <<>>

(* The local app gets messages of the server in their order, none twice, and, unless a
   full msgCh dropped one, a prefix of them.  Its call succeeds only if the server ended
   it with OK and, unless one was dropped, every message was relayed before: neither the
   monitor, nor Client.Close, nor a cancellation makes a success of a part.  It carries a
   status of the server only if the server ended with one. *)
AppOutcomeTrue ==
  /\ call.request = "streaming" =>
       /\ \A i, j \in 1..Len(app.got) : i < j => app.got[i] < app.got[j]
       /\ "Data" \notin lost => app.got = UpTo(Len(app.got)) /\ Len(app.got) <= remote.sent
  /\ app.result = "OK" =>
       /\ remote.ended = "OK"
       /\ IF call.request = "unary" THEN Len(app.got) = 1
          ELSE "Data" \in lost \/ Len(app.got) = remote.sent
  /\ app.result = "Status" => remote.ended = "Status"

Ended == Returned /\ s2c.pc \in {"none", "done"} /\ c2s.pc \in {"none", "done"}

(* Once the app has cancelled the call, the handler returns and both pumps end, the one
   whose error nobody takes any more too.  So they do once the server has ended the call
   or the clientStream was closed, unless msgCh dropped the End, or the app does not read
   and keeps a SendMsg waiting for ever. *)
RelayEnds ==
  /\ app.cancelled ~> Ended
  /\ \/ <>[](c2s.pc = "send" \/ main.pc = "reply")
     \/ (nrpc.closed \/ (remote.ended # "no" /\ "End" \notin lost)) ~> Ended
=============================================================================
