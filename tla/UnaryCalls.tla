----------------------------- MODULE UnaryCalls -----------------------------
(***************************************************************************)
(* Unary calls: Client.invokeOnSubject in pkg/rpc/client.go, and in         *)
(* pkg/rpc/server.go RegisterService, the unary branch of onMessage,        *)
(* serverUnaryRequestHandler and Stop, with several replicas of a server    *)
(* behind one subject.  A call is one request and one reply, so a replica   *)
(* keeps nothing for it but the goroutine of its handler; what can go wrong *)
(* lies between the goroutines and the network.                             *)
(*                                                                          *)
(* RegisterService subscribes before it fills the handler maps, and         *)
(* onMessage reads them without the lock: a request that comes in between   *)
(* may find no handler, and so may one for another service, the maps being  *)
(* written under it.  (The Go runtime may also stop the program for this:   *)
(* that is Crash.)  A request without handler falls through to the streams  *)
(* and makes a serverStream, which ignores it.                              *)
(*                                                                          *)
(* The subscription of a service carries the frames of its streams too.     *)
(* onMessage hands a frame to the inbox of its stream and waits while that  *)
(* is full, which it stays while the stream's handler does not receive: the *)
(* requests behind it wait as well.                                         *)
(*                                                                          *)
(* A subject is a pair of a nid and a service.  All replicas that subscribe *)
(* to one do so in the same queue group, the service's name.                *)
(***************************************************************************)
EXTENDS Naturals, Sequences

CONSTANTS
  Calls,      \* calls of Client.Invoke
  Replicas,   \* servers; one that is started again counts as another
  Services,   \* service descriptors every replica may register
  NoService,  \* RegisterService is not running
  Frame,      \* a frame of some stream of the service, whatever it carries
  Target,     \* per call: its subject, a nid and a service
  Nid,        \* per replica: Server.nid
  Streaming,  \* replicas that serve streams as well
  Late,       \* replicas that have yet to register their services
  CtxErrors,  \* how a caller's context may end: "Canceled", "DeadlineExceeded"
  KnownSets   \* choices for the calls whose method their service has, as a unary one

ASSUME UnaryAssumption ==
  /\ NoService \notin Services /\ Frame \notin Calls
  /\ \A c \in Calls : Target[c][2] \in Services
  /\ KnownSets \subseteq SUBSET Calls
  /\ Late \subseteq Replicas /\ Streaming \subseteq Replicas
  /\ CtxErrors \subseteq {"Canceled", "DeadlineExceeded"}

VARIABLES
  known,        \* calls of a method their service has as a unary method, fixed
  \* the callers
  context,      \* per call: the caller's context
  outcome,      \* per call: what Invoke returned
  \* NATS
  request,      \* per call: where its request is
  replies,      \* per call: replies on their way to its inbox
  \* Server, per replica
  status,       \* running, stopping after Stop, or crashed
  subs,         \* Server.subs: the services subscribed
  registering,  \* the service whose RegisterService holds Server.mu
  served,       \* services with entries in handlers and unaryHandlers
  pending,      \* per service: the subscription's messages, oldest first
  missed,       \* per service: the message that onMessage takes to a stream
  strays,       \* Server.streams: the calls that made a serverStream
  work          \* per call: the goroutine of its unary handler

callerVars == <<known, context, outcome>>
natsVars == <<request, replies>>
registryVars == <<status, subs, registering, served>>
dispatchVars == <<pending, missed, strays>>
vars == <<callerVars, natsVars, registryVars, dispatchVars, work>>

\* The status of a UnaryResponse; Error also for a response of the handler that
\* proto.Marshal refuses.
Result == {"OK", "Error"}
Messages == Calls \cup {Frame}
NoWork == [pc |-> "none", result |-> "none"]

Init ==
  /\ known \in KnownSets
  /\ context = [c \in Calls |-> "open"]
  /\ outcome = [c \in Calls |-> "none"]
  /\ request = [c \in Calls |-> "none"]
  /\ replies = [c \in Calls |-> {}]
  /\ status = [r \in Replicas |-> "running"]
  /\ subs = [r \in Replicas |-> IF r \in Late THEN {} ELSE Services]
  /\ registering = [r \in Replicas |-> NoService]
  /\ served = subs
  /\ pending = [r \in Replicas |-> [s \in Services |-> <<>>]]
  /\ missed = [r \in Replicas |-> [s \in Services |-> <<>>]]
  /\ strays = [r \in Replicas |-> {}]
  /\ work = [r \in Replicas |-> [c \in Calls |-> NoWork]]

-----------------------------------------------------------------------------
(* The caller: invokeOnSubject around nats.Conn.RequestWithContext.         *)

\* The inbox of the call ends with it.
Returns(c, o) ==
  /\ outcome[c] = "none"
  /\ outcome' = [outcome EXCEPT ![c] = o]
  /\ replies' = [replies EXCEPT ![c] = {}]
  /\ UNCHANGED <<known, context, request, registryVars, dispatchVars, work>>

\* The request goes out, unless the context is done already.
Invoke(c) ==
  /\ outcome[c] = "none" /\ request[c] = "none" /\ context[c] = "open"
  /\ request' = [request EXCEPT ![c] = "wire"]
  /\ UNCHANGED <<callerVars, replies, registryVars, dispatchVars, work>>

\* The arguments cannot be marshalled.
InvokeFails(c) == request[c] = "none" /\ Returns(c, "Invalid")

ContextEnds(c, why) ==
  /\ context[c] = "open" /\ outcome[c] = "none"
  /\ context' = [context EXCEPT ![c] = why]
  /\ UNCHANGED <<known, outcome, natsVars, registryVars, dispatchVars, work>>

\* The switch on RequestWithContext's error: the context's keeps its code, and a
\* closed connection is Unavailable.
ReturnContextError(c) == context[c] # "open" /\ Returns(c, context[c])

ReturnConnectionClosed(c) == Returns(c, "Unavailable")

\* A reply: the status it carries, or an answer that cannot be unmarshalled,
\* or the no-responders message of the NATS server.  RequestWithContext
\* chooses freely between a reply and a context that is done.
ReturnReply(c) ==
  \E a \in replies[c] :
    \/ Returns(c, a)
    \/ a = "OK" /\ Returns(c, "Undecodable")

Caller(c) ==
  \/ Invoke(c)
  \/ InvokeFails(c)
  \/ \E why \in CtxErrors : ContextEnds(c, why)
  \/ ReturnContextError(c)
  \/ ReturnConnectionClosed(c)
  \/ ReturnReply(c)

-----------------------------------------------------------------------------
(* NATS: one member of the queue group gets the request, or nobody does     *)
(* when it is lost: it then stays on the wire.  A reply to a call that is   *)
(* over is dropped.                                                         *)

Reply(c, sent) ==
  replies' = [replies EXCEPT ![c] = IF outcome[c] = "none" THEN @ \cup sent ELSE {}]

Subscribers(c) == {r \in Replicas : Nid[r] = Target[c][1] /\ Target[c][2] \in subs[r]}

Queued(c, receivers) ==
  pending' = [r \in Replicas |->
    IF r \in receivers THEN [pending[r] EXCEPT ![Target[c][2]] = Append(@, c)] ELSE pending[r]]

NoResponders(c) ==
  /\ request[c] = "wire" /\ Subscribers(c) = {}
  /\ request' = [request EXCEPT ![c] = "gone"]
  /\ Reply(c, {"NoResponders"})
  /\ UNCHANGED <<callerVars, registryVars, dispatchVars, work>>

\* Mutant: a subscription without a queue group.
RouteToAll(c) ==
  /\ request[c] = "wire" /\ Subscribers(c) # {}
  /\ request' = [request EXCEPT ![c] = "gone"]
  /\ Queued(c, Subscribers(c))
  /\ UNCHANGED <<callerVars, replies, registryVars, missed, strays, work>>

Route(c) ==
  /\ request[c] = "wire"
  /\ \E r \in Subscribers(c) : Queued(c, {r})
  /\ request' = [request EXCEPT ![c] = "gone"]
  /\ UNCHANGED <<callerVars, replies, registryVars, missed, strays, work>>

NATS(c) == NoResponders(c) \/ Route(c)

\* A frame of a stream comes in.  Bound: one frame waits in a queue at a time.
FrameArrives(r, s) ==
  /\ r \in Streaming /\ s \in subs[r]
  /\ \A i \in 1..Len(pending[r][s]) : pending[r][s][i] # Frame
  /\ pending' = [pending EXCEPT ![r][s] = Append(@, Frame)]
  /\ UNCHANGED <<callerVars, natsVars, registryVars, missed, strays, work>>

-----------------------------------------------------------------------------
(* RegisterService, under Server.mu from its first line to its last.        *)

RegisterSubscribes(r, s) ==
  /\ status[r] = "running" /\ registering[r] = NoService
  /\ s \notin subs[r]
  /\ subs' = [subs EXCEPT ![r] = @ \cup {s}]
  /\ registering' = [registering EXCEPT ![r] = s]
  /\ UNCHANGED <<callerVars, natsVars, status, served, dispatchVars, work>>

RegisterEntries(r) ==
  /\ status[r] # "crashed" /\ registering[r] # NoService
  /\ served' = [served EXCEPT ![r] = @ \cup {registering[r]}]
  /\ registering' = [registering EXCEPT ![r] = NoService]
  /\ UNCHANGED <<callerVars, natsVars, status, subs, dispatchVars, work>>

(* onMessage, on the subscription's own goroutine.                          *)

\* What s.unaryHandlers[method] may say; a frame is not looked up.
Lookup(r, c) ==
  IF c \notin known \/ Target[c][2] \notin served[r] \cup {registering[r]} THEN {FALSE}
  ELSE IF registering[r] # NoService THEN {TRUE, FALSE}
  ELSE {TRUE}

\* Mutant: the handler runs on the dispatcher's goroutine.
DispatchingInline(r, s) ==
  /\ status[r] # "crashed" /\ s \in subs[r]
  /\ pending[r][s] # <<>> /\ missed[r][s] = <<>>
  /\ \A c \in Calls : Target[c][2] = s => work[r][c].pc \notin {"running", "answer"}

Dispatching(r, s) ==
  /\ status[r] # "crashed" /\ s \in subs[r]
  /\ pending[r][s] # <<>> /\ missed[r][s] = <<>>

OnMessage(r, s) ==
  /\ Dispatching(r, s)
  /\ LET c == Head(pending[r][s]) IN
     /\ TRUE \in Lookup(r, c)
     /\ work' = [work EXCEPT ![r][c].pc = "running"]
  /\ pending' = [pending EXCEPT ![r][s] = Tail(@)]
  /\ UNCHANGED <<callerVars, natsVars, registryVars, missed, strays>>

\* Everything else goes to a stream: a frame, and a call without handler.
OnMessageMisses(r, s) ==
  /\ Dispatching(r, s)
  /\ FALSE \in Lookup(r, Head(pending[r][s]))
  /\ missed' = [missed EXCEPT ![r][s] = <<Head(pending[r][s])>>]
  /\ pending' = [pending EXCEPT ![r][s] = Tail(@)]
  /\ UNCHANGED <<callerVars, natsVars, registryVars, strays, work>>

\* The rest of onMessage: streams[reply] under Server.mu, and enqueue, which ends
\* when the inbox takes the message or the stream ends.  A call makes a
\* serverStream of its own, with an empty inbox, that nobody will end.
EnterStream(r, s) ==
  /\ missed[r][s] # <<>> /\ registering[r] = NoService
  /\ strays' = [strays EXCEPT ![r] = @ \cup ({Head(missed[r][s])} \ {Frame})]
  /\ missed' = [missed EXCEPT ![r][s] = <<>>]
  /\ UNCHANGED <<callerVars, natsVars, registryVars, pending, work>>

-----------------------------------------------------------------------------
(* serverUnaryRequestHandler, a goroutine per request.  Its context is not  *)
(* the caller's and is not ended by Stop.                                   *)

HandlerReturns(r, c, res) ==
  /\ work[r][c].pc = "running"
  /\ work' = [work EXCEPT ![r][c] = [pc |-> "answer", result |-> res]]
  /\ UNCHANGED <<callerVars, natsVars, registryVars, dispatchVars>>

\* The response goes out, or does not: its status may not marshal, msg.Respond
\* may be refused (both are logged), and NATS may lose it.
Respond(r, c) ==
  /\ work[r][c].pc = "answer"
  /\ \E sent \in {{}, {work[r][c].result}} : Reply(c, sent)
  /\ work' = [work EXCEPT ![r][c].pc = "done"]
  /\ UNCHANGED <<callerVars, request, registryVars, dispatchVars>>

-----------------------------------------------------------------------------
(* Server.Stop: the streams of its snapshot are finalized, then each        *)
(* service is unsubscribed, which drops what the subscription had pending.  *)

StopStreams(r) ==
  /\ status[r] = "running" /\ registering[r] = NoService
  /\ status' = [status EXCEPT ![r] = "stopping"]
  /\ strays' = [strays EXCEPT ![r] = {}]
  /\ UNCHANGED <<callerVars, natsVars, subs, registering, served, pending, missed, work>>

\* Mutant: the subscription is only forgotten.
UnsubscribeForgets(r, s) ==
  /\ status[r] = "stopping" /\ s \in subs[r]
  /\ subs' = [subs EXCEPT ![r] = @ \ {s}]
  /\ UNCHANGED <<callerVars, natsVars, status, registering, served, dispatchVars, work>>

Unsubscribe(r, s) ==
  /\ status[r] = "stopping" /\ s \in subs[r]
  /\ subs' = [subs EXCEPT ![r] = @ \ {s}]
  /\ pending' = [pending EXCEPT ![r][s] = <<>>]
  /\ UNCHANGED <<callerVars, natsVars, status, registering, served, missed, strays, work>>

\* The process ends: everything it held is gone.
Crash(r) ==
  /\ status[r] # "crashed"
  /\ status' = [status EXCEPT ![r] = "crashed"]
  /\ subs' = [subs EXCEPT ![r] = {}]
  /\ registering' = [registering EXCEPT ![r] = NoService]
  /\ served' = [served EXCEPT ![r] = {}]
  /\ pending' = [pending EXCEPT ![r] = [s \in Services |-> <<>>]]
  /\ missed' = [missed EXCEPT ![r] = [s \in Services |-> <<>>]]
  /\ strays' = [strays EXCEPT ![r] = {}]
  /\ work' = [work EXCEPT ![r] = [c \in Calls |->
       IF @[c].pc \in {"running", "answer"} THEN [@[c] EXCEPT !.pc = "killed"] ELSE @[c]]]
  /\ UNCHANGED <<callerVars, natsVars>>

Server(r) ==
  \/ RegisterEntries(r)
  \/ StopStreams(r)
  \/ Crash(r)
  \/ \E s \in Services :
       RegisterSubscribes(r, s) \/ FrameArrives(r, s) \/ OnMessage(r, s) \/ OnMessageMisses(r, s)
         \/ EnterStream(r, s) \/ Unsubscribe(r, s)
  \/ \E c \in Calls : Respond(r, c) \/ \E res \in Result : HandlerReturns(r, c, res)

Next == (\E c \in Calls : Caller(c) \/ NATS(c)) \/ (\E r \in Replicas : Server(r))

Spec == Init /\ [][Next]_vars

\* The goroutines of the server run.  The network, the callers, the handlers and
\* the operators of the servers promise nothing; nor does the inbox that a frame
\* has to wait for, which empties only as the handler of its stream receives.
Fairness ==
  \A r \in Replicas :
    /\ WF_vars(RegisterEntries(r))
    /\ \A s \in Services :
         /\ WF_vars(OnMessage(r, s) \/ OnMessageMisses(r, s))
         /\ WF_vars(missed[r][s] # <<Frame>> /\ EnterStream(r, s))

FairSpec == Spec /\ Fairness

-----------------------------------------------------------------------------
(* Properties                                                               *)

\* Types; and a subscription that is gone has nothing left to dispatch
\* (Server.Stop, server.go:308-313), nor does a crashed process.
TypeOK ==
  /\ known \in KnownSets
  /\ context \in [Calls -> {"open"} \cup CtxErrors]
  /\ outcome \in [Calls -> Result \cup CtxErrors \cup
                         {"none", "NoResponders", "Undecodable", "Invalid", "Unavailable"}]
  /\ request \in [Calls -> {"none", "wire", "gone"}]
  /\ replies \in [Calls -> SUBSET {"OK", "Error", "NoResponders"}]
  /\ status \in [Replicas -> {"running", "stopping", "crashed"}]
  /\ subs \in [Replicas -> SUBSET Services] /\ served \in [Replicas -> SUBSET Services]
  /\ registering \in [Replicas -> Services \cup {NoService}]
  /\ strays \in [Replicas -> SUBSET Calls]
  /\ pending \in [Replicas -> [Services -> Seq(Messages)]]
  /\ missed \in [Replicas -> [Services -> Seq(Messages)]]
  /\ \A r \in Replicas, s \in Services : s \notin subs[r] => pending[r][s] = <<>>
  /\ work \in [Replicas -> [Calls -> [pc : {"none", "running", "answer", "done", "killed"},
                                      result : Result \cup {"none"}]]]

\* The refinement mapping to what a unary call promises: the replicas that took a
\* call up, and how its handler returned.
HandledBy(c) == {r \in Replicas : work[r][c].pc # "none"}
Results(c) == {work[r][c].result : r \in Replicas} \ {"none"}
ResultOf(c) == IF Results(c) = {} THEN "none" ELSE CHOOSE res \in Results(c) : TRUE

Contract == INSTANCE UnaryContract WITH
  handled <- [c \in Calls |-> HandledBy(c)],
  result <- [c \in Calls |-> ResultOf(c)]

\* A call runs on one replica at most, whatever replicas come and go, and what
\* Invoke returns is true of it: OK and an error status are the handler's own,
\* a context error is the context's, and after "no responders" no handler runs,
\* now or later (README.md:138-180, client.go:214-217 and 294-303).
ImplementsContract == Contract!Spec

\* A request for a registered method that reached a replica gets its handler,
\* however long the handlers of other requests take: the dispatcher does not
\* wait for them (server.go:448-453).  It may not get it when the replica stops,
\* when the lookup raced with a registration, or when the dispatcher stays in
\* enqueue with a frame for a stream whose inbox is full and whose handler has
\* stopped receiving (server.go:479, 566-571).
RequestIsHandled ==
  \A r \in Replicas : \A c \in Calls :
    LET s == Target[c][2]
        Waiting == c \in {pending[r][s][i] : i \in 1..Len(pending[r][s])} IN
    \/ <>[](missed[r][s] = <<Frame>>)
    \/ Waiting ~> \/ work[r][c].pc # "none"
                  \/ status[r] # "running"
                  \/ missed[r][s] = <<c>>
=============================================================================
