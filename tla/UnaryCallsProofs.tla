---------------------------- MODULE UnaryCallsProofs ----------------------------
(***************************************************************************)
(* Proofs about UnaryCalls, for every set of calls, replicas and services,  *)
(* every way of addressing them, and replicas that register, stop and crash *)
(* at any moment: its type correctness, and that it implements the contract *)
(* of a unary call.                                                         *)
(*                                                                          *)
(* The argument is about where a call is.  Its request is not sent, or on   *)
(* the wire, or at one position of one pending queue, or taken up by one    *)
(* replica, or gone; and it is at one of these places only.  The frames of  *)
(* streams that share the queues are no calls.                              *)
(***************************************************************************)
EXTENDS UnaryCalls, SequenceTheorems, TLAPS

-----------------------------------------------------------------------------
(* Type correctness                                                         *)

Answers == {"OK", "Error", "NoResponders"}
Outcomes == Result \cup CtxErrors \cup
              {"none", "NoResponders", "Undecodable", "Invalid", "Unavailable"}
Queues == [Services -> Seq(Messages)]

\* The parts of TypeOK the caller, NATS, the registry and the dispatcher change.
CallerOK ==
  /\ known \in KnownSets
  /\ context \in [Calls -> {"open"} \cup CtxErrors]
  /\ outcome \in [Calls -> Outcomes]
NatsOK ==
  /\ request \in [Calls -> {"none", "wire", "gone"}]
  /\ replies \in [Calls -> SUBSET Answers]
RegistryOK ==
  /\ status \in [Replicas -> {"running", "stopping", "crashed"}]
  /\ subs \in [Replicas -> SUBSET Services] /\ served \in [Replicas -> SUBSET Services]
  /\ registering \in [Replicas -> Services \cup {NoService}]
DispatchOK ==
  /\ strays \in [Replicas -> SUBSET Calls]
  /\ pending \in [Replicas -> Queues] /\ missed \in [Replicas -> Queues]
QueuesOfSubs == \A r \in Replicas, s \in Services : s \notin subs[r] => pending[r][s] = <<>>
WorkOK ==
  work \in [Replicas -> [Calls -> [pc : {"none", "running", "answer", "done", "killed"},
                                   result : Result \cup {"none"}]]]

\* The parts make up TypeOK, before a step and after it.
LEMMA TypeParts ==
  /\ TypeOK <=> CallerOK /\ NatsOK /\ RegistryOK /\ DispatchOK /\ QueuesOfSubs /\ WorkOK
  /\ TypeOK' <=> CallerOK' /\ NatsOK' /\ RegistryOK' /\ DispatchOK' /\ QueuesOfSubs' /\ WorkOK'
BY Zenon DEF TypeOK, CallerOK, NatsOK, RegistryOK, DispatchOK, QueuesOfSubs, WorkOK, Answers,
             Outcomes, Queues

\* A call's service is one of the services.
LEMMA TargetService == ASSUME NEW c \in Calls PROVE Target[c][2] \in Services
BY UnaryAssumption

\* A call is a message, and no frame.
LEMMA CallMessage == ASSUME NEW c \in Calls PROVE c \in Messages /\ c # Frame
BY UnaryAssumption DEF Messages

\* The pieces of a queue that is not empty.
LEMMA QueueParts ==
  ASSUME NEW q \in Seq(Messages), q # <<>>
  PROVE  Head(q) \in Messages /\ Tail(q) \in Seq(Messages)
BY HeadTailProperties

\* Where a program starts.
LEMMA InitTyped == Init => TypeOK
<1> SUFFICES ASSUME Init PROVE TypeOK
  OBVIOUS
<1>1. CallerOK /\ NatsOK /\ WorkOK
  BY DEF Init, CallerOK, NatsOK, WorkOK, NoWork, Outcomes, Answers
<1>2. RegistryOK
  BY DEF Init, RegistryOK
<1>3. DispatchOK /\ QueuesOfSubs
  <2>1. [s \in Services |-> <<>>] \in Queues
    BY DEF Queues
  <2> QED
    BY <2>1 DEF Init, DispatchOK, QueuesOfSubs
<1> QED
  BY <1>1, <1>2, <1>3, TypeParts

\* The end of a call, whatever its outcome.
LEMMA ReturnsTyped ==
  ASSUME TypeOK, NEW c \in Calls, NEW o \in Outcomes, Returns(c, o)
  PROVE  TypeOK'
<1>1. CallerOK' /\ NatsOK'
  BY TypeParts DEF Returns, CallerOK, NatsOK
<1>2. RegistryOK' /\ DispatchOK' /\ QueuesOfSubs' /\ WorkOK'
  BY TypeParts DEF Returns, registryVars, dispatchVars, RegistryOK, DispatchOK, QueuesOfSubs, WorkOK
<1> QED
  BY <1>1, <1>2, TypeParts

\* The caller's goroutine and its context.
LEMMA CallerTyped ==
  ASSUME TypeOK, NEW c \in Calls, Caller(c)
  PROVE  TypeOK'
<1>1. CASE Invoke(c)
  BY <1>1, TypeParts DEF Invoke, callerVars, registryVars, dispatchVars, CallerOK, NatsOK,
                         RegistryOK, DispatchOK, QueuesOfSubs, WorkOK
<1>2. CASE InvokeFails(c) \/ ReturnConnectionClosed(c)
  BY <1>2, ReturnsTyped DEF InvokeFails, ReturnConnectionClosed, Outcomes
<1>3. ASSUME NEW why \in CtxErrors, ContextEnds(c, why)
      PROVE  TypeOK'
  <2>1. CallerOK'
    BY <1>3, UnaryAssumption, TypeParts DEF ContextEnds, CallerOK
  <2> QED
    BY <1>3, <2>1, TypeParts DEF ContextEnds, natsVars, registryVars, dispatchVars, NatsOK,
                                 RegistryOK, DispatchOK, QueuesOfSubs, WorkOK
<1>4. CASE ReturnContextError(c)
  <2>1. context[c] \in Outcomes
    BY <1>4, TypeParts DEF ReturnContextError, CallerOK, Outcomes
  <2> QED
    BY <1>4, <2>1, ReturnsTyped DEF ReturnContextError
<1>5. CASE ReturnReply(c)
  <2>1. PICK a \in replies[c] : Returns(c, a) \/ Returns(c, "Undecodable")
    BY <1>5 DEF ReturnReply
  <2>2. a \in Outcomes /\ "Undecodable" \in Outcomes
    BY <2>1, TypeParts DEF NatsOK, Answers, Outcomes, Result
  <2> QED
    BY <2>1, <2>2, ReturnsTyped
<1> QED
  BY <1>1, <1>2, <1>3, <1>4, <1>5 DEF Caller

\* NATS gives a request to one subscriber or to none.
LEMMA NatsTyped ==
  ASSUME TypeOK, NEW c \in Calls, NATS(c)
  PROVE  TypeOK'
<1>1. CASE NoResponders(c)
  <2>1. NatsOK'
    BY <1>1, TypeParts DEF NoResponders, Reply, NatsOK, Answers
  <2> QED
    BY <1>1, <2>1, TypeParts DEF NoResponders, callerVars, registryVars, dispatchVars, CallerOK,
                                 RegistryOK, DispatchOK, QueuesOfSubs, WorkOK
<1>2. CASE Route(c)
  <2> DEFINE s == Target[c][2]
  <2>1. PICK r \in Subscribers(c) : Queued(c, {r})
    BY <1>2 DEF Route
  <2>2. r \in Replicas /\ s \in Services /\ s \in subs[r]
    BY <2>1, TargetService DEF Subscribers
  <2> HIDE DEF s
  <2>3. pending' = [q \in Replicas |->
                     IF q = r THEN [pending[q] EXCEPT ![s] = Append(@, c)] ELSE pending[q]]
    BY <2>1 DEF Queued, s
  <2>4. [pending[r] EXCEPT ![s] = Append(@, c)] \in Queues
    <3>1. pending[r] \in [Services -> Seq(Messages)]
      BY <2>2, TypeParts DEF DispatchOK, Queues
    <3>2. Append(pending[r][s], c) \in Seq(Messages)
      BY <2>2, <3>1, CallMessage
    <3> QED
      BY <3>1, <3>2 DEF Queues
  <2>5. DispatchOK'
    BY <1>2, <2>3, <2>4, TypeParts DEF Route, DispatchOK
  <2>6. QueuesOfSubs'
    BY <1>2, <2>2, <2>3, TypeParts DEF Route, registryVars, QueuesOfSubs, DispatchOK, Queues
  <2>7. NatsOK'
    BY <1>2, TypeParts DEF Route, NatsOK
  <2> QED
    BY <1>2, <2>5, <2>6, <2>7, TypeParts DEF Route, callerVars, registryVars, CallerOK, RegistryOK,
                                             WorkOK
<1> QED
  BY <1>1, <1>2 DEF NATS

\* A frame of a stream comes in.
LEMMA FrameTyped ==
  ASSUME TypeOK, NEW r \in Replicas, NEW s \in Services, FrameArrives(r, s)
  PROVE  TypeOK'
<1>1. pending \in [Replicas -> Queues] /\ pending[r][s] \in Seq(Messages)
  BY TypeParts DEF DispatchOK, Queues
<1>2. pending' = [pending EXCEPT ![r][s] = Append(pending[r][s], Frame)]
  BY <1>1 DEF FrameArrives, Queues
<1>3. Append(pending[r][s], Frame) \in Seq(Messages)
  BY <1>1 DEF Messages
<1>4. /\ pending' \in [Replicas -> Queues]
      /\ \A t \in Replicas, u \in Services : t # r \/ u # s => pending'[t][u] = pending[t][u]
  BY <1>1, <1>2, <1>3 DEF Queues
<1>5. DispatchOK' /\ QueuesOfSubs'
  BY <1>4, TypeParts DEF FrameArrives, registryVars, DispatchOK, QueuesOfSubs
<1> QED
  BY <1>5, TypeParts DEF FrameArrives, callerVars, natsVars, registryVars, CallerOK, NatsOK,
                         RegistryOK, WorkOK

\* RegisterService and Stop.
LEMMA RegistryTyped ==
  ASSUME TypeOK, NEW r \in Replicas,
         \/ RegisterEntries(r) \/ StopStreams(r)
         \/ \E s \in Services : RegisterSubscribes(r, s) \/ Unsubscribe(r, s)
  PROVE  TypeOK'
<1>1. CASE RegisterEntries(r)
  <2>1. RegistryOK'
    BY <1>1, TypeParts DEF RegisterEntries, RegistryOK
  <2> QED
    BY <1>1, <2>1, TypeParts DEF RegisterEntries, callerVars, natsVars, dispatchVars, CallerOK,
                                 NatsOK, DispatchOK, QueuesOfSubs, WorkOK
<1>2. CASE StopStreams(r)
  <2>1. RegistryOK' /\ DispatchOK'
    BY <1>2, TypeParts DEF StopStreams, RegistryOK, DispatchOK
  <2> QED
    BY <1>2, <2>1, TypeParts DEF StopStreams, callerVars, natsVars, CallerOK, NatsOK,
                                 QueuesOfSubs, WorkOK
<1>3. ASSUME NEW s \in Services, RegisterSubscribes(r, s)
      PROVE  TypeOK'
  <2>1. RegistryOK' /\ QueuesOfSubs'
    BY <1>3, TypeParts DEF RegisterSubscribes, dispatchVars, RegistryOK, QueuesOfSubs
  <2> QED
    BY <1>3, <2>1, TypeParts DEF RegisterSubscribes, callerVars, natsVars, dispatchVars, CallerOK,
                                 NatsOK, DispatchOK, WorkOK
<1>4. ASSUME NEW s \in Services, Unsubscribe(r, s)
      PROVE  TypeOK'
  <2>1. RegistryOK'
    BY <1>4, TypeParts DEF Unsubscribe, RegistryOK
  <2>2. pending' = [pending EXCEPT ![r][s] = <<>>] /\ pending \in [Replicas -> Queues]
        /\ <<>> \in Seq(Messages)
    BY <1>4, TypeParts DEF Unsubscribe, DispatchOK
  <2>3. DispatchOK'
    BY <1>4, <2>2, TypeParts DEF Unsubscribe, DispatchOK, Queues
  <2>4. \A t \in Replicas, u \in Services :
          pending'[t][u] = IF t = r /\ u = s THEN <<>> ELSE pending[t][u]
    BY <2>2 DEF Queues
  <2>5. QueuesOfSubs'
    BY <1>4, <2>4, TypeParts DEF Unsubscribe, QueuesOfSubs, RegistryOK
  <2> QED
    BY <1>4, <2>1, <2>3, <2>5, TypeParts DEF Unsubscribe, callerVars, natsVars, CallerOK, NatsOK,
                                             WorkOK
<1> QED
  BY <1>1, <1>2, <1>3, <1>4

\* What a lookup finds a handler for is a call.
LEMMA LookedUp ==
  ASSUME TypeOK, NEW r \in Replicas, NEW m, TRUE \in Lookup(r, m)
  PROVE  m \in Calls
<1>1. m \in known
  BY DEF Lookup
<1> QED
  BY <1>1, UnaryAssumption, TypeParts DEF CallerOK

\* onMessage and what follows a lookup that missed.
LEMMA DispatchTyped ==
  ASSUME TypeOK, NEW r \in Replicas, NEW s \in Services,
         OnMessage(r, s) \/ OnMessageMisses(r, s) \/ EnterStream(r, s)
  PROVE  TypeOK'
<1> DEFINE q == pending[r][s]
<1>1. pending \in [Replicas -> Queues] /\ missed \in [Replicas -> Queues] /\ q \in Seq(Messages)
  BY TypeParts DEF DispatchOK, Queues
<1>2. ASSUME Dispatching(r, s), pending' = [pending EXCEPT ![r][s] = Tail(@)], UNCHANGED subs
      PROVE  pending' \in [Replicas -> Queues] /\ QueuesOfSubs' /\ Head(q) \in Messages
  <2>1. q # <<>> /\ Head(q) \in Messages /\ Tail(q) \in Seq(Messages) /\ s \in subs[r]
    BY <1>1, <1>2, QueueParts DEF Dispatching
  <2>2. pending' = [pending EXCEPT ![r][s] = Tail(q)]
    BY <1>1, <1>2 DEF Queues
  <2> HIDE DEF q
  <2>3. \A t \in Replicas, u \in Services : t # r \/ u # s => pending'[t][u] = pending[t][u]
    BY <1>1, <2>1, <2>2 DEF Queues
  <2>4. pending' \in [Replicas -> Queues]
    BY <1>1, <2>1, <2>2 DEF Queues
  <2> QED
    BY <1>2, <2>1, <2>3, <2>4, TypeParts DEF QueuesOfSubs
<1>3. CASE OnMessage(r, s)
  <2>1. DispatchOK' /\ QueuesOfSubs' /\ Head(q) \in Calls
    BY <1>2, <1>3, TypeParts, LookedUp DEF OnMessage, registryVars, DispatchOK
  <2>2. PICK c \in Calls : work' = [work EXCEPT ![r][c].pc = "running"]
    BY <1>3, <2>1 DEF OnMessage
  <2>3. WorkOK'
    BY <2>2, TypeParts DEF WorkOK
  <2> QED
    BY <1>3, <2>1, <2>3, TypeParts DEF OnMessage, callerVars, natsVars, registryVars, CallerOK,
                                       NatsOK, RegistryOK
<1>4. CASE OnMessageMisses(r, s)
  <2>1. pending' \in [Replicas -> Queues] /\ QueuesOfSubs' /\ Head(q) \in Messages
    BY <1>2, <1>4 DEF OnMessageMisses, registryVars
  <2>2. <<Head(q)>> \in Seq(Messages) /\ missed' = [missed EXCEPT ![r][s] = <<Head(q)>>]
    BY <1>4, <2>1 DEF OnMessageMisses
  <2> HIDE DEF q
  <2>3. DispatchOK'
    BY <1>1, <1>4, <2>1, <2>2, TypeParts DEF OnMessageMisses, DispatchOK, Queues
  <2> QED
    BY <1>4, <2>1, <2>3, TypeParts DEF OnMessageMisses, callerVars, natsVars, registryVars,
                                       CallerOK, NatsOK, RegistryOK, WorkOK
<1>5. CASE EnterStream(r, s)
  <2>1. {Head(missed[r][s])} \ {Frame} \subseteq Calls
    BY <1>1, <1>5, QueueParts DEF EnterStream, Queues, Messages
  <2>2. <<>> \in Seq(Messages) /\ missed' = [missed EXCEPT ![r][s] = <<>>]
    BY <1>5 DEF EnterStream
  <2>3. DispatchOK'
    BY <1>1, <1>5, <2>1, <2>2, TypeParts DEF EnterStream, DispatchOK, Queues
  <2> QED
    BY <1>5, <2>3, TypeParts DEF EnterStream, callerVars, natsVars, registryVars, CallerOK, NatsOK,
                                 RegistryOK, QueuesOfSubs, WorkOK
<1> QED
  BY <1>3, <1>4, <1>5

\* A handler has a result from its return on, and none before.
WorkHolds == \A r \in Replicas, c \in Calls :
  /\ work[r][c].pc \in {"none", "running"} => work[r][c].result = "none"
  /\ work[r][c].pc \in {"answer", "done"} => work[r][c].result \in Result

\* A handler's goroutine.
LEMMA WorkTyped ==
  ASSUME TypeOK, WorkHolds, NEW r \in Replicas, NEW c \in Calls,
         Respond(r, c) \/ \E res \in Result : HandlerReturns(r, c, res)
  PROVE  TypeOK'
<1>1. CASE Respond(r, c)
  <2>1. work[r][c].result \in Answers
    BY <1>1 DEF WorkHolds, Respond, Answers, Result
  <2>2. PICK sent \in {{}, {work[r][c].result}} : Reply(c, sent)
    BY <1>1 DEF Respond
  <2>3. sent \in SUBSET Answers
    BY <2>1, <2>2
  <2>4. NatsOK'
    BY <1>1, <2>2, <2>3, TypeParts DEF Respond, Reply, NatsOK
  <2>5. WorkOK'
    BY <1>1, TypeParts DEF Respond, WorkOK
  <2> QED
    BY <1>1, <2>4, <2>5, TypeParts DEF Respond, callerVars, registryVars, dispatchVars, CallerOK,
                                       RegistryOK, DispatchOK, QueuesOfSubs
<1>2. ASSUME NEW res \in Result, HandlerReturns(r, c, res)
      PROVE  TypeOK'
  <2>1. WorkOK'
    BY <1>2, TypeParts DEF HandlerReturns, WorkOK
  <2> QED
    BY <1>2, <2>1, TypeParts DEF HandlerReturns, callerVars, natsVars, registryVars, dispatchVars,
                                 CallerOK, NatsOK, RegistryOK, DispatchOK, QueuesOfSubs
<1> QED
  BY <1>1, <1>2

\* What a crash leaves of the goroutines of its replica.
CrashedWork(r) == [c \in Calls |->
  IF work[r][c].pc \in {"running", "answer"} THEN [work[r][c] EXCEPT !.pc = "killed"]
  ELSE work[r][c]]

\* A replica that crashes.
LEMMA CrashTyped ==
  ASSUME TypeOK, NEW r \in Replicas, Crash(r)
  PROVE  TypeOK'
<1>1. RegistryOK'
  BY TypeParts DEF Crash, RegistryOK
<1>2. DispatchOK' /\ QueuesOfSubs'
  <2>1. [s \in Services |-> <<>>] \in Queues
    BY DEF Queues
  <2> QED
    BY <2>1, TypeParts DEF Crash, DispatchOK, QueuesOfSubs, RegistryOK
<1>3. WorkOK'
  <2>1. work' = [work EXCEPT ![r] = CrashedWork(r)]
    BY TypeParts DEF Crash, CrashedWork, WorkOK
  <2>2. CrashedWork(r) \in [Calls -> [pc : {"none", "running", "answer", "done", "killed"},
                                      result : Result \cup {"none"}]]
    BY TypeParts DEF CrashedWork, WorkOK
  <2> QED
    BY <2>1, <2>2, TypeParts DEF WorkOK
<1> QED
  BY <1>1, <1>2, <1>3, TypeParts DEF Crash, callerVars, natsVars, CallerOK, NatsOK

\* Every step keeps the types.
LEMMA NextTyped == TypeOK /\ WorkHolds /\ [Next]_vars => TypeOK'
<1> SUFFICES ASSUME TypeOK, WorkHolds, [Next]_vars PROVE TypeOK'
  OBVIOUS
<1>1. ASSUME NEW c \in Calls, Caller(c) \/ NATS(c) PROVE TypeOK'
  BY <1>1, CallerTyped, NatsTyped
<1>2. ASSUME NEW r \in Replicas, Server(r) PROVE TypeOK'
  BY <1>2, FrameTyped, RegistryTyped, DispatchTyped, WorkTyped, CrashTyped DEF Server
<1>3. CASE UNCHANGED vars
  BY <1>3, TypeParts DEF vars, callerVars, natsVars, registryVars, dispatchVars, CallerOK, NatsOK,
                         RegistryOK, DispatchOK, QueuesOfSubs, WorkOK
<1> QED
  BY <1>1, <1>2, <1>3 DEF Next

-----------------------------------------------------------------------------
(* Where a call is                                                          *)

\* A call no replica has been given.
Unqueued(c) == \A r \in Replicas, s \in Services :
  \A i \in 1..Len(pending[r][s]) : pending[r][s][i] # c
Untaken(c) == \A r \in Replicas : work[r][c].pc = "none"
Untouched(c) == Unqueued(c) /\ Untaken(c)

\* A request that has not left, and one nobody subscribed to, are with no replica.
UnsentUntouched == \A c \in Calls :
  request[c] # "gone" => Untouched(c) /\ replies[c] = {}
RefusedUntouched == \A c \in Calls :
  "NoResponders" \in replies[c] \cup {outcome[c]} => request[c] = "gone" /\ Untouched(c)
InvalidUnsent == \A c \in Calls : outcome[c] = "Invalid" => request[c] = "none"

\* A call waits at one position of one queue, or one replica has taken it.
QueuedOnce ==
  \A r1, r2 \in Replicas, s1, s2 \in Services :
    \A i \in 1..Len(pending[r1][s1]), j \in 1..Len(pending[r2][s2]) :
      pending[r1][s1][i] \in Calls /\ pending[r1][s1][i] = pending[r2][s2][j]
        => r1 = r2 /\ s1 = s2 /\ i = j
QueuedUntaken ==
  \A r \in Replicas, s \in Services : \A i \in 1..Len(pending[r][s]) :
    pending[r][s][i] \in Calls => Untaken(pending[r][s][i])
TakenOnce == \A c \in Calls : \A r1, r2 \in Replicas :
  work[r1][c].pc # "none" /\ work[r2][c].pc # "none" => r1 = r2

\* An answer on its way is the result of the handler.
AnswersTrue == \A c \in Calls : \A a \in replies[c] \ {"NoResponders"} :
  \E r \in Replicas : work[r][c].result = a

\* The invariant of the calls' places.
PlaceInv ==
  /\ UnsentUntouched /\ RefusedUntouched /\ InvalidUnsent
  /\ QueuedOnce /\ QueuedUntaken /\ TakenOnce
  /\ WorkHolds /\ AnswersTrue

\* The parts that speak of the queues and the handlers only.
QueueInv == QueuedOnce /\ QueuedUntaken /\ TakenOnce /\ WorkHolds

\* Steps of the callers and of NATS that leave queues and handlers alone.
LEMMA QueueKept ==
  ASSUME QueueInv, UNCHANGED <<pending, work>>
  PROVE  /\ QueueInv'
         /\ \A c \in Calls : Untouched(c)' <=> Untouched(c)
BY DEF QueueInv, QueuedOnce, QueuedUntaken, TakenOnce, WorkHolds, Untouched, Unqueued, Untaken

\* A step that leaves every place of a call alone keeps the invariant.
LEMMA AllKept ==
  ASSUME PlaceInv, UNCHANGED <<pending, work, request, replies, outcome>>
  PROVE  PlaceInv'
<1>1. QueueInv' /\ \A c \in Calls : Untouched(c)' <=> Untouched(c)
  BY QueueKept DEF PlaceInv, QueueInv
<1> QED
  BY <1>1 DEF PlaceInv, QueueInv, UnsentUntouched, RefusedUntouched, InvalidUnsent, AnswersTrue

\* The end of a call is true of where it is.
LEMMA ReturnsPlace ==
  ASSUME TypeOK, PlaceInv, NEW c \in Calls, NEW o, Returns(c, o),
         o = "NoResponders" => o \in replies[c],
         o = "Invalid" => request[c] = "none"
  PROVE  PlaceInv'
<1>1. QueueInv' /\ \A d \in Calls : Untouched(d)' <=> Untouched(d)
  BY QueueKept DEF PlaceInv, QueueInv, Returns, dispatchVars
<1>2. /\ replies' = [replies EXCEPT ![c] = {}] /\ outcome' = [outcome EXCEPT ![c] = o]
      /\ UNCHANGED <<request, work>>
  BY DEF Returns
<1>3. /\ replies \in [Calls -> SUBSET Answers] /\ outcome \in [Calls -> Outcomes]
  BY TypeParts DEF NatsOK, CallerOK
<1>4. UnsentUntouched' /\ RefusedUntouched' /\ InvalidUnsent' /\ AnswersTrue'
  BY <1>1, <1>2, <1>3 DEF PlaceInv, UnsentUntouched, RefusedUntouched, InvalidUnsent, AnswersTrue
<1> QED
  BY <1>1, <1>4 DEF PlaceInv, QueueInv

\* The caller.
LEMMA CallerPlace ==
  ASSUME TypeOK, PlaceInv, NEW c \in Calls, Caller(c)
  PROVE  PlaceInv'
<1>1. CASE Invoke(c)
  <2>1. QueueInv' /\ \A d \in Calls : Untouched(d)' <=> Untouched(d)
    BY <1>1, QueueKept DEF PlaceInv, QueueInv, Invoke, dispatchVars
  <2>2. UnsentUntouched' /\ RefusedUntouched' /\ InvalidUnsent' /\ AnswersTrue'
    BY <1>1, <2>1, TypeParts
       DEF Invoke, callerVars, NatsOK, PlaceInv, UnsentUntouched, RefusedUntouched,
           InvalidUnsent, AnswersTrue
  <2> QED
    BY <2>1, <2>2 DEF PlaceInv, QueueInv
<1>2. CASE InvokeFails(c) \/ ReturnConnectionClosed(c)
  BY <1>2, ReturnsPlace DEF InvokeFails, ReturnConnectionClosed
<1>3. ASSUME NEW why \in CtxErrors, ContextEnds(c, why)
      PROVE  PlaceInv'
  BY <1>3, AllKept DEF ContextEnds, natsVars, dispatchVars
<1>4. CASE ReturnContextError(c)
  <2>1. context[c] \in {"Canceled", "DeadlineExceeded"}
    BY <1>4, UnaryAssumption, TypeParts DEF ReturnContextError, CallerOK
  <2> QED
    BY <1>4, <2>1, ReturnsPlace DEF ReturnContextError
<1>5. CASE ReturnReply(c)
  <2>1. PICK a \in replies[c] : Returns(c, a) \/ Returns(c, "Undecodable")
    BY <1>5 DEF ReturnReply
  <2>2. a # "Invalid"
    BY <2>1, TypeParts DEF NatsOK, Answers
  <2> QED
    BY <2>1, <2>2, ReturnsPlace
<1> QED
  BY <1>1, <1>2, <1>3, <1>4, <1>5 DEF Caller

\* Nobody subscribes: the request is nowhere and stays there.
LEMMA NoRespondersPlace ==
  ASSUME TypeOK, PlaceInv, NEW c \in Calls, NoResponders(c)
  PROVE  PlaceInv'
<1>1. QueueInv' /\ \A d \in Calls : Untouched(d)' <=> Untouched(d)
  BY QueueKept DEF PlaceInv, QueueInv, NoResponders, dispatchVars
<1>2. Untouched(c) /\ replies[c] = {}
  BY DEF NoResponders, PlaceInv, UnsentUntouched
<1>3. /\ request' = [request EXCEPT ![c] = "gone"] /\ UNCHANGED <<outcome, work>>
      /\ replies'[c] \in {{}, {"NoResponders"}}
      /\ \A d \in Calls : d # c => replies'[d] = replies[d]
  BY <1>2, TypeParts DEF NoResponders, Reply, callerVars, NatsOK
<1>4. outcome[c] # "Invalid"
  BY DEF NoResponders, PlaceInv, InvalidUnsent
<1>5. UnsentUntouched' /\ RefusedUntouched' /\ InvalidUnsent' /\ AnswersTrue'
  BY <1>1, <1>2, <1>3, <1>4, TypeParts
     DEF NatsOK, PlaceInv, UnsentUntouched, RefusedUntouched, InvalidUnsent, AnswersTrue
<1> QED
  BY <1>1, <1>5 DEF PlaceInv, QueueInv

\* The positions of a queue that has grown by one message.
LEMMA AppendedParts ==
  ASSUME NEW q \in Seq(Messages), NEW c \in Messages, NEW i \in 1..Len(Append(q, c))
  PROVE  \/ i \in 1..Len(q) /\ Append(q, c)[i] = q[i]
         \/ i = Len(q) + 1 /\ Append(q, c)[i] = c
BY AppendProperties

\* The queue group: the request goes into the queue of one subscriber, at its end.
LEMMA RoutePlace ==
  ASSUME TypeOK, PlaceInv, NEW c \in Calls, Route(c)
  PROVE  PlaceInv'
<1> DEFINE s == Target[c][2]
<1>1. PICK r \in Replicas : Queued(c, {r})
  BY DEF Route, Subscribers
<1>2. s \in Services
  BY TargetService
<1>3. pending' = [q \in Replicas |->
                   IF q = r THEN [pending[q] EXCEPT ![s] = Append(@, c)] ELSE pending[q]]
  BY <1>1 DEF Queued
<1>4. /\ Untouched(c) /\ replies[c] = {}
      /\ "NoResponders" # outcome[c] /\ outcome[c] # "Invalid"
  BY DEF Route, PlaceInv, UnsentUntouched, RefusedUntouched, InvalidUnsent
<1> HIDE DEF s
<1>5. \A t \in Replicas, u \in Services : pending[t][u] \in Seq(Messages)
  BY TypeParts DEF DispatchOK, Queues
<1>6. \A t \in Replicas, u \in Services :
        pending'[t][u] = IF t = r /\ u = s THEN Append(pending[t][u], c) ELSE pending[t][u]
  BY <1>1, <1>2, <1>3, TypeParts DEF DispatchOK, Queues
<1>7. ASSUME NEW t \in Replicas, NEW u \in Services, NEW i \in 1..Len(pending'[t][u])
      PROVE  \/ i \in 1..Len(pending[t][u]) /\ pending'[t][u][i] = pending[t][u][i]
             \/ t = r /\ u = s /\ i = Len(pending[t][u]) + 1 /\ pending'[t][u][i] = c
  <2>1. CASE t = r /\ u = s
    <3>1. pending[t][u] \in Seq(Messages) /\ pending'[t][u] = Append(pending[t][u], c)
      BY <1>5, <1>6, <2>1
    <3>2. i \in 1..Len(Append(pending[t][u], c))
      BY <3>1
    <3> QED
      BY <2>1, <3>1, <3>2, AppendedParts, CallMessage
  <2>2. CASE ~(t = r /\ u = s)
    BY <1>6, <2>2
  <2> QED
    BY <2>1, <2>2
<1>8. UNCHANGED <<work, replies, outcome>> /\ request' = [request EXCEPT ![c] = "gone"]
  BY DEF Route, callerVars
<1>9. QueuedOnce'
  <2> SUFFICES ASSUME NEW r1 \in Replicas, NEW r2 \in Replicas,
                      NEW s1 \in Services, NEW s2 \in Services,
                      NEW i \in 1..Len(pending'[r1][s1]), NEW j \in 1..Len(pending'[r2][s2]),
                      pending'[r1][s1][i] \in Calls,
                      pending'[r1][s1][i] = pending'[r2][s2][j]
               PROVE  r1 = r2 /\ s1 = s2 /\ i = j
    BY DEF QueuedOnce
  <2>1. \A t \in Replicas, u \in Services : \A k \in 1..Len(pending[t][u]) : pending[t][u][k] # c
    BY <1>4 DEF Untouched, Unqueued
  <2>2. /\ \/ i \in 1..Len(pending[r1][s1]) /\ pending'[r1][s1][i] = pending[r1][s1][i]
           \/ r1 = r /\ s1 = s /\ i = Len(pending[r1][s1]) + 1 /\ pending'[r1][s1][i] = c
        /\ \/ j \in 1..Len(pending[r2][s2]) /\ pending'[r2][s2][j] = pending[r2][s2][j]
           \/ r2 = r /\ s2 = s /\ j = Len(pending[r2][s2]) + 1 /\ pending'[r2][s2][j] = c
    BY <1>7
  <2>3. CASE pending'[r1][s1][i] = c
    BY <2>1, <2>2, <2>3
  <2>4. CASE pending'[r1][s1][i] # c
    BY <2>2, <2>4 DEF PlaceInv, QueuedOnce
  <2> QED
    BY <2>3, <2>4
<1>10. QueuedUntaken'
  <2> SUFFICES ASSUME NEW t \in Replicas, NEW u \in Services, NEW i \in 1..Len(pending'[t][u]),
                      pending'[t][u][i] \in Calls
               PROVE  Untaken(pending'[t][u][i])
    BY <1>8 DEF QueuedUntaken, Untaken
  <2> QED
    BY <1>4, <1>7 DEF PlaceInv, QueuedUntaken, Untouched
<1>13. TakenOnce' /\ WorkHolds' /\ AnswersTrue' /\ InvalidUnsent'
  BY <1>4, <1>8, TypeParts
     DEF NatsOK, PlaceInv, TakenOnce, WorkHolds, AnswersTrue, InvalidUnsent
<1>11. \A d \in Calls : d # c /\ Untouched(d) => Untouched(d)'
  BY <1>7, <1>8 DEF Untouched, Unqueued, Untaken
<1>12. UnsentUntouched' /\ RefusedUntouched'
  BY <1>4, <1>8, <1>11, TypeParts DEF NatsOK, PlaceInv, UnsentUntouched, RefusedUntouched
<1> QED
  BY <1>9, <1>10, <1>12, <1>13 DEF PlaceInv

\* A frame that comes in brings no call to a replica.
LEMMA FramePlace ==
  ASSUME TypeOK, PlaceInv, NEW r \in Replicas, NEW s \in Services, FrameArrives(r, s)
  PROVE  PlaceInv'
<1>1. /\ pending \in [Replicas -> Queues] /\ Frame \in Messages /\ Frame \notin Calls
      /\ UNCHANGED <<request, replies, outcome, work>>
  BY UnaryAssumption, TypeParts DEF DispatchOK, Messages, FrameArrives, callerVars, natsVars
<1>2. \A t \in Replicas, u \in Services :
        /\ pending[t][u] \in Seq(Messages)
        /\ pending'[t][u] = IF t = r /\ u = s THEN Append(pending[t][u], Frame)
                            ELSE pending[t][u]
  BY <1>1 DEF FrameArrives, Queues
<1>3. ASSUME NEW t \in Replicas, NEW u \in Services, NEW i \in 1..Len(pending'[t][u]),
             pending'[t][u][i] # Frame
      PROVE  i \in 1..Len(pending[t][u]) /\ pending'[t][u][i] = pending[t][u][i]
  <2>1. CASE t = r /\ u = s
    <3>1. pending[t][u] \in Seq(Messages) /\ pending'[t][u] = Append(pending[t][u], Frame)
      BY <1>2, <2>1
    <3>2. i \in 1..Len(Append(pending[t][u], Frame))
      BY <3>1
    <3> QED
      BY <1>1, <1>3, <3>1, <3>2, AppendedParts
  <2>2. CASE ~(t = r /\ u = s)
    BY <1>2, <2>2
  <2> QED
    BY <2>1, <2>2
<1>4. \A c \in Calls : Untouched(c) => Untouched(c)'
  BY <1>1, <1>3 DEF Untouched, Unqueued, Untaken
<1>5. QueuedOnce'
  BY <1>1, <1>3 DEF PlaceInv, QueuedOnce
<1>6. QueuedUntaken' /\ TakenOnce' /\ WorkHolds'
  BY <1>1, <1>3 DEF PlaceInv, QueuedUntaken, TakenOnce, WorkHolds, Untaken
<1>7. UnsentUntouched' /\ RefusedUntouched' /\ InvalidUnsent' /\ AnswersTrue'
  BY <1>1, <1>4 DEF PlaceInv, UnsentUntouched, RefusedUntouched, InvalidUnsent, AnswersTrue
<1> QED
  BY <1>5, <1>6, <1>7 DEF PlaceInv

\* Queues that only lose messages: one of them perhaps its first, others all.
QueuesShrink == \A r \in Replicas, s \in Services :
  pending'[r][s] \in {<<>>, pending[r][s]} \cup
                     (IF pending[r][s] = <<>> THEN {} ELSE {Tail(pending[r][s])})

\* What is left of a queue is at the same distance from where it was.
LEMMA ShrunkQueue ==
  ASSUME TypeOK, QueuesShrink, NEW r \in Replicas, NEW s \in Services
  PROVE  \E n \in {0, 1} : \A i \in 1..Len(pending'[r][s]) :
           /\ i + n \in 1..Len(pending[r][s])
           /\ pending'[r][s][i] = pending[r][s][i + n]
<1>1. pending[r][s] \in Seq(Messages)
  BY TypeParts DEF DispatchOK, Queues
<1>2. CASE pending'[r][s] = <<>>
  BY <1>2
<1>3. CASE pending'[r][s] = pending[r][s]
  <2>1. \A i \in 1..Len(pending[r][s]) : i + 0 = i
    BY <1>1
  <2> QED
    BY <1>3, <2>1
<1>4. CASE pending[r][s] # <<>> /\ pending'[r][s] = Tail(pending[r][s])
  BY <1>1, <1>4, HeadTailProperties
<1> QED
  BY <1>2, <1>3, <1>4 DEF QueuesShrink

\* Queues that shrink keep a call at one position, and bring no call to a replica.
LEMMA ShrunkQueues ==
  ASSUME TypeOK, QueuedOnce, QueuesShrink
  PROVE  /\ QueuedOnce'
         /\ \A c \in Calls : Unqueued(c) => Unqueued(c)'
         /\ \A r \in Replicas, s \in Services : \A i \in 1..Len(pending'[r][s]) :
              \E k \in 1..Len(pending[r][s]) : pending'[r][s][i] = pending[r][s][k]
<1>1. ASSUME NEW r \in Replicas, NEW s \in Services, NEW i \in 1..Len(pending'[r][s])
      PROVE  \E k \in 1..Len(pending[r][s]) : pending'[r][s][i] = pending[r][s][k]
  BY ShrunkQueue
<1>2. QueuedOnce'
  <2> SUFFICES ASSUME NEW r1 \in Replicas, NEW r2 \in Replicas,
                      NEW s1 \in Services, NEW s2 \in Services,
                      NEW i \in 1..Len(pending'[r1][s1]), NEW j \in 1..Len(pending'[r2][s2]),
                      pending'[r1][s1][i] \in Calls,
                      pending'[r1][s1][i] = pending'[r2][s2][j]
               PROVE  r1 = r2 /\ s1 = s2 /\ i = j
    BY DEF QueuedOnce
  <2>1. r1 = r2 /\ s1 = s2
    <3>1. PICK k \in 1..Len(pending[r1][s1]) : pending'[r1][s1][i] = pending[r1][s1][k]
      BY <1>1
    <3>2. PICK l \in 1..Len(pending[r2][s2]) : pending'[r2][s2][j] = pending[r2][s2][l]
      BY <1>1
    <3>3. pending[r1][s1][k] \in Calls /\ pending[r1][s1][k] = pending[r2][s2][l]
      BY <3>1, <3>2
    <3>4. \A x \in 1..Len(pending[r1][s1]), y \in 1..Len(pending[r2][s2]) :
            pending[r1][s1][x] \in Calls /\ pending[r1][s1][x] = pending[r2][s2][y]
              => r1 = r2 /\ s1 = s2
      BY DEF QueuedOnce
    <3> QED
      BY <3>3, <3>4
  <2>2. PICK n \in {0, 1} : \A k \in 1..Len(pending'[r1][s1]) :
          k + n \in 1..Len(pending[r1][s1]) /\ pending'[r1][s1][k] = pending[r1][s1][k + n]
    BY ShrunkQueue
  <2>3. /\ i + n \in 1..Len(pending[r1][s1]) /\ j + n \in 1..Len(pending[r1][s1])
        /\ pending[r1][s1][i + n] = pending[r1][s1][j + n]
        /\ pending[r1][s1][i + n] \in Calls
    BY <2>1, <2>2
  <2>4. i + n = j + n
    BY <2>3 DEF QueuedOnce
  <2> QED
    BY <2>1, <2>4
<1>3. \A c \in Calls : Unqueued(c) => Unqueued(c)'
  BY <1>1 DEF Unqueued
<1> QED
  BY <1>1, <1>2, <1>3

\* Steps of the servers that take up no call.
LEMMA ServerPlace ==
  ASSUME TypeOK, PlaceInv, QueuesShrink, UNCHANGED <<request, outcome>>,
         \A r \in Replicas, c \in Calls : work'[r][c].pc = "none" <=> work[r][c].pc = "none",
         \A c \in Calls : replies'[c] # {} => request[c] = "gone",
         \A c \in Calls : "NoResponders" \in replies'[c] => "NoResponders" \in replies[c],
         WorkHolds', AnswersTrue'
  PROVE  PlaceInv'
<1>1. /\ QueuedOnce' /\ \A c \in Calls : Unqueued(c) => Unqueued(c)'
      /\ \A r \in Replicas, s \in Services : \A i \in 1..Len(pending'[r][s]) :
           \E k \in 1..Len(pending[r][s]) : pending'[r][s][i] = pending[r][s][k]
  BY ShrunkQueues DEF PlaceInv
<1>3. \A c \in Calls : Untaken(c)' <=> Untaken(c)
  BY DEF Untaken
<1>4. QueuedUntaken'
  <2> SUFFICES ASSUME NEW r \in Replicas, NEW s \in Services, NEW i \in 1..Len(pending'[r][s]),
                      NEW t \in Replicas, pending'[r][s][i] \in Calls
               PROVE  work'[t][pending'[r][s][i]].pc = "none"
    BY DEF QueuedUntaken, Untaken
  <2>1. PICK k \in 1..Len(pending[r][s]) : pending'[r][s][i] = pending[r][s][k]
    BY <1>1
  <2>2. work[t][pending[r][s][k]].pc = "none"
    BY <2>1 DEF PlaceInv, QueuedUntaken, Untaken
  <2> QED
    BY <2>1, <2>2
<1>5. TakenOnce' /\ InvalidUnsent'
  BY DEF PlaceInv, TakenOnce, InvalidUnsent
<1>6. UnsentUntouched' /\ RefusedUntouched'
  BY <1>1, <1>3 DEF PlaceInv, UnsentUntouched, RefusedUntouched, Untouched
<1> QED
  BY <1>1, <1>4, <1>5, <1>6 DEF PlaceInv

\* Stop and a lookup that misses take requests out of a queue.
LEMMA DroppedPlace ==
  ASSUME TypeOK, PlaceInv, NEW r \in Replicas, NEW s \in Services,
         OnMessageMisses(r, s) \/ Unsubscribe(r, s)
  PROVE  PlaceInv'
<1>1. pending \in [Replicas -> Queues] /\ UNCHANGED <<request, outcome, replies, work>>
  BY TypeParts DEF OnMessageMisses, Unsubscribe, callerVars, natsVars, DispatchOK
<1>2. \A t \in Replicas, u \in Services : t # r \/ u # s => pending'[t][u] = pending[t][u]
  <2>1. \E q : pending' = [pending EXCEPT ![r][s] = q]
    BY DEF OnMessageMisses, Unsubscribe
  <2> QED
    BY <1>1, <2>1 DEF Queues
<1>3. \/ pending'[r][s] = <<>>
      \/ pending[r][s] # <<>> /\ pending'[r][s] = Tail(pending[r][s])
  BY <1>1 DEF OnMessageMisses, Unsubscribe, Dispatching, Queues
<1>4. QueuesShrink
  BY <1>2, <1>3, Zenon DEF QueuesShrink
<1>5. WorkHolds' /\ AnswersTrue'
  BY <1>1 DEF PlaceInv, WorkHolds, AnswersTrue
<1>6. \A c \in Calls : replies[c] # {} => request[c] = "gone"
  BY DEF PlaceInv, UnsentUntouched
<1> QED
  BY <1>1, <1>4, <1>5, <1>6, ServerPlace

\* A crash empties the queues of its replica and leaves its calls taken.
LEMMA CrashPlace ==
  ASSUME TypeOK, PlaceInv, NEW r \in Replicas, Crash(r)
  PROVE  PlaceInv'
<1>1. UNCHANGED <<request, outcome, replies>>
  BY DEF Crash, callerVars, natsVars
<1>2. work \in [Replicas -> [Calls -> [pc : {"none", "running", "answer", "done", "killed"},
                                       result : Result \cup {"none"}]]]
  BY TypeParts DEF WorkOK
<1>3. work' = [work EXCEPT ![r] = CrashedWork(r)]
  BY <1>2 DEF Crash, CrashedWork
<1>4. \A t \in Replicas, c \in Calls :
        /\ work'[t][c].result = work[t][c].result
        /\ \/ work'[t][c].pc = work[t][c].pc
           \/ work'[t][c].pc = "killed" /\ work[t][c].pc \in {"running", "answer"}
  BY <1>2, <1>3 DEF CrashedWork
<1>5. QueuesShrink
  BY TypeParts DEF Crash, QueuesShrink, DispatchOK, Queues
<1>6. WorkHolds'
  BY <1>4 DEF PlaceInv, WorkHolds
<1>7. AnswersTrue'
  BY <1>1, <1>4 DEF PlaceInv, AnswersTrue
<1>8. \A c \in Calls : replies[c] # {} => request[c] = "gone"
  BY DEF PlaceInv, UnsentUntouched
<1>9. \A t \in Replicas, c \in Calls : work'[t][c].pc = "none" <=> work[t][c].pc = "none"
  BY <1>4
<1> QED
  BY <1>1, <1>5, <1>6, <1>7, <1>8, <1>9, ServerPlace

\* The handler's goroutine: its result, and the answer that carries it.
LEMMA HandlerPlace ==
  ASSUME TypeOK, PlaceInv, NEW r \in Replicas, NEW c \in Calls,
         Respond(r, c) \/ \E res \in Result : HandlerReturns(r, c, res)
  PROVE  PlaceInv'
<1>1. /\ work \in [Replicas -> [Calls -> [pc : {"none", "running", "answer", "done", "killed"},
                                          result : Result \cup {"none"}]]]
      /\ replies \in [Calls -> SUBSET Answers]
  BY TypeParts DEF WorkOK, NatsOK
<1>2. UNCHANGED <<request, outcome>> /\ QueuesShrink
  BY DEF Respond, HandlerReturns, callerVars, natsVars, dispatchVars, QueuesShrink
<1>3. \A d \in Calls : replies[d] # {} => request[d] = "gone"
  BY DEF PlaceInv, UnsentUntouched
<1>4. request[c] = "gone"
  BY DEF Respond, HandlerReturns, PlaceInv, UnsentUntouched, Untouched, Untaken
<1>5. CASE Respond(r, c)
  <2>1. work' = [work EXCEPT ![r][c].pc = "done"] /\ work[r][c].pc = "answer"
        /\ work[r][c].result \in Result
    BY <1>5 DEF Respond, PlaceInv, WorkHolds
  <2>2. \A t \in Replicas, d \in Calls :
          /\ work'[t][d].result = work[t][d].result
          /\ \/ work'[t][d].pc = work[t][d].pc
             \/ t = r /\ d = c /\ work'[t][d].pc = "done"
    BY <1>1, <2>1
  <2>3. \A d \in Calls : /\ replies'[d] \subseteq replies[d] \cup {work[r][c].result}
                         /\ d # c => replies'[d] = replies[d]
    BY <1>1, <1>5 DEF Respond, Reply
  <2>4. WorkHolds'
    BY <2>1, <2>2 DEF PlaceInv, WorkHolds
  <2>5. AnswersTrue'
    BY <2>2, <2>3 DEF PlaceInv, AnswersTrue
  <2>6. \A d \in Calls : replies'[d] # {} => request[d] = "gone"
    BY <1>3, <1>4, <2>3
  <2>7. \A d \in Calls : "NoResponders" \in replies'[d] => "NoResponders" \in replies[d]
    BY <2>1, <2>3 DEF Result
  <2>8. \A t \in Replicas, d \in Calls : work'[t][d].pc = "none" <=> work[t][d].pc = "none"
    BY <2>1, <2>2
  <2> QED
    BY <1>2, <2>4, <2>5, <2>6, <2>7, <2>8, ServerPlace
<1>6. ASSUME NEW res \in Result, HandlerReturns(r, c, res)
      PROVE  PlaceInv'
  <2>1. /\ work' = [work EXCEPT ![r][c] = [pc |-> "answer", result |-> res]]
        /\ work[r][c].pc = "running" /\ work[r][c].result = "none" /\ UNCHANGED replies
    BY <1>6 DEF HandlerReturns, PlaceInv, WorkHolds, natsVars
  <2>2. \A t \in Replicas, d \in Calls :
          IF t = r /\ d = c THEN work'[t][d].pc = "answer" /\ work'[t][d].result = res
          ELSE work'[t][d] = work[t][d]
    BY <1>1, <2>1
  <2>3. WorkHolds'
    BY <2>1, <2>2 DEF PlaceInv, WorkHolds
  <2>4. AnswersTrue'
    <3>1. \A d \in Calls : "none" \notin replies[d]
      BY <1>1 DEF Answers
    <3> QED
      BY <2>1, <2>2, <3>1 DEF PlaceInv, AnswersTrue
  <2>5. \A t \in Replicas, d \in Calls : work'[t][d].pc = "none" <=> work[t][d].pc = "none"
    BY <2>1, <2>2
  <2> QED
    BY <1>2, <1>3, <2>1, <2>3, <2>4, <2>5, ServerPlace
<1> QED
  BY <1>5, <1>6

\* onMessage takes the first request of a queue up: the one replica that has it.
LEMMA OnMessagePlace ==
  ASSUME TypeOK, PlaceInv, NEW r \in Replicas, NEW s \in Services, OnMessage(r, s)
  PROVE  /\ PlaceInv'
         /\ \E c \in Calls :
              /\ Untaken(c) /\ ~ Unqueued(c)
              /\ work' = [work EXCEPT ![r][c].pc = "running"]
<1> DEFINE c == Head(pending[r][s])
<1>1. /\ pending \in [Replicas -> Queues] /\ pending[r][s] \in Seq(Messages) /\ pending[r][s] # <<>>
      /\ UNCHANGED <<request, outcome, replies>>
      /\ work' = [work EXCEPT ![r][c].pc = "running"]
  BY TypeParts DEF OnMessage, Dispatching, callerVars, natsVars, DispatchOK, Queues
<1>2. c \in Calls /\ 1 \in 1..Len(pending[r][s]) /\ pending[r][s][1] = c
  <2>1. TRUE \in Lookup(r, c)
    BY Zenon DEF OnMessage
  <2>2. c \in Calls
    BY <2>1, LookedUp
  <2> QED
    BY <1>1, <2>2
<1> HIDE DEF c
<1>3. Untaken(c) /\ ~ Unqueued(c)
  BY <1>2 DEF PlaceInv, QueuedUntaken, Unqueued
<1>4. /\ \A t \in Replicas, u \in Services : t # r \/ u # s => pending'[t][u] = pending[t][u]
      /\ pending'[r][s] = Tail(pending[r][s])
  BY <1>1 DEF OnMessage, Queues
<1>5. QueuesShrink
  BY <1>1, <1>4, Zenon DEF QueuesShrink
<1>6. \A t \in Replicas, d \in Calls :
        /\ work'[t][d].result = work[t][d].result
        /\ IF t = r /\ d = c THEN work'[t][d].pc = "running" ELSE work'[t][d] = work[t][d]
  BY <1>1, <1>2, TypeParts DEF WorkOK
<1>7. WorkHolds' /\ TakenOnce'
  BY <1>2, <1>3, <1>6 DEF PlaceInv, WorkHolds, TakenOnce, Untaken
<1>8. AnswersTrue' /\ InvalidUnsent'
  BY <1>1, <1>6 DEF PlaceInv, AnswersTrue, InvalidUnsent
<1>9. QueuedOnce' /\ \A d \in Calls : Unqueued(d) => Unqueued(d)'
  BY <1>5, ShrunkQueues DEF PlaceInv
<1>10. \A d \in Calls : Untouched(d) => Untouched(d)'
  BY <1>3, <1>6, <1>9 DEF Untouched, Untaken
<1>11. UnsentUntouched' /\ RefusedUntouched'
  BY <1>1, <1>10 DEF PlaceInv, UnsentUntouched, RefusedUntouched
<1>12. QueuedUntaken'
  <2> SUFFICES ASSUME NEW t \in Replicas, NEW u \in Services, NEW i \in 1..Len(pending'[t][u]),
                      NEW v \in Replicas, pending'[t][u][i] \in Calls
               PROVE  work'[v][pending'[t][u][i]].pc = "none"
    BY DEF QueuedUntaken, Untaken
  <2>1. /\ \A k \in 1..Len(Tail(pending[r][s])) :
             k + 1 \in 1..Len(pending[r][s]) /\ Tail(pending[r][s])[k] = pending[r][s][k + 1]
    BY <1>1, HeadTailProperties DEF Queues
  <2>2. PICK k \in 1..Len(pending[t][u]) :
          /\ pending'[t][u][i] = pending[t][u][k]
          /\ ~(t = r /\ u = s /\ k = 1)
    <3>1. CASE t = r /\ u = s
      <4>1. Tail(pending[r][s]) \in Seq(Messages) /\ i \in 1..Len(Tail(pending[r][s]))
        BY <1>1, <1>4, <3>1, QueueParts
      <4>2. i \in Nat \ {0} /\ i + 1 # 1
        BY <4>1
      <4> QED
        BY <1>4, <2>1, <3>1, <4>1, <4>2
    <3>2. CASE ~(t = r /\ u = s)
      BY <1>4, <3>2
    <3> QED
      BY <3>1, <3>2
  <2>3. pending[t][u][k] # c
    BY <1>2, <2>2 DEF PlaceInv, QueuedOnce
  <2>4. work[v][pending[t][u][k]].pc = "none"
    BY <2>2 DEF PlaceInv, QueuedUntaken, Untaken
  <2> QED
    BY <1>6, <2>2, <2>3, <2>4
<1> QED
  BY <1>1, <1>2, <1>3, <1>7, <1>8, <1>9, <1>11, <1>12 DEF PlaceInv

\* The inductive invariant.
IInv == TypeOK /\ PlaceInv

\* Where a program starts, no call is anywhere.
LEMMA InitIInv == Init => IInv
<1> SUFFICES ASSUME Init PROVE PlaceInv
  BY InitTyped DEF IInv
<1>1. \A r \in Replicas, s \in Services : pending[r][s] = <<>> /\ Len(pending[r][s]) = 0
  BY DEF Init
<1>2. \A r \in Replicas, c \in Calls : work[r][c] = NoWork
  BY DEF Init
<1>3. \A c \in Calls : replies[c] = {} /\ outcome[c] = "none" /\ request[c] = "none"
  BY DEF Init
<1>4. \A c \in Calls : Untouched(c)
  BY <1>1, <1>2 DEF Untouched, Unqueued, Untaken, NoWork
<1>5. QueuedOnce /\ QueuedUntaken
  BY <1>1 DEF QueuedOnce, QueuedUntaken
<1> QED
  BY <1>2, <1>3, <1>4, <1>5 DEF PlaceInv, UnsentUntouched, RefusedUntouched, InvalidUnsent, TakenOnce,
                          WorkHolds, AnswersTrue, NoWork

\* Every step keeps the inductive invariant.
LEMMA NextIInv == IInv /\ [Next]_vars => IInv'
<1> SUFFICES ASSUME TypeOK, PlaceInv, [Next]_vars PROVE PlaceInv'
  BY NextTyped DEF IInv, PlaceInv
<1>1. ASSUME NEW c \in Calls, Caller(c) \/ NATS(c) PROVE PlaceInv'
  BY <1>1, CallerPlace, NoRespondersPlace, RoutePlace DEF NATS
<1>2. ASSUME NEW r \in Replicas, Server(r) PROVE PlaceInv'
  <2>1. CASE RegisterEntries(r) \/ StopStreams(r)
             \/ \E s \in Services : RegisterSubscribes(r, s) \/ EnterStream(r, s)
    BY <2>1, AllKept DEF RegisterEntries, StopStreams, RegisterSubscribes, EnterStream,
                         callerVars, natsVars, dispatchVars
  <2> QED
    BY <1>2, <2>1, FramePlace, DroppedPlace, CrashPlace, HandlerPlace, OnMessagePlace DEF Server
<1>3. CASE UNCHANGED vars
  BY <1>3, AllKept DEF vars, callerVars, natsVars, dispatchVars
<1> QED
  BY <1>1, <1>2, <1>3 DEF Next

\* Every state is well typed, and a subscription that is gone has nothing left to
\* dispatch: the queues Server.Stop drops (server.go:308-313) and those a crash
\* takes along.
THEOREM TypeCorrect == Spec => []TypeOK
<1>1. IInv => TypeOK
  BY DEF IInv
<1> QED
  BY InitIInv, NextIInv, <1>1, PTL DEF Spec

-----------------------------------------------------------------------------
(* The contract                                                             *)

\* One replica at most has a result of a call: the one that answers for it.
LEMMA ResultOfParts ==
  ASSUME TypeOK, PlaceInv, NEW c \in Calls
  PROVE  /\ \A r \in Replicas : work[r][c].result # "none" => ResultOf(c) = work[r][c].result
         /\ (\A r \in Replicas : work[r][c].result = "none") => ResultOf(c) = "none"
<1>1. ASSUME NEW r \in Replicas, work[r][c].result # "none"
      PROVE  ResultOf(c) = work[r][c].result
  <2>1. \A t \in Replicas : work[t][c].result # "none" => work[t][c].pc # "none"
    BY DEF PlaceInv, WorkHolds
  <2>2. \A t \in Replicas : work[t][c].result # "none" => t = r
    BY <1>1, <2>1 DEF PlaceInv, TakenOnce
  <2>3. Results(c) = {work[r][c].result}
    BY <1>1, <2>2 DEF Results
  <2> QED
    BY <2>3 DEF ResultOf
<1>2. ASSUME \A r \in Replicas : work[r][c].result = "none"
      PROVE  ResultOf(c) = "none"
  BY <1>2 DEF Results, ResultOf
<1> QED
  BY <1>1, <1>2

\* A step that leaves the results of a call alone leaves its result alone.
LEMMA ResultKept ==
  ASSUME NEW c \in Calls, \A r \in Replicas : work'[r][c].result = work[r][c].result
  PROVE  ResultOf(c)' = ResultOf(c)
<1>1. Results(c)' = Results(c)
  BY DEF Results
<1> QED
  BY <1>1 DEF ResultOf

\* The refinement mapping depends on the handlers only.
LEMMA MappingKept ==
  ASSUME UNCHANGED work, NEW c \in Calls
  PROVE  HandledBy(c)' = HandledBy(c) /\ ResultOf(c)' = ResultOf(c)
BY DEF HandledBy, Results, ResultOf

\* The refinement mapping's two functions.
HandledMap == [c \in Calls |-> HandledBy(c)]
ResultMap == [c \in Calls |-> ResultOf(c)]

\* A step that changes neither context nor outcome, nor who took calls up nor how
\* they returned, is none of the contract's.
LEMMA StutterContract ==
  ASSUME UNCHANGED <<context, outcome>>,
         \A c \in Calls : HandledBy(c)' = HandledBy(c) /\ ResultOf(c)' = ResultOf(c)
  PROVE  UNCHANGED Contract!vars
<1>1. HandledMap' = HandledMap /\ ResultMap' = ResultMap
  BY DEF HandledMap, ResultMap
<1> QED
  BY <1>1 DEF HandledMap, ResultMap, Contract!vars

\* Initially no call is taken up.
LEMMA InitContract == Init => Contract!Init
<1> SUFFICES ASSUME Init PROVE Contract!Init
  OBVIOUS
<1>1. TypeOK /\ PlaceInv
  BY InitIInv DEF IInv
<1>2. \A r \in Replicas, c \in Calls : work[r][c].pc = "none" /\ work[r][c].result = "none"
  BY DEF Init, NoWork
<1>3. \A c \in Calls : HandledBy(c) = {} /\ ResultOf(c) = "none"
  BY <1>1, <1>2, ResultOfParts DEF HandledBy
<1> QED
  BY <1>3 DEF Init, Contract!Init

\* A call ends with an outcome that is true of it.
LEMMA ReturnsEnds ==
  ASSUME NEW c \in Calls, NEW o \in Contract!Outcome, Returns(c, o), Contract!True(c, o)
  PROVE  Contract!Next
<1>1. UNCHANGED <<HandledMap, ResultMap>>
  BY MappingKept DEF Returns, HandledMap, ResultMap
<1>2. Contract!Ends(c, o)
  BY <1>1 DEF Returns, Contract!Ends, HandledMap, ResultMap
<1> QED
  BY <1>2 DEF Contract!Next

\* What Invoke returns: an answer is the handler's, a context's end the context's,
\* and a call nobody took, or that never left, is with no replica.
LEMMA CallerContract ==
  ASSUME TypeOK, PlaceInv, NEW c \in Calls, Caller(c)
  PROVE  [Contract!Next]_(Contract!vars)
<1>1. CASE Invoke(c)
  BY <1>1, StutterContract, MappingKept DEF Invoke, callerVars
<1>2. CASE InvokeFails(c)
  <2>1. Untaken(c)
    BY <1>2 DEF InvokeFails, PlaceInv, UnsentUntouched, Untouched
  <2>2. Contract!True(c, "Invalid")
    BY <2>1 DEF Contract!True, Untaken, HandledBy
  <2> QED
    BY <1>2, <2>2, ReturnsEnds DEF InvokeFails, Contract!Outcome
<1>3. CASE ReturnConnectionClosed(c)
  BY <1>3, ReturnsEnds DEF ReturnConnectionClosed, Contract!True, Contract!Outcome
<1>4. ASSUME NEW why \in CtxErrors, ContextEnds(c, why)
      PROVE  Contract!Next
  <2>1. UNCHANGED <<HandledMap, ResultMap>>
    BY <1>4, MappingKept DEF ContextEnds, HandledMap, ResultMap
  <2>2. why \in {"Canceled", "DeadlineExceeded"}
    BY UnaryAssumption
  <2>3. Contract!ContextEnds(c, why)
    BY <1>4, <2>1, <2>2 DEF ContextEnds, Contract!ContextEnds, HandledMap, ResultMap
  <2> QED
    BY <2>2, <2>3 DEF Contract!Next
<1>5. CASE ReturnContextError(c)
  <2>1. context[c] \in {"Canceled", "DeadlineExceeded"}
    BY <1>5, UnaryAssumption, TypeParts DEF ReturnContextError, CallerOK
  <2> QED
    BY <1>5, <2>1, ReturnsEnds DEF ReturnContextError, Contract!True, Contract!Outcome
<1>6. CASE ReturnReply(c)
  <2>1. PICK a \in replies[c] : Returns(c, a) \/ (a = "OK" /\ Returns(c, "Undecodable"))
    BY <1>6 DEF ReturnReply
  <2>2. a \in Answers
    BY <2>1, TypeParts DEF NatsOK
  <2>3. CASE a = "NoResponders"
    <3>1. HandledBy(c) = {}
      BY <2>3 DEF PlaceInv, RefusedUntouched, Untouched, Untaken, HandledBy
    <3> QED
      BY <2>1, <2>3, <3>1, ReturnsEnds DEF Contract!True, Contract!Outcome
  <2>4. CASE a # "NoResponders"
    <3>1. ResultOf(c) = a
      BY <2>2, <2>4, ResultOfParts DEF PlaceInv, AnswersTrue, Answers
    <3> QED
      BY <2>1, <2>2, <2>4, <3>1, ReturnsEnds DEF Contract!True, Contract!Outcome, Answers
  <2> QED
    BY <2>3, <2>4
<1> QED
  BY <1>1, <1>2, <1>3, <1>4, <1>5, <1>6 DEF Caller

\* A call is taken up once, and only while its outcome allows it.
LEMMA OnMessageContract ==
  ASSUME TypeOK, PlaceInv, NEW r \in Replicas, NEW s \in Services, OnMessage(r, s)
  PROVE  Contract!Next
<1>1. PICK c \in Calls : /\ Untaken(c) /\ ~ Unqueued(c)
                         /\ work' = [work EXCEPT ![r][c].pc = "running"]
  BY OnMessagePlace
<1>2. \A t \in Replicas, d \in Calls :
        /\ work'[t][d].result = work[t][d].result
        /\ IF t = r /\ d = c THEN work'[t][d].pc = "running" ELSE work'[t][d] = work[t][d]
  BY <1>1, TypeParts DEF WorkOK
<1>3. \A d \in Calls : ResultOf(d)' = ResultOf(d)
  BY <1>2, ResultKept
<1>4. \A d \in Calls : HandledBy(d)' = IF d = c THEN {r} ELSE HandledBy(d)
  BY <1>1, <1>2 DEF HandledBy, Untaken
<1>5. HandledBy(c) = {} /\ outcome[c] \notin {"NoResponders", "Invalid"}
  BY <1>1 DEF PlaceInv, RefusedUntouched, InvalidUnsent, UnsentUntouched, Untouched, Untaken, HandledBy
<1>6. UNCHANGED <<context, outcome, ResultMap>>
  BY <1>3 DEF OnMessage, callerVars, ResultMap
<1>7. HandledMap' = [HandledMap EXCEPT ![c] = {r}]
  BY <1>4 DEF HandledMap
<1>8. Contract!HandlerStarts(c, r)
  BY <1>5, <1>6, <1>7 DEF Contract!HandlerStarts, HandledMap, ResultMap
<1> QED
  BY <1>8 DEF Contract!Next

\* A handler returns once.
LEMMA HandlerContract ==
  ASSUME TypeOK, PlaceInv, PlaceInv', TypeOK', NEW r \in Replicas, NEW c \in Calls,
         NEW res \in Result, HandlerReturns(r, c, res)
  PROVE  Contract!Next
<1>1. /\ work' = [work EXCEPT ![r][c] = [pc |-> "answer", result |-> res]]
      /\ work[r][c].pc = "running" /\ work[r][c].result = "none"
      /\ UNCHANGED <<context, outcome>>
  BY DEF HandlerReturns, PlaceInv, WorkHolds, callerVars
<1>2. \A t \in Replicas, d \in Calls :
        IF t = r /\ d = c THEN work'[t][d].pc = "answer" /\ work'[t][d].result = res
        ELSE work'[t][d] = work[t][d]
  BY <1>1, TypeParts DEF WorkOK
<1>3. \A d \in Calls : HandledBy(d)' = HandledBy(d)
  BY <1>1, <1>2 DEF HandledBy
<1>4. \A t \in Replicas : work[t][c].result = "none"
  BY <1>1 DEF PlaceInv, TakenOnce, WorkHolds
<1>5. ResultOf(c) = "none"
  BY <1>4, ResultOfParts
<1>6. ResultOf(c)' = res
  <2>1. Results(c)' = {res}
    BY <1>2, <1>4 DEF Results, Result
  <2> QED
    BY <2>1 DEF ResultOf
<1>7. \A d \in Calls : d # c => ResultOf(d)' = ResultOf(d)
  BY <1>2, ResultKept
<1>8. HandledMap' = HandledMap /\ ResultMap' = [ResultMap EXCEPT ![c] = res]
  BY <1>3, <1>6, <1>7 DEF HandledMap, ResultMap
<1>9. HandledBy(c) # {} /\ res \in {"OK", "Error"}
  BY <1>1 DEF HandledBy, Result
<1>10. Contract!HandlerReturns(c, res)
  BY <1>1, <1>5, <1>8, <1>9 DEF Contract!HandlerReturns, HandledMap, ResultMap
<1> QED
  BY <1>9, <1>10 DEF Contract!Next

\* A crash keeps who took a call up and what it came to.
LEMMA CrashContract ==
  ASSUME TypeOK, NEW r \in Replicas, Crash(r)
  PROVE  UNCHANGED Contract!vars
<1>1. \A t \in Replicas, c \in Calls :
        /\ work'[t][c].result = work[t][c].result
        /\ work'[t][c].pc # "none" <=> work[t][c].pc # "none"
  BY TypeParts DEF Crash, WorkOK
<1>2. \A c \in Calls : HandledBy(c)' = HandledBy(c) /\ ResultOf(c)' = ResultOf(c)
  BY <1>1, ResultKept DEF HandledBy
<1> QED
  BY <1>2, StutterContract DEF Crash, callerVars

\* Nor does an answer that goes out change them.
LEMMA RespondContract ==
  ASSUME TypeOK, NEW r \in Replicas, NEW c \in Calls, Respond(r, c)
  PROVE  UNCHANGED Contract!vars
<1>1. \A t \in Replicas, d \in Calls :
        /\ work'[t][d].result = work[t][d].result
        /\ work'[t][d].pc # "none" <=> work[t][d].pc # "none"
  BY TypeParts DEF Respond, WorkOK
<1>2. \A d \in Calls : HandledBy(d)' = HandledBy(d) /\ ResultOf(d)' = ResultOf(d)
  BY <1>1, ResultKept DEF HandledBy
<1> QED
  BY <1>2, StutterContract DEF Respond, callerVars

\* Every step is one of the contract's, or none of its business.
LEMMA NextContract == IInv /\ IInv' /\ [Next]_vars => [Contract!Next]_(Contract!vars)
<1> SUFFICES ASSUME IInv, IInv', [Next]_vars PROVE [Contract!Next]_(Contract!vars)
  OBVIOUS
<1> USE DEF IInv
<1>1. ASSUME NEW c \in Calls, Caller(c) PROVE [Contract!Next]_(Contract!vars)
  BY <1>1, CallerContract
<1>2. ASSUME NEW c \in Calls, NATS(c) PROVE UNCHANGED Contract!vars
  BY <1>2, StutterContract, MappingKept DEF NATS, NoResponders, Route, callerVars
<1>3. ASSUME NEW r \in Replicas, Server(r) PROVE [Contract!Next]_(Contract!vars)
  <2>1. CASE RegisterEntries(r) \/ StopStreams(r)
             \/ \E s \in Services : RegisterSubscribes(r, s) \/ FrameArrives(r, s)
                                      \/ OnMessageMisses(r, s) \/ EnterStream(r, s) \/ Unsubscribe(r, s)
    BY <2>1, StutterContract, MappingKept
       DEF RegisterEntries, StopStreams, RegisterSubscribes, FrameArrives, OnMessageMisses,
           EnterStream, Unsubscribe, callerVars
  <2> QED
    BY <1>3, <2>1, OnMessageContract, HandlerContract, RespondContract, CrashContract DEF Server
<1>4. CASE UNCHANGED vars
  BY <1>4, StutterContract, MappingKept DEF vars, callerVars
<1> QED
  BY <1>1, <1>2, <1>3, <1>4 DEF Next

\* A unary call implements its contract: one replica at most runs its handler,
\* whatever replicas register, stop and crash; it ends once; and what Invoke
\* returns is true of it (client.go:294-303, server.go:420-466, queue group of
\* RegisterService, server.go:236-243).
THEOREM CallsImplementContract == Spec => ImplementsContract
BY InitIInv, NextIInv, InitContract, NextContract, PTL DEF Spec, Contract!Spec, ImplementsContract
=============================================================================
