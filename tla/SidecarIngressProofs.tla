------------------------- MODULE SidecarIngressProofs -------------------------
(***************************************************************************)
(* Proofs about SidecarIngress, for every set of replies, capacity and      *)
(* bound, and for every set of leases except where a theorem says that      *)
(* there is one: its type correctness, with the capacity of the frame       *)
(* channels; TeardownReaches and EndedOrTorndown, on the two maps a worker  *)
(* is entered in under two mutexes; ReplyProtocol, on what the caller is    *)
(* sent; and UpstreamSeesPrefix, on what the app is sent.                   *)
(***************************************************************************)
EXTENDS SidecarIngress, DataLines, SequenceTheorems, TLAPS

-----------------------------------------------------------------------------
(* Types                                                                    *)

PendingOK == pending \in [Leases -> Seq(Frame)] /\ \A g \in Leases : Len(pending[g]) <= WireCap
ResponsesOK == responses \in [Replies -> Seq(Response)]
CallerOK == caller \in [Replies -> [kind : {"stream", "unary"}, called : BOOLEAN,
                                    data : 0..MaxFrames, pings : 0..MaxFrames, ended : BOOLEAN]]
LeaseOK == registrations \subseteq Leases
           /\ lease \in [Leases -> {"none", "subscribed", "held", "closing", "torn"}]
ClosingOK == closing \in [pc : {"none", "snapshot", "teardown", "graceful", "returned"},
                          left : SUBSET Leases, at : Leases \cup {NoLease}]
TeardownOK == teardown \in [Leases -> [pc : {"none", "unsubscribe", "cancel", "done"},
                                       cancels : SUBSET Replies]]
IndexOK == streams \in [Replies -> Leases \cup {NoLease}]
           /\ streamCtxs \in [Leases -> SUBSET Replies]

DispatcherPC == {"idle", "lookup", "create", "add", "index", "begin", "put"}
WorkerPC == {"none", "select", "send", "drain", "end", "remove", "delete", "cancel", "gone",
             "invoke", "respond"}

\* A dispatcher that is at work has a frame.
DispatcherOK ==
  /\ dispatcher \in [Leases -> [pc : DispatcherPC, frame : Frame \cup {<<>>},
                                at : Leases \cup {NoLease}]]
  /\ \A g \in Leases : dispatcher[g].pc # "idle" => dispatcher[g].frame \in Frame

\* A worker has a message to send, and an outcome to publish.
WorkerOK ==
  /\ worker \in [Worker -> [pc : WorkerPC, n : 0..MaxFrames, err : Outcome \cup {"nil"}]]
  /\ \A w \in Worker : /\ worker[w].pc = "send" => worker[w].n # 0
                       /\ worker[w].pc \in {"end", "respond"} => worker[w].err # "nil"
CtxOK == ctxDone \in [Worker -> BOOLEAN]
FramesOK == frames \in [Worker -> Seq(Frame)] /\ \A w \in Worker : Len(frames[w]) <= FrameCap
PumpOK == pump \in [Worker -> [pc : {"none", "recv", "publish", "done"}, n : 0..MaxUp]]
          /\ upDone \in [Worker -> Outcome \cup {"nil"}]
UpstreamOK == upstream \in [Worker -> [got : Seq(1..MaxFrames), sent : 0..MaxUp, half : BOOLEAN,
                                       ended : {"no", "EOF", "Status"}]]

\* TypeOK and what it rests on.
Typed ==
  /\ PendingOK /\ ResponsesOK /\ CallerOK /\ LeaseOK /\ ClosingOK /\ TeardownOK /\ IndexOK
  /\ DispatcherOK /\ WorkerOK /\ CtxOK /\ FramesOK /\ PumpOK /\ UpstreamOK

\* The bounds are numbers.
LEMMA Bounds ==
  /\ FrameCap \in Nat /\ FrameCap >= 1 /\ WireCap \in Nat /\ WireCap >= 1
  /\ MaxFrames \in Nat /\ MaxUp \in Nat
BY IngressAssumption

\* What the step of an actor leaves alone keeps its type.
LEMMA TypeAside ==
  ASSUME Typed
  PROVE  /\ UNCHANGED pending => PendingOK'
         /\ UNCHANGED responses => ResponsesOK'
         /\ UNCHANGED caller => CallerOK'
         /\ UNCHANGED <<registrations, lease>> => LeaseOK'
         /\ UNCHANGED closing => ClosingOK'
         /\ UNCHANGED teardown => TeardownOK'
         /\ UNCHANGED <<streams, streamCtxs>> => IndexOK'
         /\ UNCHANGED dispatcher => DispatcherOK'
         /\ UNCHANGED worker => WorkerOK'
         /\ UNCHANGED ctxDone => CtxOK'
         /\ UNCHANGED frames => FramesOK'
         /\ UNCHANGED <<pump, upDone>> => PumpOK'
         /\ UNCHANGED upstream => UpstreamOK'
BY DEF Typed, PendingOK, ResponsesOK, CallerOK, LeaseOK, ClosingOK, TeardownOK, IndexOK,
       DispatcherOK, WorkerOK, CtxOK, FramesOK, PumpOK, UpstreamOK

\* The first frame of a line, and those behind it.
LEMMA TailOf ==
  ASSUME NEW F, NEW q \in Seq(F), q # <<>>
  PROVE  /\ Len(q) \in Nat /\ Len(q) >= 1 /\ q[1] \in F /\ Head(q) = q[1]
         /\ Tail(q) \in Seq(F) /\ Len(Tail(q)) = Len(q) - 1
         /\ \A i \in 1..Len(Tail(q)) : i + 1 \in 1..Len(q) /\ Tail(q)[i] = q[i + 1]
BY HeadTailProperties

\* A line and one frame more.
LEMMA OneMore ==
  ASSUME NEW F, NEW q \in Seq(F), NEW f \in F
  PROVE  /\ Append(q, f) \in Seq(F) /\ Len(q) \in Nat /\ Len(Append(q, f)) = Len(q) + 1
         /\ Append(q, f)[Len(q) + 1] = f
         /\ \A i \in 1..Len(q) : Append(q, f)[i] = q[i]
         /\ \A i \in 1..Len(Append(q, f)) : i \in 1..Len(q) \/ i = Len(q) + 1
BY AppendProperties

\* A response goes out, or nothing does.
LEMMA PublishTyped ==
  ASSUME ResponsesOK, NEW r \in Replies, NEW m \in Response, Publish(r, m)
  PROVE  /\ ResponsesOK'
         /\ NatsUp => responses' = [responses EXCEPT ![r] = Append(responses[r], m)]
         /\ ~NatsUp => UNCHANGED responses
<1>1. responses[r] \in Seq(Response) /\ Append(responses[r], m) \in Seq(Response)
  BY OneMore DEF ResponsesOK
<1>2. CASE NatsUp
  <2>1. responses' = [responses EXCEPT ![r] = Append(responses[r], m)]
    BY <1>2 DEF Publish
  <2> QED
    BY <1>1, <1>2, <2>1 DEF ResponsesOK
<1>3. CASE ~NatsUp
  <2>1. responses' = [responses EXCEPT ![r] = responses[r]]
    BY <1>3 DEF Publish
  <2>2. UNCHANGED responses
    BY <2>1 DEF ResponsesOK
  <2> QED
    BY <1>3, <2>2 DEF ResponsesOK
<1> QED
  BY <1>2, <1>3

\* The responses there are.
LEMMA ResponseTypes ==
  /\ Begin \in Response
  /\ \A n \in 0..MaxUp : Data(n) \in Response
  /\ \A e \in Outcome : End(e) \in Response /\ Unary(e) \in Response
BY Bounds DEF Begin, Data, End, Unary, Response

\* A caller's frame is copied to every subscription.
LEMMA SendTyped ==
  ASSUME PendingOK, NEW r \in Replies, NEW t \in {"Call", "Data", "End", "Ping"},
         NEW n \in 0..MaxFrames, t = "Data" => n # 0, Send(r, t, n)
  PROVE  PendingOK'
<1> DEFINE f == [reply |-> r, type |-> t, n |-> n]
<1>1. f \in Frame
  BY DEF Frame
<1> HIDE DEF f
<1>2. \A g \in Leases : pending[g] \in Seq(Frame) /\ Len(pending[g]) \in Nat
  BY LenProperties DEF PendingOK
<1>3. \A g \in Leases : /\ Append(pending[g], f) \in Seq(Frame)
                        /\ Len(Append(pending[g], f)) = Len(pending[g]) + 1
  BY <1>1, <1>2, OneMore
<1>4. /\ \A g \in Leases : Subscribed(g) => Len(pending[g]) < WireCap
      /\ pending' = [g \in Leases |-> IF Subscribed(g) THEN Append(pending[g], f) ELSE pending[g]]
  BY DEF Send, f
<1>5. \A g \in Leases : pending'[g] \in Seq(Frame) /\ Len(pending'[g]) <= WireCap
  <2> SUFFICES ASSUME NEW g \in Leases
               PROVE  pending'[g] \in Seq(Frame) /\ Len(pending'[g]) <= WireCap
    OBVIOUS
  <2>1. CASE Subscribed(g)
    <3>1. pending'[g] = Append(pending[g], f) /\ Len(pending[g]) < WireCap
      BY <1>4, <2>1
    <3> QED
      BY <1>2, <1>3, <3>1, Bounds
  <2>2. CASE ~Subscribed(g)
    BY <1>2, <1>4, <2>2 DEF PendingOK
  <2> QED
    BY <2>1, <2>2
<1> QED
  BY <1>4, <1>5 DEF PendingOK

\* The callers keep the types.
LEMMA CallerTyped ==
  ASSUME Typed, NEW r \in Replies, Caller(r)
  PROVE  Typed'
<1> USE Bounds
<1>0. PendingOK /\ CallerOK /\ WorkerOK
  BY DEF Typed
<1>1. CASE CallerCalls(r)
  <2>1. CallerOK'
    BY <1>0, <1>1 DEF CallerCalls, CallerOK
  <2>2. PendingOK'
    BY <1>0, <1>1, SendTyped DEF CallerCalls
  <2> QED
    BY <1>1, <2>1, <2>2, TypeAside DEF Typed, CallerCalls, Send, leaseVars, indexVars, pumpVars
<1>2. CASE CallerSendsData(r)
  <2>1. caller[r].data + 1 \in 1..MaxFrames
    BY <1>0, <1>2 DEF CallerSendsData, CallerOK
  <2>2. PendingOK'
    BY <1>0, <1>2, <2>1, SendTyped DEF CallerSendsData
  <2>3. CallerOK'
    BY <1>0, <1>2, <2>1 DEF CallerSendsData, CallerOK
  <2> QED
    BY <1>2, <2>2, <2>3, TypeAside DEF Typed, CallerSendsData, Send, leaseVars, indexVars, pumpVars
<1>3. CASE CallerEnds(r)
  <2>1. CallerOK'
    BY <1>0, <1>3 DEF CallerEnds, CallerOK
  <2>2. PendingOK'
    BY <1>0, <1>3, SendTyped DEF CallerEnds
  <2> QED
    BY <1>3, <2>1, <2>2, TypeAside DEF Typed, CallerEnds, Send, leaseVars, indexVars, pumpVars
<1>4. CASE CallerPings(r)
  <2>1. caller[r].pings + 1 \in 0..MaxFrames
    BY <1>0, <1>4 DEF CallerPings, CallerOK
  <2>2. PendingOK'
    BY <1>0, <1>4, SendTyped DEF CallerPings
  <2>3. CallerOK'
    BY <1>0, <1>4, <2>1 DEF CallerPings, CallerOK
  <2> QED
    BY <1>4, <2>2, <2>3, TypeAside DEF Typed, CallerPings, Send, leaseVars, indexVars, pumpVars
<1>5. CASE CallerRequests(r)
  <2>1. CallerOK'
    BY <1>0, <1>5 DEF CallerRequests, CallerOK
  <2>2. WorkerOK'
    <3>1. CASE UNCHANGED worker
      BY <1>0, <3>1 DEF WorkerOK
    <3>2. CASE \E g \in Leases : worker' = [worker EXCEPT ![<<g, r>>].pc = "invoke"]
      BY <1>0, <3>2 DEF WorkerOK, WorkerPC, Worker
    <3>3. CASE \E g \in Leases :
                 worker' = [worker EXCEPT ![<<g, r>>] = [pc |-> "respond", n |-> 0, err |-> "Invalid"]]
      BY <1>0, <3>3 DEF WorkerOK, WorkerPC, Worker, Outcome
    <3> QED
      BY <1>5, <3>1, <3>2, <3>3 DEF CallerRequests
  <2> QED
    BY <1>5, <2>1, <2>2, TypeAside DEF Typed, CallerRequests, leaseVars, indexVars, pumpVars
<1> QED
  BY <1>1, <1>2, <1>3, <1>4, <1>5 DEF Caller

\* The dispatcher keeps the types.
LEMMA DispatcherTyped ==
  ASSUME Typed, NEW g \in Leases, Dispatcher(g)
  PROVE  Typed'
<1> USE Bounds
<1>0. PendingOK /\ IndexOK /\ DispatcherOK /\ WorkerOK /\ CtxOK /\ FramesOK /\ PumpOK /\ ResponsesOK
  BY DEF Typed
<1> DEFINE r == dispatcher[g].frame.reply
<1>r. dispatcher[g].pc # "idle" => r \in Replies /\ <<g, r>> \in Worker
  BY <1>0 DEF DispatcherOK, Frame, Worker
<1> HIDE DEF r
<1>1. CASE OnStreamFrame(g)
  <2>1. PICK q \in Seq(Frame) : q = pending[g] /\ q # <<>>
    BY <1>0, <1>1 DEF OnStreamFrame, PendingOK
  <2>2. Head(q) \in Frame /\ Tail(q) \in Seq(Frame) /\ Len(Tail(q)) = Len(q) - 1 /\ Len(q) \in Nat
    BY <2>1, TailOf
  <2>3. pending' = [pending EXCEPT ![g] = Tail(q)]
    BY <1>1, <2>1 DEF OnStreamFrame
  <2>4. PendingOK'
    <3>1. Len(Tail(q)) <= WireCap
      BY <1>0, <2>1, <2>2 DEF PendingOK
    <3> QED
      BY <1>0, <2>2, <2>3, <3>1 DEF PendingOK
  <2>5. DispatcherOK'
    <3> DEFINE pc == IF Torndown(g) \/ (q[1].reply \notin streamCtxs[g] /\ q[1].type # "Call") THEN "idle"
                     ELSE IF q[1].reply \in streamCtxs[g] THEN "lookup" ELSE "create"
    <3>1. pc \in DispatcherPC
      BY DEF DispatcherPC
    <3>2. dispatcher' = [dispatcher EXCEPT ![g].frame = Head(q), ![g].pc = pc]
      BY <1>1, <2>1, <2>2 DEF OnStreamFrame
    <3> HIDE DEF pc
    <3> QED
      BY <1>0, <2>2, <3>1, <3>2 DEF DispatcherOK
  <2> QED
    BY <1>1, <2>4, <2>5, TypeAside DEF Typed, OnStreamFrame, DispatcherOnly, leaseVars, indexVars, pumpVars
<1>2. CASE FindWorker(g)
  <2>1. streams[r] \in Leases \cup {NoLease}
    BY <1>0, <1>2, <1>r DEF FindWorker, IndexOK
  <2>2. PICK pc \in {"idle", "put"} :
          dispatcher' = [dispatcher EXCEPT ![g].at = streams[r], ![g].pc = pc]
    BY <1>2 DEF FindWorker, r
  <2>3. DispatcherOK'
    BY <1>0, <1>2, <2>1, <2>2 DEF FindWorker, DispatcherOK, DispatcherPC
  <2> QED
    BY <1>2, <2>3, TypeAside DEF Typed, FindWorker, DispatcherOnly, leaseVars, indexVars, pumpVars
<1>3. CASE NewStream(g)
  <2>1. DispatcherOK'
    BY <1>0, <1>3 DEF NewStream, DispatcherOK, DispatcherPC
  <2>2. ResponsesOK'
    <3>1. End("Status") \in Response /\ r \in Replies
      BY <1>3, <1>r, ResponseTypes DEF NewStream, Outcome
    <3>2. UNCHANGED responses \/ Publish(r, End("Status"))
      BY <1>3 DEF NewStream, r
    <3> QED
      BY <1>0, <3>1, <3>2, PublishTyped, TypeAside
  <2> QED
    BY <1>3, <2>1, <2>2, TypeAside DEF Typed, NewStream, DispatcherOnly, leaseVars, indexVars, pumpVars
<1>4. CASE AddStream(g)
  <2>1. DispatcherOK'
    BY <1>0, <1>4 DEF AddStream, DispatcherOK, DispatcherPC
  <2>2. CtxOK'
    BY <1>0, <1>4 DEF AddStream, CtxOK
  <2>3. UNCHANGED streamCtxs \/ streamCtxs' = [streamCtxs EXCEPT ![g] = @ \cup {r}]
    BY <1>4 DEF AddStream, r
  <2>4. IndexOK'
    BY <1>0, <1>4, <1>r, <2>3 DEF AddStream, IndexOK
  <2> QED
    BY <1>4, <2>1, <2>2, <2>4, TypeAside DEF Typed, AddStream, DispatcherOnly, leaseVars, pumpVars
<1>5. CASE IndexWorker(g)
  <2>1. DispatcherOK'
    BY <1>0, <1>5 DEF IndexWorker, DispatcherOK, DispatcherPC
  <2>2. IndexOK'
    BY <1>0, <1>5 DEF IndexWorker, IndexOK
  <2> QED
    BY <1>5, <2>1, <2>2, TypeAside DEF Typed, IndexWorker, DispatcherOnly, leaseVars, pumpVars
<1>6. CASE StartWorker(g)
  <2>1. DispatcherOK'
    BY <1>0, <1>6 DEF StartWorker, DispatcherOK, DispatcherPC
  <2>2. WorkerOK'
    BY <1>0, <1>6 DEF StartWorker, WorkerOK, WorkerPC
  <2>3. PumpOK'
    BY <1>0, <1>6 DEF StartWorker, PumpOK
  <2>4. ResponsesOK'
    <3>1. Publish(r, Begin) /\ r \in Replies
      BY <1>6, <1>r DEF StartWorker, r
    <3> QED
      BY <1>0, <3>1, ResponseTypes, PublishTyped
  <2> QED
    BY <1>6, <2>1, <2>2, <2>3, <2>4, TypeAside DEF Typed, StartWorker, leaseVars, indexVars
<1>7. CASE PutFrame(g)
  <2> DEFINE w == <<dispatcher[g].at, dispatcher[g].frame.reply>>
             f == dispatcher[g].frame
  <2>1. dispatcher[g].pc = "put" /\ f \in Frame
    BY <1>0, <1>7 DEF PutFrame, DispatcherOK
  <2>2. \/ Len(frames[w]) < FrameCap /\ frames' = [frames EXCEPT ![w] = Append(@, f)]
        \/ UNCHANGED frames
    BY <1>7 DEF PutFrame
  <2> HIDE DEF w, f
  <2>3. FramesOK'
    <3>1. CASE UNCHANGED frames
      BY <1>0, <3>1 DEF FramesOK
    <3>2. CASE /\ w \in Worker /\ Len(frames[w]) < FrameCap
               /\ frames' = [frames EXCEPT ![w] = Append(@, f)]
      <4>1. PICK q \in Seq(Frame) : q = frames[w]
        BY <1>0, <3>2 DEF FramesOK
      <4>2. /\ Append(q, f) \in Seq(Frame) /\ Len(q) \in Nat /\ Len(Append(q, f)) = Len(q) + 1
            /\ Len(q) < FrameCap
        BY <2>1, <3>2, <4>1, OneMore
      <4>3. Append(q, f) \in Seq(Frame) /\ Len(Append(q, f)) <= FrameCap
        BY <4>2
      <4>4. frames' = [frames EXCEPT ![w] = Append(q, f)]
        BY <3>2, <4>1
      <4> QED
        BY <1>0, <4>3, <4>4 DEF FramesOK
    <3>3. CASE w \notin Worker /\ frames' = [frames EXCEPT ![w] = Append(@, f)]
      <4>1. frames' = frames
        BY <1>0, <3>3 DEF FramesOK
      <4> QED
        BY <1>0, <4>1 DEF FramesOK
    <3> QED
      BY <2>2, <3>1, <3>2, <3>3
  <2>4. DispatcherOK'
    BY <1>0, <1>7 DEF PutFrame, DispatcherOK, DispatcherPC
  <2> QED
    BY <1>7, <2>3, <2>4, TypeAside DEF Typed, PutFrame, DispatcherOnly, leaseVars, indexVars, pumpVars
<1> QED
  BY <1>1, <1>2, <1>3, <1>4, <1>5, <1>6, <1>7 DEF Dispatcher

\* A worker keeps the types.
LEMMA WorkerTyped ==
  ASSUME Typed, NEW w \in Worker, RunWorker(w)
  PROVE  Typed'
<1> USE Bounds
<1>0. IndexOK /\ WorkerOK /\ CtxOK /\ FramesOK /\ PumpOK /\ ResponsesOK /\ UpstreamOK
  BY DEF Typed
<1>w. w[1] \in Leases /\ w[2] \in Replies
  BY DEF Worker
<1>1. CASE WorkerTakes(w)
  <2>1. PICK q \in Seq(Frame) : q = frames[w] /\ q # <<>>
    BY <1>0, <1>1 DEF WorkerTakes, FramesOK
  <2>2. Head(q) \in Frame /\ Tail(q) \in Seq(Frame) /\ Len(Tail(q)) = Len(q) - 1 /\ Len(q) \in Nat
    BY <2>1, TailOf
  <2>3. frames' = [frames EXCEPT ![w] = Tail(q)]
    BY <1>1, <2>1 DEF WorkerTakes
  <2>4. FramesOK'
    <3>1. Len(Tail(q)) <= FrameCap
      BY <1>0, <2>1, <2>2 DEF FramesOK
    <3> QED
      BY <1>0, <2>2, <2>3, <3>1 DEF FramesOK
  <2>5. WorkerOK'
    <3>1. \/ /\ Head(q).type = "Data"
             /\ worker' = [worker EXCEPT ![w] = [pc |-> "send", n |-> Head(q).n, err |-> "nil"]]
          \/ worker' = [worker EXCEPT ![w] = [@ EXCEPT !.pc = "drain"]]
          \/ worker' = [worker EXCEPT ![w] = @]
      BY <1>1, <2>1 DEF WorkerTakes
    <3>2. Head(q).type = "Data" => Head(q).n \in 1..MaxFrames
      BY <2>2 DEF Frame
    <3>3. CASE /\ Head(q).type = "Data"
               /\ worker' = [worker EXCEPT ![w] = [pc |-> "send", n |-> Head(q).n, err |-> "nil"]]
      BY <1>0, <3>2, <3>3 DEF WorkerOK, WorkerPC
    <3>4. CASE worker' = [worker EXCEPT ![w] = [@ EXCEPT !.pc = "drain"]]
      BY <1>0, <3>4 DEF WorkerOK, WorkerPC
    <3>5. CASE worker' = [worker EXCEPT ![w] = @]
      BY <1>0, <3>5 DEF WorkerOK, WorkerPC
    <3> QED
      BY <3>1, <3>3, <3>4, <3>5
  <2>6. UpstreamOK'
    <3>1. PICK h \in BOOLEAN : upstream' = [upstream EXCEPT ![w].half = h]
      BY <1>0, <1>1 DEF WorkerTakes, UpstreamOK
    <3> QED
      BY <1>0, <3>1 DEF UpstreamOK
  <2> QED
    BY <1>1, <2>4, <2>5, <2>6, TypeAside DEF Typed, WorkerTakes, WorkerOnly, leaseVars, indexVars, pumpVars
<1>2. CASE WorkerCancelled(w)
  <2>1. WorkerOK'
    BY <1>0, <1>2 DEF WorkerCancelled, WorkerOK, WorkerPC
  <2> QED
    BY <1>2, <2>1, TypeAside DEF Typed, WorkerCancelled, WorkerOnly, leaseVars, indexVars, pumpVars
<1>3. CASE WorkerSendFails(w)
  <2>1. WorkerOK'
    BY <1>0, <1>3 DEF WorkerSendFails, WorkerOK, WorkerPC
  <2> QED
    BY <1>3, <2>1, TypeAside DEF Typed, WorkerSendFails, WorkerOnly, leaseVars, indexVars, pumpVars
<1>4. CASE WorkerSeesEnd(w)
  <2>0. upDone[w] \in Outcome
    BY <1>0, <1>4 DEF WorkerSeesEnd, PumpOK
  <2>1. PICK e \in Outcome : e = upDone[w]
    BY <2>0
  <2>2. worker' = [worker EXCEPT ![w].pc = "end", ![w].err = e]
    BY <1>4, <2>1 DEF WorkerSeesEnd
  <2>3. e # "nil"
    BY DEF Outcome
  <2>4. WorkerOK'
    BY <1>0, <2>2, <2>3 DEF WorkerOK, WorkerPC
  <2>5. PumpOK'
    BY <1>0, <1>4 DEF WorkerSeesEnd, PumpOK
  <2> QED
    BY <1>4, <2>4, <2>5, TypeAside DEF Typed, WorkerSeesEnd, WorkerOnly, leaseVars, indexVars
<1>5. CASE WorkerPublishesEnd(w)
  <2>1. WorkerOK'
    BY <1>0, <1>5 DEF WorkerPublishesEnd, WorkerOK, WorkerPC
  <2>2. worker[w].err \in Outcome
    BY <1>0, <1>5 DEF WorkerPublishesEnd, WorkerOK
  <2>3. ResponsesOK'
    BY <1>0, <1>5, <1>w, <2>2, ResponseTypes, PublishTyped DEF WorkerPublishesEnd
  <2> QED
    BY <1>5, <2>1, <2>3, TypeAside DEF Typed, WorkerPublishesEnd, WorkerOnly, leaseVars, indexVars, pumpVars
<1>6. CASE WorkerRemoves(w)
  <2>1. WorkerOK'
    BY <1>0, <1>6 DEF WorkerRemoves, WorkerOK, WorkerPC
  <2>2. IndexOK'
    BY <1>0, <1>6, <1>w DEF WorkerRemoves, IndexOK
  <2> QED
    BY <1>6, <2>1, <2>2, TypeAside DEF Typed, WorkerRemoves, WorkerOnly, leaseVars, pumpVars
<1>7. CASE WorkerDeletes(w)
  <2>1. WorkerOK'
    BY <1>0, <1>7 DEF WorkerDeletes, WorkerOK, WorkerPC
  <2>2. IndexOK'
    BY <1>0, <1>7, <1>w DEF WorkerDeletes, IndexOK
  <2> QED
    BY <1>7, <2>1, <2>2, TypeAside DEF Typed, WorkerDeletes, WorkerOnly, leaseVars, pumpVars
<1>8. CASE WorkerCancels(w)
  <2>1. WorkerOK' /\ CtxOK'
    BY <1>0, <1>8 DEF WorkerCancels, WorkerOK, WorkerPC, CtxOK
  <2> QED
    BY <1>8, <2>1, TypeAside DEF Typed, WorkerCancels, WorkerOnly, leaseVars, indexVars, pumpVars
<1>9. CASE UnaryCancelled(w)
  <2>1. WorkerOK'
    BY <1>0, <1>9 DEF UnaryCancelled, WorkerOK, WorkerPC, Outcome
  <2> QED
    BY <1>9, <2>1, TypeAside DEF Typed, UnaryCancelled, WorkerOnly, leaseVars, indexVars, pumpVars
<1>10. CASE RespondUnary(w)
  <2>1. WorkerOK'
    BY <1>0, <1>10 DEF RespondUnary, WorkerOK, WorkerPC
  <2>2. worker[w].err \in Outcome
    BY <1>0, <1>10 DEF RespondUnary, WorkerOK
  <2>3. ResponsesOK'
    BY <1>0, <1>10, <1>w, <2>2, ResponseTypes, PublishTyped DEF RespondUnary
  <2> QED
    BY <1>10, <2>1, <2>3, TypeAside DEF Typed, RespondUnary, WorkerOnly, leaseVars, indexVars, pumpVars
<1> QED
  BY <1>1, <1>2, <1>3, <1>4, <1>5, <1>6, <1>7, <1>8, <1>9, <1>10 DEF RunWorker

\* The pump and the app keep the types.
LEMMA AppTyped ==
  ASSUME Typed, NEW w \in Worker, Pump(w) \/ App(w)
  PROVE  Typed'
<1> USE Bounds
<1>0. WorkerOK /\ CtxOK /\ PumpOK /\ ResponsesOK /\ UpstreamOK
  BY DEF Typed
<1>w. w[1] \in Leases /\ w[2] \in Replies
  BY DEF Worker
<1>1. CASE PumpPublishes(w)
  <2>1. PumpOK' /\ Data(pump[w].n) \in Response
    BY <1>0, <1>1, ResponseTypes DEF PumpPublishes, PumpOK
  <2>2. ResponsesOK'
    BY <1>0, <1>1, <1>w, <2>1, PublishTyped DEF PumpPublishes
  <2> QED
    BY <1>1, <2>1, <2>2, TypeAside DEF Typed, PumpPublishes, PumpOnly, leaseVars, indexVars
<1>2. CASE PumpEnds(w)
  <2>1. PICK err \in Outcome : upDone' = [upDone EXCEPT ![w] = err]
    BY <1>0, <1>2 DEF PumpEnds, UpstreamOK, Outcome
  <2>2. PumpOK'
    BY <1>0, <1>2, <2>1 DEF PumpEnds, PumpOK
  <2> QED
    BY <1>2, <2>2, TypeAside DEF Typed, PumpEnds, PumpOnly, leaseVars, indexVars
<1>3. CASE AppReceives(w)
  <2>1. PICK q \in Seq(1..MaxFrames) : q = upstream[w].got
    BY <1>0 DEF UpstreamOK
  <2>2. worker[w].n \in 1..MaxFrames
    BY <1>0, <1>3 DEF AppReceives, WorkerOK
  <2>3. PICK p \in Seq(1..MaxFrames) : p = Append(q, worker[w].n)
    BY <2>2, OneMore
  <2>4. upstream' = [upstream EXCEPT ![w].got = p]
    BY <1>3, <2>1, <2>3 DEF AppReceives
  <2>5. UpstreamOK'
    BY <1>0, <2>4 DEF UpstreamOK
  <2>6. WorkerOK'
    BY <1>0, <1>3 DEF AppReceives, WorkerOK, WorkerPC
  <2> QED
    BY <1>3, <2>5, <2>6, TypeAside DEF Typed, AppReceives, AppOnly, leaseVars, indexVars, natsVars
<1>4. CASE AppSends(w)
  <2>1. upstream[w].sent + 1 \in 0..MaxUp
    BY <1>0, <1>4 DEF AppSends, UpstreamOK
  <2>2. UpstreamOK' /\ PumpOK'
    BY <1>0, <1>4, <2>1 DEF AppSends, AppOnly, UpstreamOK, PumpOK
  <2> QED
    BY <1>4, <2>2, TypeAside DEF Typed, AppSends, AppOnly, leaseVars, indexVars, natsVars
<1>5. CASE AppEnds(w)
  <2>1. UpstreamOK'
    BY <1>0, <1>5 DEF AppEnds, UpstreamOK
  <2> QED
    BY <1>5, <2>1, TypeAside DEF Typed, AppEnds, AppOnly, leaseVars, indexVars, natsVars
<1>6. CASE AppAnswersUnary(w)
  <2>1. PICK err \in {"OK", "Status"} :
          worker' = [worker EXCEPT ![w].pc = "respond", ![w].err = err]
    BY <1>6 DEF AppAnswersUnary
  <2>2. WorkerOK'
    BY <1>0, <2>1 DEF WorkerOK, WorkerPC, Outcome
  <2> QED
    BY <1>6, <2>2, TypeAside DEF Typed, AppAnswersUnary, AppOnly, leaseVars, indexVars, natsVars
<1> QED
  BY <1>1, <1>2, <1>3, <1>4, <1>5, <1>6 DEF Pump, App

\* Whoever tears a registration down.
LEMMA TeardownTyped ==
  ASSUME Typed, NEW g \in Leases, Teardown(g)
  PROVE  TeardownOK' /\ (UNCHANGED streams => IndexOK')
BY DEF Typed, TeardownOK, IndexOK, Teardown

\* The lease and Close keep the types.
LEMMA LeaseTyped ==
  ASSUME Typed, NEW g \in Leases,
         \/ OpenIngress(g) \/ SubscribeFails(g) \/ LeaseEnds(g)
         \/ Handler(g) \/ TeardownSteps(g)
  PROVE  Typed'
<1> USE Bounds
<1>0. LeaseOK /\ TeardownOK /\ PendingOK /\ CtxOK
  BY DEF Typed
<1>1. CASE OpenIngress(g) \/ SubscribeFails(g) \/ OpenRegisters(g) \/ CloseIngress(g)
  <2>1. LeaseOK'
    BY <1>0, <1>1 DEF OpenIngress, SubscribeFails, OpenRegisters, CloseIngress, LeaseOK
  <2> QED
    BY <1>1, <2>1, TypeAside
       DEF Typed, OpenIngress, SubscribeFails, OpenRegisters, CloseIngress, LeaseOnly, pumpVars
<1>2. CASE HandlerTeardown(g)
  <2>1. LeaseOK'
    BY <1>0, <1>2 DEF HandlerTeardown, LeaseOK
  <2>2. TeardownOK' /\ IndexOK'
    BY <1>2, TeardownTyped DEF HandlerTeardown, LeaseOnly
  <2> QED
    BY <1>2, <2>1, <2>2, TypeAside DEF Typed, HandlerTeardown, LeaseOnly, pumpVars
<1>3. CASE Unsubscribe(g)
  <2>1. TeardownOK'
    BY <1>0, <1>3 DEF Unsubscribe, TeardownOK
  <2>2. PendingOK'
    <3>1. \A F : <<>> \in Seq(F) /\ Len(<<>>) = 0
      OBVIOUS
    <3>2. PICK e \in Seq(Frame) : e = <<>> /\ Len(e) = 0
      BY <3>1, Zenon
    <3>3. pending' = [pending EXCEPT ![g] = e]
      BY <1>3, <3>2 DEF Unsubscribe
    <3> QED
      BY <1>0, <3>2, <3>3 DEF PendingOK
  <2> QED
    BY <1>3, <2>1, <2>2, TypeAside DEF Typed, Unsubscribe, LeaseOnly, pumpVars
<1>4. CASE CancelStream(g)
  <2>1. PICK r \in teardown[g].cancels :
          /\ teardown' = [teardown EXCEPT ![g].cancels = @ \ {r}]
          /\ ctxDone' = [ctxDone EXCEPT ![<<g, r>>] = TRUE]
    BY <1>4 DEF CancelStream
  <2>2. TeardownOK'
    BY <1>0, <2>1 DEF TeardownOK
  <2>3. CtxOK'
    BY <1>0, <2>1 DEF CtxOK
  <2> QED
    BY <1>4, <2>2, <2>3, TypeAside DEF Typed, CancelStream, LeaseOnly, pumpVars
<1>5. CASE CloseConn(g)
  <2>1. TeardownOK'
    BY <1>0, <1>5 DEF CloseConn, TeardownOK
  <2> QED
    BY <1>5, <2>1, TypeAside DEF Typed, CloseConn, LeaseOnly, pumpVars
<1> QED
  BY <1>1, <1>2, <1>3, <1>4, <1>5 DEF LeaseEnds, HandlerStops, Handler, TeardownSteps

\* So does Close.
LEMMA CloseTyped ==
  ASSUME Typed, CloseBegins \/ CloseSteps \/ CloseReturns
  PROVE  Typed'
<1> USE Bounds
<1>0. LeaseOK /\ ClosingOK /\ PendingOK
  BY DEF Typed
<1>1. CASE CloseBegins
  <2>1. ClosingOK'
    BY <1>0, <1>1 DEF CloseBegins, ClosingOK
  <2> QED
    BY <1>1, <2>1, TypeAside DEF Typed, CloseBegins, CloseOnly, natsVars, pumpVars
<1>2. CASE CloseSnapshot
  <2>1. ClosingOK' /\ LeaseOK'
    BY <1>0, <1>2 DEF CloseSnapshot, CloseOnly, ClosingOK, LeaseOK
  <2> QED
    BY <1>2, <2>1, TypeAside DEF Typed, CloseSnapshot, CloseOnly, natsVars, pumpVars
<1>3. ASSUME NEW g \in Leases, CloseTearsDown(g) PROVE Typed'
  <2>1. ClosingOK'
    BY <1>0, <1>3 DEF CloseTearsDown, ClosingOK
  <2>2. TeardownOK' /\ IndexOK'
    BY <1>3, TeardownTyped DEF CloseTearsDown, CloseOnly
  <2> QED
    BY <1>3, <2>1, <2>2, TypeAside DEF Typed, CloseTearsDown, CloseOnly, natsVars, pumpVars
<1>4. CASE CloseTornDown
  <2>1. ClosingOK'
    BY <1>0, <1>4 DEF CloseTornDown, ClosingOK
  <2> QED
    BY <1>4, <2>1, TypeAside DEF Typed, CloseTornDown, CloseOnly, natsVars, pumpVars
<1>5. CASE CloseReturns
  <2>1. ClosingOK'
    BY <1>0, <1>5 DEF CloseReturns, ClosingOK
  <2>2. PendingOK'
    <3>1. \A F : <<>> \in Seq(F) /\ Len(<<>>) = 0
      OBVIOUS
    <3>2. PICK e \in Seq(Frame) : e = <<>> /\ Len(e) = 0
      BY <3>1, Zenon
    <3>3. pending' = [g \in Leases |-> e]
      BY <1>5, <3>2 DEF CloseReturns
    <3> QED
      BY <1>0, <3>2, <3>3 DEF PendingOK
  <2> QED
    BY <1>5, <2>1, <2>2, TypeAside DEF Typed, CloseReturns, indexVars, pumpVars
<1> QED
  BY <1>1, <1>2, <1>3, <1>4, <1>5 DEF CloseSteps

\* TypeOK and what it rests on is inductive.
LEMMA NextTyped == Typed /\ [Next]_vars => Typed'
<1> SUFFICES ASSUME Typed, [Next]_vars PROVE Typed'
  OBVIOUS
<1>1. CASE UNCHANGED vars
  BY <1>1, TypeAside DEF Typed, vars, natsVars, leaseVars, indexVars, pumpVars
<1> QED
  BY <1>1, CallerTyped, DispatcherTyped, WorkerTyped, AppTyped, LeaseTyped, CloseTyped DEF Next

\* The initial states have the types.
LEMMA InitTyped == Init => Typed
<1> SUFFICES ASSUME Init PROVE Typed
  OBVIOUS
<1> USE Bounds
<1>1. \A F : <<>> \in Seq(F) /\ Len(<<>>) = 0
  OBVIOUS
<1>2. PICK e \in Seq(Frame) : e = <<>> /\ Len(e) = 0
  BY <1>1, Zenon
<1>3. PendingOK /\ FramesOK
  BY <1>2 DEF Init, PendingOK, FramesOK
<1>4. ResponsesOK
  BY <1>1 DEF Init, ResponsesOK
<1>5. CallerOK
  <2> DEFINE callers == {[kind |-> k, called |-> FALSE, data |-> 0, pings |-> 0,
                          ended |-> FALSE] : k \in {"stream", "unary"}}
             all == [kind : {"stream", "unary"}, called : BOOLEAN, data : 0..MaxFrames,
                     pings : 0..MaxFrames, ended : BOOLEAN]
  <2>1. caller \in [Replies -> callers]
    BY DEF Init
  <2>2. callers \subseteq all
    <3>1. 0 \in 0..MaxFrames
      OBVIOUS
    <3>2. \A k \in {"stream", "unary"} :
            [kind |-> k, called |-> FALSE, data |-> 0, pings |-> 0, ended |-> FALSE] \in all
      BY <3>1
    <3> QED
      BY <3>2
  <2> HIDE DEF callers, all
  <2>3. caller \in [Replies -> all]
    BY <2>1, <2>2
  <2> QED
    BY <2>3 DEF CallerOK, all
<1>9. LeaseOK /\ TeardownOK /\ IndexOK
  BY DEF Init, LeaseOK, TeardownOK, IndexOK
<1>10. ClosingOK
  BY DEF Init, ClosingOK
<1>6. DispatcherOK
  BY DEF Init, DispatcherOK, DispatcherPC
<1>7. WorkerOK /\ CtxOK /\ PumpOK
  BY DEF Init, WorkerOK, WorkerPC, CtxOK, PumpOK
<1>8. UpstreamOK
  <2>1. PICK q \in Seq(1..MaxFrames) : q = <<>>
    BY <1>1, Zenon
  <2> QED
    BY <2>1 DEF Init, UpstreamOK
<1> QED
  BY <1>3, <1>4, <1>5, <1>6, <1>7, <1>8, <1>9, <1>10 DEF Typed

\* The variables keep their types and no frame channel holds more than its capacity
\* (SidecarIngress's TypeOK).
THEOREM TypeCorrect == Spec => []TypeOK
<1>1. Typed => TypeOK
  BY DEF Typed, TypeOK, PendingOK, ResponsesOK, CallerOK, LeaseOK, ClosingOK, TeardownOK,
         IndexOK, DispatcherOK, DispatcherPC, WorkerOK, WorkerPC, CtxOK, FramesOK, PumpOK, UpstreamOK
<1> QED
  BY <1>1, InitTyped, NextTyped, PTL DEF Spec

-----------------------------------------------------------------------------
(* The two maps a worker is entered in                                      *)

\* The dispatcher makes a worker for the reply.
Making(g, r) ==
  dispatcher[g].pc \in {"create", "add", "index", "begin"} /\ dispatcher[g].frame.reply = r

IsCall(f, r) == f.type = "Call" /\ f.reply = r

Waits(q, r) == \E i \in 1..Len(q) : IsCall(q[i], r)
Once(q, r) == \A i, j \in 1..Len(q) : IsCall(q[i], r) /\ IsCall(q[j], r) => i = j

\* A Call that waits is the only one, and nobody has made its worker or makes it.
CallWaits(g, r) ==
  /\ Once(pending[g], r)
  /\ Waits(pending[g], r) =>
       /\ caller[r].kind = "stream" /\ caller[r].called
       /\ worker[<<g, r>>].pc = "none" /\ ~Making(g, r)

Running == {"select", "send", "drain", "end", "remove", "delete", "cancel"}

\* A worker is made once, for a call of its kind.
MadeOnce(g, r) == LET pc == worker[<<g, r>>].pc IN
  /\ Making(g, r) => caller[r].kind = "stream" /\ caller[r].called /\ pc = "none"
  /\ dispatcher[g].pc \in {"add", "index", "begin"} => dispatcher[g].at = g
  /\ pc # "none" => caller[r].called
  /\ pc \in Running => caller[r].kind = "stream"
  /\ pc \in {"invoke", "respond"} => caller[r].kind = "unary"

\* The Calls of a line that loses its first frame.
LEMMA WaitsTail ==
  ASSUME NEW F, NEW q \in Seq(F), q # <<>>, NEW r
  PROVE  /\ Once(q, r) => Once(Tail(q), r)
         /\ Waits(Tail(q), r) => Waits(q, r)
         /\ IsCall(Head(q), r) => Waits(q, r) /\ (Once(q, r) => ~Waits(Tail(q), r))
<1>1. /\ Len(q) \in Nat /\ Len(q) >= 1 /\ Head(q) = q[1] /\ Len(Tail(q)) = Len(q) - 1
      /\ \A i \in 1..Len(Tail(q)) : i + 1 \in 1..Len(q) /\ Tail(q)[i] = q[i + 1]
  BY TailOf
<1> DEFINE t == Tail(q)
<1>2. \A i \in 1..Len(t) : i + 1 \in 1..Len(q) /\ t[i] = q[i + 1] /\ i + 1 # 1 /\ i \in Nat
  BY <1>1
<1>3. 1 \in 1..Len(q) /\ Head(q) = q[1]
  BY <1>1
<1> HIDE DEF t
<1>4. Once(q, r) => Once(t, r)
  BY <1>2 DEF Once
<1>5. Waits(t, r) => Waits(q, r)
  BY <1>2 DEF Waits
<1>6. IsCall(Head(q), r) => Waits(q, r) /\ (Once(q, r) => ~Waits(t, r))
  BY <1>2, <1>3 DEF Waits, Once
<1> QED
  BY <1>4, <1>5, <1>6 DEF t

\* The Calls of a line with one frame more.
LEMMA WaitsAppend ==
  ASSUME NEW F, NEW q \in Seq(F), NEW f \in F, NEW r
  PROVE  /\ ~IsCall(f, r) => /\ Once(q, r) => Once(Append(q, f), r)
                             /\ Waits(Append(q, f), r) => Waits(q, r)
         /\ ~Waits(q, r) => Once(Append(q, f), r)
<1> DEFINE t == Append(q, f)
<1>1. /\ Len(q) \in Nat /\ t[Len(q) + 1] = f /\ \A i \in 1..Len(q) : t[i] = q[i]
      /\ \A i \in 1..Len(t) : i \in 1..Len(q) \/ i = Len(q) + 1
  BY OneMore
<1> HIDE DEF t
<1>2. ~IsCall(f, r) => (Once(q, r) => Once(t, r)) /\ (Waits(t, r) => Waits(q, r))
  BY <1>1 DEF Once, Waits
<1>3. ~Waits(q, r) => Once(t, r)
  BY <1>1 DEF Once, Waits
<1> QED
  BY <1>2, <1>3 DEF t

\* No Call waits where nothing does.
LEMMA WaitsEmpty ==
  ASSUME NEW r
  PROVE  Once(<<>>, r) /\ ~Waits(<<>>, r)
BY DEF Once, Waits

CallInv == \A g \in Leases, r \in Replies : CallWaits(g, r) /\ MadeOnce(g, r)

\* What a step may do to a reply that no Call was sent for and no worker started for.
LEMMA CallsStay ==
  ASSUME NEW g \in Leases, NEW r \in Replies, CallWaits(g, r), MadeOnce(g, r),
         Once(pending[g], r) => Once(pending'[g], r),
         Waits(pending'[g], r) => Waits(pending[g], r),
         caller'[r].kind = caller[r].kind, caller[r].called => caller'[r].called,
         Making(g, r)' => Making(g, r),
         dispatcher'[g].pc \in {"add", "index", "begin"} => dispatcher'[g].at = g,
         \/ worker'[<<g, r>>].pc = worker[<<g, r>>].pc
         \/ worker[<<g, r>>].pc \in Running /\ worker'[<<g, r>>].pc \in Running \cup {"gone"}
         \/ worker[<<g, r>>].pc \in {"invoke", "respond"} /\ worker'[<<g, r>>].pc \in {"respond", "gone"}
  PROVE  CallWaits(g, r)' /\ MadeOnce(g, r)'
<1>1. CallWaits(g, r)'
  BY DEF CallWaits, MadeOnce, Running
<1>2. MadeOnce(g, r)'
  BY DEF CallWaits, MadeOnce, Running
<1> QED
  BY <1>1, <1>2

\* A unary call starts its worker, or nobody serves it.
LEMMA RequestStarts ==
  ASSUME Typed, NEW r \in Replies, CallerRequests(r), NEW g \in Leases, NEW s \in Replies
  PROVE  \/ worker'[<<g, s>>] = worker[<<g, s>>]
         \/ s = r /\ worker'[<<g, s>>].pc \in {"invoke", "respond"}
<1>0. WorkerOK
  BY DEF Typed
<1>1. CASE UNCHANGED worker
  BY <1>1
<1>2. ASSUME NEW h \in Leases,
             \/ worker' = [worker EXCEPT ![<<h, r>>].pc = "invoke"]
             \/ worker' = [worker EXCEPT ![<<h, r>>] = [pc |-> "respond", n |-> 0, err |-> "Invalid"]]
      PROVE  \/ worker'[<<g, s>>] = worker[<<g, s>>]
             \/ s = r /\ worker'[<<g, s>>].pc \in {"invoke", "respond"}
  <2>1. <<g, s>> \in Worker /\ <<h, r>> \in Worker
    BY DEF Worker
  <2>2. CASE <<g, s>> = <<h, r>>
    BY <1>0, <1>2, <2>1, <2>2 DEF WorkerOK
  <2>3. CASE <<g, s>> # <<h, r>>
    BY <1>0, <1>2, <2>1, <2>3 DEF WorkerOK
  <2> QED
    BY <2>2, <2>3
<1> QED
  BY <1>1, <1>2 DEF CallerRequests

\* A caller sends a frame, which may be a Call if he made none.
LEMMA CallerKeepsCalls ==
  ASSUME Typed, CallInv, NEW r \in Replies, Caller(r)
  PROVE  CallInv'
<1>0. PendingOK /\ CallerOK /\ WorkerOK /\ UNCHANGED dispatcher
  BY DEF Typed, Caller, CallerCalls, CallerSendsData, CallerEnds, CallerPings, CallerRequests, Send
<1>p. \A g \in Leases : pending[g] \in Seq(Frame)
  BY <1>0 DEF PendingOK
<1>m. \A g \in Leases, s \in Replies : Making(g, s)' <=> Making(g, s)
  BY <1>0 DEF Making
<1> SUFFICES ASSUME NEW g \in Leases, NEW s \in Replies
             PROVE  CallWaits(g, s)' /\ MadeOnce(g, s)'
  BY DEF CallInv
<1>i. CallWaits(g, s) /\ MadeOnce(g, s)
  BY DEF CallInv
<1>a. dispatcher'[g].pc \in {"add", "index", "begin"} => dispatcher'[g].at = g
  BY <1>0, <1>i DEF MadeOnce
<1>1. ASSUME NEW t \in {"Call", "Data", "End", "Ping"}, NEW n \in 0..MaxFrames,
             t = "Data" => n # 0, Send(r, t, n),
             caller'[s].kind = caller[s].kind, caller[s].called => caller'[s].called,
             t = "Call" => caller[r].kind = "stream" /\ ~caller[r].called /\ caller'[r].called
      PROVE  CallWaits(g, s)' /\ MadeOnce(g, s)'
  <2> DEFINE f == [reply |-> r, type |-> t, n |-> n]
  <2>1. f \in Frame /\ (IsCall(f, s) <=> t = "Call" /\ s = r)
    BY <1>1 DEF Frame, IsCall
  <2>2. UNCHANGED worker /\ (pending'[g] = pending[g] \/ pending'[g] = Append(pending[g], f))
    BY <1>1 DEF Send
  <2> HIDE DEF f
  <2>3. CASE t = "Call" /\ s = r
    <3>1. ~Waits(pending[g], s) /\ worker[<<g, s>>].pc = "none" /\ ~Making(g, s)
      BY <1>1, <1>i, <2>3 DEF CallWaits, MadeOnce
    <3>2. Once(Append(pending[g], f), s)
      BY <1>p, <2>1, <3>1, WaitsAppend
    <3>3. Once(pending'[g], s)
      BY <1>i, <2>2, <3>2 DEF CallWaits
    <3>4. CallWaits(g, s)'
      BY <1>1, <1>m, <2>2, <2>3, <3>1, <3>3 DEF CallWaits
    <3>5. MadeOnce(g, s)'
      BY <1>1, <1>m, <1>a, <1>i, <2>2, <2>3, <3>1 DEF MadeOnce
    <3> QED
      BY <3>4, <3>5
  <2>4. CASE ~(t = "Call" /\ s = r)
    <3>1. /\ Once(pending[g], s) => Once(Append(pending[g], f), s)
          /\ Waits(Append(pending[g], f), s) => Waits(pending[g], s)
      BY <1>p, <2>1, <2>4, WaitsAppend
    <3>2. /\ Once(pending[g], s) => Once(pending'[g], s)
          /\ Waits(pending'[g], s) => Waits(pending[g], s)
      BY <2>2, <3>1
    <3> QED
      BY <1>1, <1>a, <1>i, <1>m, <2>2, <3>2, CallsStay
  <2> QED
    BY <2>3, <2>4
<1>2. CASE CallerCalls(r)
  <2>1. Send(r, "Call", 0) /\ 0 \in 0..MaxFrames
    BY <1>2, Bounds DEF CallerCalls
  <2>2. /\ caller'[s].kind = caller[s].kind /\ (caller[s].called => caller'[s].called)
        /\ caller[r].kind = "stream" /\ ~caller[r].called /\ caller'[r].called
    BY <1>0, <1>2 DEF CallerCalls, CallerOK
  <2> QED
    BY <1>1, <2>1, <2>2
<1>3. CASE CallerSendsData(r)
  <2>1. caller[r].data + 1 \in 0..MaxFrames /\ caller[r].data + 1 # 0
    BY <1>0, <1>3, Bounds DEF CallerSendsData, CallerOK
  <2>2. caller'[s].kind = caller[s].kind /\ (caller[s].called => caller'[s].called)
    BY <1>0, <1>3 DEF CallerSendsData, CallerOK
  <2>3. Send(r, "Data", caller[r].data + 1)
    BY <1>3 DEF CallerSendsData
  <2> QED
    BY <1>1, <2>1, <2>2, <2>3
<1>4. CASE CallerEnds(r)
  <2>1. Send(r, "End", 0) /\ 0 \in 0..MaxFrames
    BY <1>4, Bounds DEF CallerEnds
  <2>2. caller'[s].kind = caller[s].kind /\ (caller[s].called => caller'[s].called)
    BY <1>0, <1>4 DEF CallerEnds, CallerOK
  <2> QED
    BY <1>1, <2>1, <2>2
<1>5. CASE CallerPings(r)
  <2>1. Send(r, "Ping", 0) /\ 0 \in 0..MaxFrames
    BY <1>5, Bounds DEF CallerPings
  <2>2. caller'[s].kind = caller[s].kind /\ (caller[s].called => caller'[s].called)
    BY <1>0, <1>5 DEF CallerPings, CallerOK
  <2> QED
    BY <1>1, <2>1, <2>2
<1>6. CASE CallerRequests(r)
  <2>1. caller[r].kind = "unary" /\ ~caller[r].called /\ UNCHANGED pending
    BY <1>6 DEF CallerRequests
  <2>2. /\ caller'[s].kind = caller[s].kind /\ (caller[s].called => caller'[s].called)
        /\ caller'[r].called
    BY <1>0, <1>6 DEF CallerRequests, CallerOK
  <2>3. \/ worker'[<<g, s>>] = worker[<<g, s>>]
        \/ s = r /\ worker'[<<g, s>>].pc \in {"invoke", "respond"}
    BY <1>6, RequestStarts
  <2>4. CASE worker'[<<g, s>>] = worker[<<g, s>>]
    BY <1>a, <1>i, <1>m, <2>1, <2>2, <2>4, CallsStay
  <2>5. CASE s = r /\ worker'[<<g, s>>].pc \in {"invoke", "respond"}
    <3>1. ~Making(g, s) /\ ~Waits(pending[g], s)
      BY <1>i, <2>1, <2>5 DEF CallWaits, MadeOnce
    <3>2. CallWaits(g, s)'
      BY <1>i, <2>1, <3>1 DEF CallWaits
    <3>3. MadeOnce(g, s)'
      BY <1>a, <1>m, <2>1, <2>2, <2>5, <3>1 DEF MadeOnce, Running
    <3> QED
      BY <3>2, <3>3
  <2> QED
    BY <2>3, <2>4, <2>5
<1> QED
  BY <1>2, <1>3, <1>4, <1>5, <1>6 DEF Caller

\* What a step of the dispatcher on a worker's way does to the makings.
LEMMA DispatcherMoves ==
  ASSUME Typed, CallInv, NEW g \in Leases, Dispatcher(g)
  PROVE  /\ UNCHANGED <<caller, registrations, closing, lease, teardown, upDone, upstream>>
         /\ \A h \in Leases : h # g => dispatcher'[h] = dispatcher[h] /\ pending'[h] = pending[h]
         /\ ~OnStreamFrame(g) => UNCHANGED pending /\ \A s \in Replies : Making(g, s)' => Making(g, s)
         /\ ~StartWorker(g) => UNCHANGED <<worker, pump>>
         /\ dispatcher'[g].pc \in {"add", "index", "begin"} => dispatcher'[g].at = g
<1>0. PendingOK /\ DispatcherOK
  BY DEF Typed
<1>a. dispatcher[g].pc \in {"add", "index", "begin"} => dispatcher[g].at = g
  <2>1. PICK r \in Replies : TRUE
    BY IngressAssumption
  <2> QED
    BY <2>1 DEF CallInv, MadeOnce
<1>1. CASE OnStreamFrame(g)
  <2>1. /\ \A h \in Leases : h # g => dispatcher'[h] = dispatcher[h] /\ pending'[h] = pending[h]
        /\ dispatcher'[g].pc \in {"idle", "lookup", "create"}
    BY <1>0, <1>1 DEF OnStreamFrame, DispatcherOK, PendingOK
  <2> QED
    BY <1>1, <2>1 DEF OnStreamFrame, DispatcherOnly, leaseVars, pumpVars, StartWorker
<1>2. CASE FindWorker(g)
  <2>1. \A h \in Leases : h # g => dispatcher'[h] = dispatcher[h]
    BY <1>0, <1>2 DEF FindWorker, DispatcherOK
  <2>2. dispatcher'[g].pc \in {"idle", "put"}
    BY <1>0, <1>2 DEF FindWorker, DispatcherOK
  <2> QED
    BY <1>2, <2>1, <2>2 DEF FindWorker, DispatcherOnly, leaseVars, pumpVars, StartWorker, Making
<1>3. CASE NewStream(g)
  <2>1. \A h \in Leases : h # g => dispatcher'[h] = dispatcher[h]
    BY <1>0, <1>3 DEF NewStream, DispatcherOK
  <2>2. /\ dispatcher[g].pc = "create" /\ dispatcher'[g].pc \in {"idle", "add"}
        /\ dispatcher'[g].frame = dispatcher[g].frame
        /\ dispatcher'[g].pc = "add" => dispatcher'[g].at = g
    BY <1>0, <1>3 DEF NewStream, DispatcherOK
  <2> QED
    BY <1>3, <2>1, <2>2 DEF NewStream, DispatcherOnly, leaseVars, pumpVars, StartWorker, Making
<1>4. CASE AddStream(g)
  <2>1. \A h \in Leases : h # g => dispatcher'[h] = dispatcher[h]
    BY <1>0, <1>4 DEF AddStream, DispatcherOK
  <2>2. /\ dispatcher[g].pc = "add" /\ dispatcher'[g].pc = "index"
        /\ dispatcher'[g].frame = dispatcher[g].frame /\ dispatcher'[g].at = dispatcher[g].at
    BY <1>0, <1>4 DEF AddStream, DispatcherOK
  <2> QED
    BY <1>4, <1>a, <2>1, <2>2 DEF AddStream, DispatcherOnly, leaseVars, pumpVars, StartWorker, Making
<1>5. CASE IndexWorker(g)
  <2>1. \A h \in Leases : h # g => dispatcher'[h] = dispatcher[h]
    BY <1>0, <1>5 DEF IndexWorker, DispatcherOK
  <2>2. /\ dispatcher[g].pc = "index" /\ dispatcher'[g].pc = "begin"
        /\ dispatcher'[g].frame = dispatcher[g].frame /\ dispatcher'[g].at = dispatcher[g].at
    BY <1>0, <1>5 DEF IndexWorker, DispatcherOK
  <2> QED
    BY <1>5, <1>a, <2>1, <2>2 DEF IndexWorker, DispatcherOnly, leaseVars, pumpVars, StartWorker, Making
<1>6. CASE StartWorker(g)
  <2>1. /\ \A h \in Leases : h # g => dispatcher'[h] = dispatcher[h]
        /\ dispatcher'[g].pc = "put"
    BY <1>0, <1>6 DEF StartWorker, DispatcherOK
  <2> QED
    BY <1>6, <2>1 DEF StartWorker, leaseVars, Making
<1>7. CASE PutFrame(g)
  <2>1. /\ \A h \in Leases : h # g => dispatcher'[h] = dispatcher[h]
        /\ dispatcher'[g].pc = "idle"
    BY <1>0, <1>7 DEF PutFrame, DispatcherOK
  <2> QED
    BY <1>7, <2>1 DEF PutFrame, DispatcherOnly, leaseVars, pumpVars, Making, StartWorker
<1> QED
  BY <1>1, <1>2, <1>3, <1>4, <1>5, <1>6, <1>7 DEF Dispatcher

\* The dispatcher takes a Call away and makes its worker.
LEMMA DispatcherKeepsCalls ==
  ASSUME Typed, CallInv, NEW g \in Leases, Dispatcher(g)
  PROVE  CallInv'
<1>0. PendingOK /\ DispatcherOK /\ WorkerOK /\ UNCHANGED caller
  BY DispatcherMoves DEF Typed
<1> SUFFICES ASSUME NEW h \in Leases, NEW s \in Replies
             PROVE  CallWaits(h, s)' /\ MadeOnce(h, s)'
  BY DEF CallInv
<1>i. CallWaits(h, s) /\ MadeOnce(h, s)
  BY DEF CallInv
<1>a. dispatcher'[h].pc \in {"add", "index", "begin"} => dispatcher'[h].at = h
  <2>1. CASE h = g
    BY <2>1, DispatcherMoves
  <2>2. CASE h # g
    BY <1>i, <2>2, DispatcherMoves DEF MadeOnce
  <2> QED
    BY <2>1, <2>2
<1>1. CASE OnStreamFrame(g)
  <2>1. PICK q \in Seq(Frame) : q = pending[g] /\ q # <<>>
    BY <1>0, <1>1 DEF OnStreamFrame, PendingOK
  <2> DEFINE f == Head(q)
  <2>2. /\ UNCHANGED worker /\ pending'[g] = Tail(q)
        /\ dispatcher'[g].frame = f /\ dispatcher'[g].pc \in {"idle", "lookup", "create"}
        /\ dispatcher'[g].pc = "create" => f.type = "Call"
    BY <1>0, <1>1, <2>1 DEF OnStreamFrame, DispatcherOK, PendingOK
  <2>3. f = Head(q)
    OBVIOUS
  <2> HIDE DEF f
  <2>4. CASE h = g
    <3>1. /\ Once(q, s) => Once(Tail(q), s)
          /\ Waits(Tail(q), s) => Waits(q, s)
          /\ IsCall(f, s) => Waits(q, s) /\ (Once(q, s) => ~Waits(Tail(q), s))
      BY <2>1, <2>3, WaitsTail
    <3>2. /\ Once(pending[h], s) => Once(pending'[h], s)
          /\ Waits(pending'[h], s) => Waits(pending[h], s)
          /\ IsCall(f, s) => Waits(pending[h], s) /\ (Once(pending[h], s) => ~Waits(pending'[h], s))
      BY <2>1, <2>2, <2>4, <3>1
    <3>3. Making(h, s)' => IsCall(f, s)
      BY <2>2, <2>4 DEF Making, IsCall
    <3>4. CASE IsCall(f, s)
      <4>1. CallWaits(h, s)'
        BY <1>i, <3>2, <3>4 DEF CallWaits
      <4>2. MadeOnce(h, s)'
        BY <1>0, <1>a, <1>i, <2>2, <3>2, <3>4 DEF CallWaits, MadeOnce, Running
      <4> QED
        BY <4>1, <4>2
    <3>5. CASE ~IsCall(f, s)
      BY <1>0, <1>a, <1>i, <2>2, <3>2, <3>3, <3>5, CallsStay
    <3> QED
      BY <3>4, <3>5
  <2>5. CASE h # g
    <3>1. dispatcher'[h] = dispatcher[h] /\ pending'[h] = pending[h]
      BY <2>5, DispatcherMoves
    <3>2. Making(h, s)' => Making(h, s)
      BY <3>1 DEF Making
    <3> QED
      BY <1>0, <1>a, <1>i, <2>2, <3>1, <3>2, CallsStay
  <2> QED
    BY <2>4, <2>5
<1>2. CASE ~OnStreamFrame(g)
  <2>1. UNCHANGED pending /\ (Making(h, s)' => Making(h, s))
    <3>1. CASE h = g
      BY <1>2, <3>1, DispatcherMoves
    <3>2. CASE h # g
      BY <1>2, <3>2, DispatcherMoves DEF Making
    <3> QED
      BY <3>1, <3>2
  <2>2. CASE worker'[<<h, s>>] = worker[<<h, s>>]
    BY <1>0, <1>a, <1>i, <2>1, <2>2, CallsStay
  <2>3. CASE StartWorker(g) /\ h = g /\ s = dispatcher[g].frame.reply
    <3>1. Making(h, s) /\ ~Making(h, s)'
      BY <1>0, <2>3 DEF StartWorker, Making, DispatcherOK
    <3>2. worker'[<<h, s>>].pc = "select"
      BY <1>0, <2>3 DEF StartWorker, WorkerOK, Worker
    <3>3. caller[s].kind = "stream" /\ caller[s].called /\ ~Waits(pending[h], s)
      BY <1>i, <3>1 DEF MadeOnce, CallWaits
    <3>4. CallWaits(h, s)'
      BY <1>i, <2>1, <3>3 DEF CallWaits
    <3>5. MadeOnce(h, s)'
      BY <1>0, <1>a, <3>1, <3>2, <3>3 DEF MadeOnce, Running
    <3> QED
      BY <3>4, <3>5
  <2>4. CASE StartWorker(g) /\ ~(h = g /\ s = dispatcher[g].frame.reply)
    <3>1. worker'[<<h, s>>] = worker[<<h, s>>]
      BY <1>0, <2>4 DEF StartWorker, WorkerOK, Worker
    <3> QED
      BY <2>2, <3>1
  <2> QED
    BY <2>2, <2>3, <2>4, DispatcherMoves
<1> QED
  BY <1>1, <1>2

\* How a worker that there is goes on, whoever makes it go on.
LEMMA WorkerMoves ==
  ASSUME Typed, NEW w \in Worker, RunWorker(w) \/ Pump(w) \/ App(w)
  PROVE  /\ UNCHANGED <<pending, caller, registrations, closing, lease, teardown, dispatcher>>
         /\ \A v \in Worker : v # w => worker'[v] = worker[v]
         /\ \/ worker'[w] = worker[w]
            \/ worker[w].pc \in Running /\ worker'[w].pc \in Running \cup {"gone"}
            \/ worker[w].pc \in {"invoke", "respond"} /\ worker'[w].pc \in {"respond", "gone"}
<1>0. WorkerOK
  BY DEF Typed
<1>1. CASE RunWorker(w)
  <2>1. UNCHANGED <<pending, caller, registrations, closing, lease, teardown, dispatcher>>
    BY <1>1 DEF RunWorker, WorkerTakes, WorkerCancelled, WorkerSendFails, WorkerSeesEnd,
         WorkerPublishesEnd, WorkerRemoves, WorkerDeletes, WorkerCancels, UnaryCancelled, RespondUnary,
         WorkerOnly, leaseVars
  <2>2. CASE WorkerTakes(w)
    <3> DEFINE f == Head(frames[w])
               x == CASE f.type = "Data" -> [pc |-> "send", n |-> f.n, err |-> "nil"]
                      [] f.type = "End"  -> [worker[w] EXCEPT !.pc = "drain"]
                      [] OTHER           -> worker[w]
    <3>1. worker[w].pc = "select" /\ worker' = [worker EXCEPT ![w] = x]
      BY <2>2 DEF WorkerTakes
    <3>2. x = worker[w] \/ x.pc \in {"send", "drain"}
      BY <1>0 DEF WorkerOK
    <3> HIDE DEF x
    <3> QED
      BY <1>0, <2>1, <3>1, <3>2 DEF WorkerOK, Running
  <2>3. CASE ~WorkerTakes(w)
    BY <1>0, <1>1, <2>1, <2>3
       DEF RunWorker, WorkerCancelled, WorkerSendFails, WorkerSeesEnd, WorkerPublishesEnd,
           WorkerRemoves, WorkerDeletes, WorkerCancels, UnaryCancelled, RespondUnary, WorkerOK, Running
  <2> QED
    BY <2>2, <2>3
<1>2. CASE Pump(w)
  BY <1>2 DEF Pump, PumpPublishes, PumpEnds, PumpOnly, leaseVars
<1>3. CASE App(w)
  BY <1>0, <1>3 DEF App, AppReceives, AppSends, AppEnds, AppAnswersUnary, AppOnly, natsVars, leaseVars,
                    WorkerOK, Running
<1> QED
  BY <1>1, <1>2, <1>3

\* The lease and Close leave callers, dispatchers and workers alone, and may empty
\* a subscription.
LEMMA LeaseLeaves ==
  ASSUME Typed,
         \/ \E g \in Leases : \/ OpenIngress(g) \/ SubscribeFails(g) \/ LeaseEnds(g)
                              \/ Handler(g) \/ TeardownSteps(g)
         \/ CloseBegins \/ CloseSteps \/ CloseReturns
  PROVE  /\ UNCHANGED <<responses, caller, streams, dispatcher, worker, frames, pump, upDone, upstream>>
         /\ \A g \in Leases : pending'[g] \in {pending[g], <<>>}
<1>0. PendingOK
  BY DEF Typed
<1>1. CASE \E g \in Leases : \/ OpenIngress(g) \/ SubscribeFails(g) \/ LeaseEnds(g) \/ Handler(g)
                             \/ TeardownSteps(g)
  BY <1>0, <1>1
     DEF OpenIngress, SubscribeFails, LeaseEnds, CloseIngress, Handler, OpenRegisters, HandlerStops,
         HandlerTeardown, TeardownSteps, Unsubscribe, CancelStream, CloseConn, LeaseOnly, pumpVars, PendingOK
<1>2. CASE CloseBegins \/ CloseSteps \/ CloseReturns
  BY <1>0, <1>2
     DEF CloseBegins, CloseSteps, CloseSnapshot, CloseTearsDown, CloseTornDown, CloseReturns, CloseOnly,
         natsVars, pumpVars, indexVars, PendingOK
<1> QED
  BY <1>1, <1>2

\* A Call that waits is the only one, and a worker is made once: inductive.
LEMMA NextCallInv == Typed /\ CallInv /\ [Next]_vars => CallInv'
<1> SUFFICES ASSUME Typed, CallInv, [Next]_vars PROVE CallInv'
  OBVIOUS
<1>1. ASSUME UNCHANGED <<caller, dispatcher>>,
             \A g \in Leases : pending'[g] \in {pending[g], <<>>},
             \A v \in Worker :
               \/ worker'[v] = worker[v]
               \/ worker[v].pc \in Running /\ worker'[v].pc \in Running \cup {"gone"}
               \/ worker[v].pc \in {"invoke", "respond"} /\ worker'[v].pc \in {"respond", "gone"}
      PROVE  CallInv'
  <2> SUFFICES ASSUME NEW g \in Leases, NEW r \in Replies
               PROVE  CallWaits(g, r)' /\ MadeOnce(g, r)'
    BY DEF CallInv
  <2>1. CallWaits(g, r) /\ MadeOnce(g, r)
    BY DEF CallInv
  <2>2. /\ Once(pending[g], r) => Once(pending'[g], r)
        /\ Waits(pending'[g], r) => Waits(pending[g], r)
    <3>1. CASE pending'[g] = pending[g]
      BY <3>1
    <3>2. CASE pending'[g] = <<>>
      BY <3>2, WaitsEmpty
    <3> QED
      BY <1>1, <3>1, <3>2
  <2>3. Making(g, r)' => Making(g, r)
    BY <1>1 DEF Making
  <2>4. dispatcher'[g].pc \in {"add", "index", "begin"} => dispatcher'[g].at = g
    BY <1>1, <2>1 DEF MadeOnce
  <2>5. <<g, r>> \in Worker
    BY DEF Worker
  <2> QED
    BY <1>1, <2>1, <2>2, <2>3, <2>4, <2>5, CallsStay
<1>2. CASE UNCHANGED vars
  BY <1>1, <1>2 DEF vars, natsVars
<1>3. CASE \E w \in Worker : RunWorker(w) \/ Pump(w) \/ App(w)
  BY <1>1, <1>3, WorkerMoves
<1>4. CASE \/ \E g \in Leases : \/ OpenIngress(g) \/ SubscribeFails(g) \/ LeaseEnds(g)
                                \/ Handler(g) \/ TeardownSteps(g)
           \/ CloseBegins \/ CloseSteps \/ CloseReturns
  BY <1>1, <1>4, LeaseLeaves
<1> QED
  BY <1>2, <1>3, <1>4, CallerKeepsCalls, DispatcherKeepsCalls DEF Next

\* It holds at first.
LEMMA InitCallInv == Init => CallInv
<1> SUFFICES ASSUME Init, NEW g \in Leases, NEW r \in Replies
             PROVE  CallWaits(g, r) /\ MadeOnce(g, r)
  BY DEF CallInv
<1>1. pending[g] = <<>> /\ dispatcher[g].pc = "idle"
  BY DEF Init
<1>2. worker[<<g, r>>].pc = "none" /\ ~Making(g, r)
  BY <1>1 DEF Init, Worker, Making
<1>3. CallWaits(g, r)
  BY <1>1, WaitsEmpty DEF CallWaits
<1>4. MadeOnce(g, r)
  BY <1>1, <1>2 DEF MadeOnce, Running
<1> QED
  BY <1>3, <1>4

\* The dispatcher is between addStream and the start of the worker, or behind its
\* entry in Sidecar.streams.
Placing(g, r) == dispatcher[g].pc \in {"index", "begin"} /\ dispatcher[g].frame.reply = r
Placed(g, r) == dispatcher[g].pc = "begin" /\ dispatcher[g].frame.reply = r

\* Who is in the maps is being made or runs, and who runs and is not cancelled
\* can be cancelled.
Entered(g, r) == LET pc == worker[<<g, r>>].pc IN
  /\ r \in streamCtxs[g] =>
       ~Torndown(g) /\ (Placing(g, r) \/ pc \in {"select", "send", "drain", "end", "remove"})
  /\ streams[r] = g =>
       Placed(g, r) \/ pc \in {"select", "send", "drain", "end", "remove", "delete"}
  /\ Placing(g, r) \/ pc \in {"select", "send", "drain", "end"} =>
       ctxDone[<<g, r>>] \/ r \in streamCtxs[g] \/ r \in teardown[g].cancels
  /\ ~Torndown(g) => teardown[g].cancels = {}
  /\ ctxDone[<<g, r>>] => Torndown(g) \/ pc = "gone"

EnteredInv == \A g \in Leases, r \in Replies : Entered(g, r)

\* What a step may do to a reply that is neither entered nor taken out.
LEMMA EnteredStays ==
  ASSUME NEW g \in Leases, NEW r \in Replies, Entered(g, r),
         r \in streamCtxs'[g] <=> r \in streamCtxs[g], streams'[r] = g => streams[r] = g,
         teardown'[g] = teardown[g], ctxDone'[<<g, r>>] = ctxDone[<<g, r>>],
         Placing(g, r)' <=> Placing(g, r), Placed(g, r)' <=> Placed(g, r),
         \/ worker'[<<g, r>>].pc = worker[<<g, r>>].pc
         \/ /\ worker[<<g, r>>].pc \in {"select", "send", "drain", "end"}
            /\ worker'[<<g, r>>].pc \in {"select", "send", "drain", "end", "remove"}
  PROVE  Entered(g, r)'
BY DEF Entered, Torndown

\* Nobody is entered for a reply without a worker that nobody makes.
LEMMA NotEntered ==
  ASSUME NEW g \in Leases, NEW r \in Replies, CallInv, EnteredInv,
         worker[<<g, r>>].pc \in {"none", "invoke", "respond", "cancel", "gone"}, ~Making(g, r)
  PROVE  r \notin streamCtxs[g] /\ streams[r] # g /\ ~Placing(g, r) /\ ~Placed(g, r)
BY DEF EnteredInv, Entered, Making, Placing, Placed

\* The dispatcher enters a worker, and starts it.
LEMMA DispatcherEnters ==
  ASSUME Typed, CallInv, EnteredInv, NEW g \in Leases, Dispatcher(g)
  PROVE  EnteredInv'
<1>0. DispatcherOK /\ WorkerOK /\ CtxOK /\ IndexOK /\ UNCHANGED teardown
  BY DispatcherMoves DEF Typed
<1> SUFFICES ASSUME NEW h \in Leases, NEW s \in Replies
             PROVE  Entered(h, s)'
  BY DEF EnteredInv
<1>i. Entered(h, s)
  BY DEF EnteredInv
<1>w. <<h, s>> \in Worker
  BY DEF Worker
<1>1. CASE h # g \/ s # dispatcher[g].frame.reply \/ dispatcher[g].pc \notin {"add", "index", "begin"}
  <2>1. (Placing(h, s)' <=> Placing(h, s)) /\ (Placed(h, s)' <=> Placed(h, s))
    <3>1. CASE h # g
      BY <3>1, DispatcherMoves DEF Placing, Placed
    <3>2. CASE h = g
      BY <1>0, <1>1, <3>2
         DEF Dispatcher, OnStreamFrame, FindWorker, NewStream, AddStream, IndexWorker, StartWorker,
             PutFrame, DispatcherOK, Placing, Placed
    <3> QED
      BY <3>1, <3>2
  <2>2. worker'[<<h, s>>] = worker[<<h, s>>] /\ ctxDone'[<<h, s>>] = ctxDone[<<h, s>>]
        /\ (s \in streamCtxs'[h] <=> s \in streamCtxs[h])
        /\ (streams'[s] = h => streams[s] = h)
    BY <1>0, <1>1, <1>w
       DEF Dispatcher, OnStreamFrame, FindWorker, NewStream, AddStream, IndexWorker, StartWorker,
           PutFrame, DispatcherOnly, indexVars, WorkerOK, CtxOK, IndexOK, Worker
  <2> QED
    BY <1>0, <1>i, <2>1, <2>2, EnteredStays
<1>2. CASE h = g /\ s = dispatcher[g].frame.reply /\ dispatcher[g].pc = "add"
  <2>1. AddStream(g)
    BY <1>2 DEF Dispatcher, OnStreamFrame, FindWorker, NewStream, AddStream, IndexWorker, StartWorker,
                PutFrame
  <2>2. worker[<<h, s>>].pc = "none" /\ Making(h, s)
    BY <1>2 DEF CallInv, MadeOnce, Making
  <2>3. Placing(h, s)' /\ ~Placed(h, s) /\ ~Placed(h, s)' /\ ~Placing(h, s)
    BY <1>0, <1>2, <2>1 DEF AddStream, DispatcherOK, Placing, Placed
  <2>4. UNCHANGED <<worker, streams, teardown>>
    BY <1>0, <2>1 DEF AddStream
  <2>5. CASE Torndown(g)
    <3>1. UNCHANGED streamCtxs /\ ctxDone'[<<h, s>>]
      BY <1>0, <1>2, <1>w, <2>1, <2>5 DEF AddStream, CtxOK
    <3> QED
      BY <1>2, <1>i, <2>2, <2>3, <2>4, <2>5, <3>1 DEF Entered, Torndown
  <2>6. CASE ~Torndown(g)
    <3>1. UNCHANGED ctxDone /\ s \in streamCtxs'[h]
      BY <1>0, <1>2, <2>1, <2>6 DEF AddStream, IndexOK
    <3> QED
      BY <1>2, <1>i, <2>2, <2>3, <2>4, <2>6, <3>1 DEF Entered, Torndown
  <2> QED
    BY <2>5, <2>6
<1>3. CASE h = g /\ s = dispatcher[g].frame.reply /\ dispatcher[g].pc = "index"
  <2>1. IndexWorker(g)
    BY <1>3 DEF Dispatcher, OnStreamFrame, FindWorker, NewStream, AddStream, IndexWorker, StartWorker,
                PutFrame
  <2>2. Placing(h, s)' /\ Placing(h, s) /\ Placed(h, s)'
    BY <1>0, <1>3, <2>1 DEF IndexWorker, DispatcherOK, Placing, Placed
  <2>3. UNCHANGED <<worker, streamCtxs, ctxDone, teardown>>
    BY <1>0, <2>1 DEF IndexWorker
  <2> QED
    BY <1>i, <2>2, <2>3 DEF Entered, Torndown
<1>4. CASE h = g /\ s = dispatcher[g].frame.reply /\ dispatcher[g].pc = "begin"
  <2>1. StartWorker(g)
    BY <1>4 DEF Dispatcher, OnStreamFrame, FindWorker, NewStream, AddStream, IndexWorker, StartWorker,
                PutFrame
  <2>2. Placing(h, s) /\ Placed(h, s) /\ ~Placing(h, s)' /\ ~Placed(h, s)'
    BY <1>0, <1>4, <2>1 DEF StartWorker, DispatcherOK, Placing, Placed
  <2>3. UNCHANGED <<streams, streamCtxs, ctxDone, teardown>> /\ worker'[<<h, s>>].pc = "select"
    BY <1>0, <1>4, <1>w, <2>1 DEF StartWorker, indexVars, WorkerOK
  <2>4. worker[<<h, s>>].pc = "none"
    BY <1>4 DEF CallInv, MadeOnce, Making
  <2> QED
    BY <1>i, <2>2, <2>3, <2>4 DEF Entered, Torndown
<1> QED
  BY <1>1, <1>2, <1>3, <1>4

\* A worker takes itself out of the maps.
LEMMA WorkerLeaves ==
  ASSUME Typed, CallInv, EnteredInv, NEW w \in Worker, RunWorker(w) \/ Pump(w) \/ App(w)
  PROVE  EnteredInv'
<1>0. WorkerOK /\ CtxOK /\ IndexOK /\ UNCHANGED <<dispatcher, teardown>>
  BY WorkerMoves DEF Typed
<1> SUFFICES ASSUME NEW h \in Leases, NEW s \in Replies
             PROVE  Entered(h, s)'
  BY DEF EnteredInv
<1>i. Entered(h, s)
  BY DEF EnteredInv
<1>w. <<h, s>> \in Worker /\ w[1] \in Leases /\ w[2] \in Replies /\ w = <<w[1], w[2]>>
  BY DEF Worker
<1>p. (Placing(h, s)' <=> Placing(h, s)) /\ (Placed(h, s)' <=> Placed(h, s))
  BY <1>0 DEF Placing, Placed
<1>1. CASE WorkerRemoves(w)
  <2>1. /\ UNCHANGED <<streams, ctxDone>>
        /\ \A v \in Worker : v # w => worker'[v] = worker[v]
        /\ worker[w].pc = "remove" /\ worker'[w].pc = "delete"
    BY <1>0, <1>1 DEF WorkerRemoves, WorkerOK
  <2>2. CASE w = <<h, s>>
    <3>1. s \notin streamCtxs'[h]
      BY <1>0, <1>1, <2>2 DEF WorkerRemoves, IndexOK
    <3>2. ~Placing(h, s)
      BY <2>1, <2>2 DEF CallInv, MadeOnce, Making, Placing
    <3> QED
      BY <1>0, <1>i, <1>p, <2>1, <2>2, <3>1, <3>2 DEF Entered, Torndown
  <2>3. CASE w # <<h, s>>
    <3>1. s \in streamCtxs'[h] <=> s \in streamCtxs[h]
      BY <1>0, <1>1, <1>w, <2>3 DEF WorkerRemoves, IndexOK
    <3> QED
      BY <1>0, <1>i, <1>p, <1>w, <2>1, <2>3, <3>1, EnteredStays
  <2> QED
    BY <2>2, <2>3
<1>2. CASE WorkerDeletes(w)
  <2>1. /\ UNCHANGED <<streamCtxs, ctxDone>>
        /\ \A v \in Worker : v # w => worker'[v] = worker[v]
        /\ worker[w].pc = "delete" /\ worker'[w].pc = "cancel"
    BY <1>0, <1>2 DEF WorkerDeletes, WorkerOK
  <2>2. CASE w = <<h, s>>
    <3>1. streams'[s] # h
      BY <1>0, <1>2, <2>2, IngressAssumption DEF WorkerDeletes, IndexOK
    <3>2. ~Placing(h, s)
      BY <2>1, <2>2 DEF CallInv, MadeOnce, Making, Placing
    <3> QED
      BY <1>0, <1>i, <1>p, <2>1, <2>2, <3>1, <3>2 DEF Entered, Torndown
  <2>3. CASE w # <<h, s>>
    <3>1. streams'[s] = h => streams[s] = h
      BY <1>0, <1>2, <1>w, IngressAssumption DEF WorkerDeletes, IndexOK
    <3> QED
      BY <1>0, <1>i, <1>p, <1>w, <2>1, <2>3, <3>1, EnteredStays
  <2> QED
    BY <2>2, <2>3
<1>3. CASE WorkerCancels(w) \/ RespondUnary(w)
  <2>1. /\ UNCHANGED <<streams, streamCtxs>>
        /\ \A v \in Worker : v # w => worker'[v] = worker[v] /\ ctxDone'[v] = ctxDone[v]
        /\ worker[w].pc \in {"cancel", "respond"} /\ worker'[w].pc = "gone"
    BY <1>0, <1>3 DEF WorkerCancels, RespondUnary, indexVars, WorkerOK, CtxOK
  <2>2. CASE w = <<h, s>>
    <3>1. ~Making(h, s)
      BY <2>1, <2>2 DEF CallInv, MadeOnce
    <3>2. s \notin streamCtxs[h] /\ streams[s] # h /\ ~Placing(h, s) /\ ~Placed(h, s)
      BY <2>1, <2>2, <3>1, NotEntered
    <3> QED
      BY <1>0, <1>i, <1>p, <2>1, <2>2, <3>2 DEF Entered, Torndown
  <2>3. CASE w # <<h, s>>
    BY <1>0, <1>i, <1>p, <1>w, <2>1, <2>3, EnteredStays
  <2> QED
    BY <2>2, <2>3
<1>4. CASE UnaryCancelled(w) \/ AppAnswersUnary(w)
  <2>1. /\ UNCHANGED <<streams, streamCtxs, ctxDone>>
        /\ \A v \in Worker : v # w => worker'[v] = worker[v]
        /\ worker[w].pc = "invoke" /\ worker'[w].pc = "respond"
    BY <1>0, <1>4 DEF UnaryCancelled, AppAnswersUnary, AppOnly, indexVars, WorkerOK
  <2>2. CASE w = <<h, s>>
    <3>1. ~Making(h, s)
      BY <2>1, <2>2 DEF CallInv, MadeOnce
    <3>2. s \notin streamCtxs[h] /\ streams[s] # h /\ ~Placing(h, s) /\ ~Placed(h, s)
      BY <2>1, <2>2, <3>1, NotEntered
    <3> QED
      BY <1>0, <1>i, <1>p, <2>1, <2>2, <3>2 DEF Entered, Torndown
  <2>3. CASE w # <<h, s>>
    BY <1>0, <1>i, <1>p, <1>w, <2>1, <2>3, EnteredStays
  <2> QED
    BY <2>2, <2>3
<1>5. CASE \/ WorkerTakes(w) \/ WorkerCancelled(w) \/ WorkerSendFails(w) \/ WorkerSeesEnd(w)
           \/ WorkerPublishesEnd(w) \/ Pump(w) \/ AppReceives(w) \/ AppSends(w) \/ AppEnds(w)
  <2>1. UNCHANGED <<streams, streamCtxs, ctxDone>>
    BY <1>5 DEF WorkerTakes, WorkerCancelled, WorkerSendFails, WorkerSeesEnd, WorkerPublishesEnd, Pump,
                PumpPublishes, PumpEnds, PumpOnly, AppReceives, AppSends, AppEnds, AppOnly, indexVars
  <2>2. /\ \A v \in Worker : v # w => worker'[v] = worker[v]
        /\ \/ worker'[w] = worker[w]
           \/ /\ worker[w].pc \in {"select", "send", "drain", "end"}
              /\ worker'[w].pc \in {"select", "send", "drain", "end", "remove"}
    <3>1. CASE WorkerTakes(w)
      <4> DEFINE f == Head(frames[w])
                 x == CASE f.type = "Data" -> [pc |-> "send", n |-> f.n, err |-> "nil"]
                        [] f.type = "End"  -> [worker[w] EXCEPT !.pc = "drain"]
                        [] OTHER           -> worker[w]
      <4>1. worker[w].pc = "select" /\ worker' = [worker EXCEPT ![w] = x]
        BY <3>1 DEF WorkerTakes
      <4>2. x = worker[w] \/ x.pc \in {"send", "drain"}
        BY <1>0 DEF WorkerOK
      <4> HIDE DEF x
      <4> QED
        BY <1>0, <4>1, <4>2 DEF WorkerOK
    <3>2. CASE ~WorkerTakes(w)
      BY <1>0, <1>5, <3>2
         DEF WorkerCancelled, WorkerSendFails, WorkerSeesEnd, WorkerPublishesEnd, Pump, PumpPublishes,
             PumpEnds, PumpOnly, AppReceives, AppSends, AppEnds, AppOnly, WorkerOK
    <3> QED
      BY <3>1, <3>2
  <2> QED
    BY <1>0, <1>i, <1>p, <1>w, <2>1, <2>2, EnteredStays
<1> QED
  BY <1>1, <1>2, <1>3, <1>4, <1>5 DEF RunWorker, App

\* A teardown takes a registration's streams out of it and cancels them.
LEMMA TeardownCancels ==
  ASSUME Typed, EnteredInv,
         \/ \E g \in Leases : \/ OpenIngress(g) \/ SubscribeFails(g) \/ LeaseEnds(g)
                              \/ Handler(g) \/ TeardownSteps(g)
         \/ CloseBegins \/ CloseSteps \/ CloseReturns
  PROVE  EnteredInv'
<1>0. TeardownOK /\ CtxOK /\ IndexOK /\ UNCHANGED <<worker, dispatcher, streams>>
  BY LeaseLeaves DEF Typed
<1> SUFFICES ASSUME NEW h \in Leases, NEW s \in Replies
             PROVE  Entered(h, s)'
  BY DEF EnteredInv
<1>i. Entered(h, s)
  BY DEF EnteredInv
<1>p. (Placing(h, s)' <=> Placing(h, s)) /\ (Placed(h, s)' <=> Placed(h, s))
  BY <1>0 DEF Placing, Placed
<1>1. ASSUME UNCHANGED <<teardown, streamCtxs, ctxDone>> PROVE Entered(h, s)'
  BY <1>0, <1>1, <1>i, <1>p, EnteredStays
<1>2. ASSUME NEW g \in Leases, Teardown(g), UNCHANGED ctxDone PROVE Entered(h, s)'
  <2>1. CASE Torndown(g)
    BY <1>1, <1>2, <2>1 DEF Teardown
  <2>2. CASE ~Torndown(g) /\ h # g
    <3>1. teardown'[h] = teardown[h] /\ streamCtxs'[h] = streamCtxs[h]
      BY <1>0, <1>2, <2>2 DEF Teardown, TeardownOK, IndexOK
    <3> QED
      BY <1>0, <1>2, <1>i, <1>p, <3>1, EnteredStays
  <2>3. CASE ~Torndown(g) /\ h = g
    <3>1. /\ teardown'[h].pc = "unsubscribe" /\ teardown'[h].cancels = streamCtxs[h]
          /\ streamCtxs'[h] = {}
      BY <1>0, <1>2, <2>3 DEF Teardown, TeardownOK, IndexOK
    <3> QED
      BY <1>0, <1>2, <1>i, <1>p, <2>3, <3>1 DEF Entered, Torndown
  <2> QED
    BY <2>1, <2>2, <2>3
<1>3. ASSUME NEW g \in Leases, TeardownSteps(g) PROVE Entered(h, s)'
  <2>1. UNCHANGED streamCtxs
    BY <1>3 DEF TeardownSteps, Unsubscribe, CancelStream, CloseConn
  <2>2. CASE CancelStream(g)
    <3>1. PICK r \in teardown[g].cancels :
            /\ teardown' = [teardown EXCEPT ![g].cancels = @ \ {r}]
            /\ ctxDone' = [ctxDone EXCEPT ![<<g, r>>] = TRUE]
      BY <2>2 DEF CancelStream
    <3>2. teardown[g].pc = "cancel" /\ r \in Replies /\ <<g, r>> \in Worker /\ <<h, s>> \in Worker
      BY <1>0, <2>2 DEF CancelStream, TeardownOK, Worker
    <3>3. CASE h = g /\ s = r
      <4>1. ctxDone'[<<h, s>>] /\ teardown'[h].pc = "cancel"
        BY <1>0, <3>1, <3>2, <3>3 DEF CtxOK, TeardownOK
      <4> QED
        BY <1>0, <1>i, <1>p, <2>1, <3>2, <3>3, <4>1 DEF Entered, Torndown
    <3>4. CASE ~(h = g /\ s = r)
      <4>1. /\ ctxDone'[<<h, s>>] = ctxDone[<<h, s>>] /\ teardown'[h].pc = teardown[h].pc
            /\ s \in teardown'[h].cancels <=> s \in teardown[h].cancels
            /\ teardown[h].cancels = {} => teardown'[h].cancels = {}
        BY <1>0, <3>1, <3>2, <3>4 DEF CtxOK, TeardownOK
      <4> QED
        BY <1>0, <1>i, <1>p, <2>1, <4>1 DEF Entered, Torndown
    <3> QED
      BY <3>3, <3>4
  <2>3. CASE Unsubscribe(g) \/ CloseConn(g)
    <3>1. UNCHANGED ctxDone /\ teardown'[h].cancels = teardown[h].cancels
          /\ (teardown'[h].pc # "none" <=> teardown[h].pc # "none")
      BY <1>0, <2>3 DEF Unsubscribe, CloseConn, TeardownOK
    <3> QED
      BY <1>0, <1>i, <1>p, <2>1, <3>1 DEF Entered, Torndown
  <2> QED
    BY <1>3, <2>2, <2>3 DEF TeardownSteps
<1>4. ASSUME NEW g \in Leases,
             OpenIngress(g) \/ SubscribeFails(g) \/ LeaseEnds(g) \/ Handler(g)
      PROVE  Entered(h, s)'
  <2>1. CASE HandlerTeardown(g)
    BY <1>2, <2>1 DEF HandlerTeardown
  <2>2. CASE ~HandlerTeardown(g)
    BY <1>1, <1>4, <2>2 DEF OpenIngress, SubscribeFails, LeaseEnds, CloseIngress, Handler,
                            OpenRegisters, HandlerStops
  <2> QED
    BY <2>1, <2>2
<1>5. CASE CloseBegins \/ CloseSteps \/ CloseReturns
  <2>1. CASE \E g \in Leases : CloseTearsDown(g)
    BY <1>2, <2>1 DEF CloseTearsDown, CloseOnly
  <2>2. CASE ~\E g \in Leases : CloseTearsDown(g)
    BY <1>1, <1>5, <2>2 DEF CloseBegins, CloseSteps, CloseSnapshot, CloseTornDown, CloseReturns,
                            CloseOnly, indexVars
  <2> QED
    BY <2>1, <2>2
<1> QED
  BY <1>3, <1>4, <1>5

\* A unary call's worker is in no map.
LEMMA CallerEnters ==
  ASSUME Typed, CallInv, EnteredInv, NEW r \in Replies, Caller(r)
  PROVE  EnteredInv'
<1>0. UNCHANGED <<dispatcher, teardown, streams, streamCtxs, ctxDone>>
  BY DEF Caller, CallerCalls, CallerSendsData, CallerEnds, CallerPings, CallerRequests, Send, leaseVars,
         indexVars
<1> SUFFICES ASSUME NEW h \in Leases, NEW s \in Replies
             PROVE  Entered(h, s)'
  BY DEF EnteredInv
<1>i. Entered(h, s)
  BY DEF EnteredInv
<1>p. (Placing(h, s)' <=> Placing(h, s)) /\ (Placed(h, s)' <=> Placed(h, s))
  BY <1>0 DEF Placing, Placed
<1>1. CASE worker'[<<h, s>>] = worker[<<h, s>>]
  BY <1>0, <1>1, <1>i, <1>p, EnteredStays
<1>2. CASE CallerRequests(r) /\ worker'[<<h, s>>] # worker[<<h, s>>]
  <2>1. s = r /\ worker'[<<h, s>>].pc \in {"invoke", "respond"}
    BY <1>2, RequestStarts
  <2>2. worker[<<h, s>>].pc = "none" /\ ~Making(h, s)
    BY <1>2, <2>1 DEF CallerRequests, CallInv, MadeOnce
  <2>3. s \notin streamCtxs[h] /\ streams[s] # h /\ ~Placing(h, s) /\ ~Placed(h, s)
    BY <2>2, NotEntered
  <2> QED
    BY <1>0, <1>i, <1>p, <2>1, <2>2, <2>3 DEF Entered, Torndown
<1>3. ~CallerRequests(r) => UNCHANGED worker
  BY DEF Caller, CallerCalls, CallerSendsData, CallerEnds, CallerPings, Send
<1> QED
  BY <1>1, <1>2, <1>3

\* The maps hold who is being made or runs, and who runs can be cancelled: inductive.
LEMMA NextEntered == Typed /\ CallInv /\ EnteredInv /\ [Next]_vars => EnteredInv'
<1> SUFFICES ASSUME Typed, CallInv, EnteredInv, [Next]_vars PROVE EnteredInv'
  OBVIOUS
<1>1. CASE UNCHANGED vars
  BY <1>1 DEF vars, leaseVars, indexVars, EnteredInv, Entered, Torndown, Placing, Placed
<1> QED
  BY <1>1, CallerEnters, DispatcherEnters, WorkerLeaves, TeardownCancels DEF Next

\* They are empty at first.
LEMMA InitEntered == Init => EnteredInv
<1> SUFFICES ASSUME Init, NEW g \in Leases, NEW r \in Replies PROVE Entered(g, r)
  BY DEF EnteredInv
<1>1. /\ worker[<<g, r>>].pc = "none" /\ ~ctxDone[<<g, r>>] /\ streamCtxs[g] = {} /\ streams[r] # g
      /\ teardown[g].cancels = {} /\ dispatcher[g].pc = "idle"
  BY IngressAssumption DEF Init, Worker
<1> QED
  BY <1>1 DEF Entered, Placing, Placed

-----------------------------------------------------------------------------
(* How a worker ends                                                        *)

HasEnd(p) == \E i \in 1..Len(p) : p[i].type = "End"

\* A worker that was not cancelled by a teardown leaves after its End.
EndSent(g, r) ==
  /\ worker[<<g, r>>].pc \in {"remove", "delete", "cancel", "gone"}
  /\ caller[r].kind = "stream" /\ NatsUp /\ ~Torndown(g)
  => HasEnd(responses[r])

EndSentInv == \A g \in Leases, r \in Replies : EndSent(g, r)

\* A publish adds to what its reply was sent, and to no other's.
LEMMA PublishAdds ==
  ASSUME ResponsesOK, NEW r \in Replies, NEW m \in Response, Publish(r, m), NEW s \in Replies
  PROVE  /\ s # r => responses'[s] = responses[s]
         /\ NatsUp => responses'[r] = Append(responses[r], m)
         /\ ~NatsUp => responses'[r] = responses[r]
<1>1. CASE NatsUp
  BY <1>1, PublishTyped DEF ResponsesOK
<1>2. CASE ~NatsUp
  BY <1>2, PublishTyped DEF ResponsesOK
<1> QED
  BY <1>1, <1>2

\* Who publishes, and what.
LEMMA Publishers ==
  ASSUME Typed, [Next]_vars
  PROVE  \/ UNCHANGED responses
         \/ \E g \in Leases :
              \/ /\ NewStream(g) /\ dispatcher'[g].pc = "idle"
                 /\ Publish(dispatcher[g].frame.reply, End("Status"))
              \/ StartWorker(g) /\ Publish(dispatcher[g].frame.reply, Begin)
         \/ \E w \in Worker :
              \/ WorkerPublishesEnd(w) /\ Publish(w[2], End(worker[w].err))
              \/ RespondUnary(w) /\ Publish(w[2], Unary(worker[w].err))
              \/ PumpPublishes(w) /\ Publish(w[2], Data(pump[w].n))
<1>1. CASE UNCHANGED vars
  BY <1>1 DEF vars, natsVars
<1>2. ASSUME NEW r \in Replies, Caller(r) PROVE UNCHANGED responses
  BY <1>2 DEF Caller, CallerCalls, CallerSendsData, CallerEnds, CallerPings, CallerRequests, Send
<1>3. ASSUME NEW g \in Leases, Dispatcher(g)
      PROVE  \/ UNCHANGED responses
             \/ /\ NewStream(g) /\ dispatcher'[g].pc = "idle"
                /\ Publish(dispatcher[g].frame.reply, End("Status"))
             \/ StartWorker(g) /\ Publish(dispatcher[g].frame.reply, Begin)
  <2>1. DispatcherOK
    BY DEF Typed
  <2>2. CASE NewStream(g)
    BY <2>1, <2>2 DEF NewStream, DispatcherOK
  <2>3. CASE ~NewStream(g)
    BY <1>3, <2>3 DEF Dispatcher, OnStreamFrame, FindWorker, AddStream, IndexWorker, StartWorker, PutFrame
  <2> QED
    BY <2>2, <2>3
<1>4. ASSUME NEW w \in Worker, RunWorker(w) \/ Pump(w) \/ App(w)
      PROVE  \/ UNCHANGED responses
             \/ WorkerPublishesEnd(w) /\ Publish(w[2], End(worker[w].err))
             \/ RespondUnary(w) /\ Publish(w[2], Unary(worker[w].err))
             \/ PumpPublishes(w) /\ Publish(w[2], Data(pump[w].n))
  BY <1>4 DEF RunWorker, WorkerTakes, WorkerCancelled, WorkerSendFails, WorkerSeesEnd,
              WorkerPublishesEnd, WorkerRemoves, WorkerDeletes, WorkerCancels, UnaryCancelled, RespondUnary,
              Pump, PumpPublishes, PumpEnds, PumpOnly, App, AppReceives, AppSends, AppEnds, AppAnswersUnary,
              AppOnly, natsVars
<1> QED
  BY <1>1, <1>2, <1>3, <1>4, LeaseLeaves DEF Next

\* What a reply was sent stays sent.
LEMMA ResponsesGrow ==
  ASSUME Typed, [Next]_vars, NEW r \in Replies
  PROVE  responses'[r] = responses[r] \/ \E m \in Response : responses'[r] = Append(responses[r], m)
<1>0. ResponsesOK /\ DispatcherOK /\ WorkerOK /\ PumpOK
  BY DEF Typed
<1>1. ASSUME NEW s \in Replies, NEW m \in Response, Publish(s, m)
      PROVE  responses'[r] = responses[r] \/ responses'[r] = Append(responses[r], m)
  BY <1>0, <1>1, PublishAdds
<1>2. CASE \E g \in Leases : \/ NewStream(g) /\ Publish(dispatcher[g].frame.reply, End("Status"))
                             \/ StartWorker(g) /\ Publish(dispatcher[g].frame.reply, Begin)
  <2>1. PICK g \in Leases : \/ NewStream(g) /\ Publish(dispatcher[g].frame.reply, End("Status"))
                            \/ StartWorker(g) /\ Publish(dispatcher[g].frame.reply, Begin)
    BY <1>2
  <2>2. dispatcher[g].frame.reply \in Replies
    BY <1>0, <2>1 DEF NewStream, StartWorker, DispatcherOK, Frame
  <2>3. End("Status") \in Response /\ Begin \in Response
    BY ResponseTypes DEF Outcome
  <2> QED
    BY <1>1, <2>1, <2>2, <2>3
<1>3. CASE \E w \in Worker :
              \/ WorkerPublishesEnd(w) /\ Publish(w[2], End(worker[w].err))
              \/ RespondUnary(w) /\ Publish(w[2], Unary(worker[w].err))
              \/ PumpPublishes(w) /\ Publish(w[2], Data(pump[w].n))
  <2>1. PICK w \in Worker :
              \/ WorkerPublishesEnd(w) /\ Publish(w[2], End(worker[w].err))
              \/ RespondUnary(w) /\ Publish(w[2], Unary(worker[w].err))
              \/ PumpPublishes(w) /\ Publish(w[2], Data(pump[w].n))
    BY <1>3
  <2>2. w[2] \in Replies /\ Data(pump[w].n) \in Response
    BY <1>0, ResponseTypes DEF Worker, PumpOK
  <2>3. worker[w].pc \in {"end", "respond"} => worker[w].err \in Outcome
    BY <1>0 DEF WorkerOK
  <2>4. worker[w].pc \in {"end", "respond"} =>
          End(worker[w].err) \in Response /\ Unary(worker[w].err) \in Response
    BY <2>3, ResponseTypes
  <2> QED
    BY <1>1, <2>1, <2>2, <2>4 DEF WorkerPublishesEnd, RespondUnary
<1> QED
  BY <1>2, <1>3, Publishers

\* What stays as it is: the kind of a call, a teardown that began, the closed connection.
LEMMA NeverBack ==
  ASSUME Typed, [Next]_vars
  PROVE  /\ \A r \in Replies : caller'[r].kind = caller[r].kind /\ (caller[r].called => caller'[r].called)
         /\ \A g \in Leases : Torndown(g) => Torndown(g)'
         /\ NatsUp' => NatsUp
<1>0. CallerOK /\ TeardownOK /\ ClosingOK
  BY DEF Typed
<1>1. CASE UNCHANGED vars
  BY <1>1 DEF vars, natsVars, leaseVars, Torndown, NatsUp
<1>2. ASSUME NEW r \in Replies, Caller(r)
      PROVE  /\ \A s \in Replies : caller'[s].kind = caller[s].kind /\ (caller[s].called => caller'[s].called)
             /\ UNCHANGED <<teardown, closing>>
  BY <1>0, <1>2 DEF Caller, CallerCalls, CallerSendsData, CallerEnds, CallerPings, CallerRequests, Send,
                    leaseVars, CallerOK
<1>3. ASSUME NEW g \in Leases, OpenIngress(g) \/ SubscribeFails(g) \/ LeaseEnds(g) \/ Handler(g)
                               \/ TeardownSteps(g)
      PROVE  UNCHANGED <<caller, closing>> /\ \A h \in Leases : Torndown(h) => Torndown(h)'
  BY <1>0, <1>3
     DEF OpenIngress, SubscribeFails, LeaseEnds, CloseIngress, Handler, OpenRegisters, HandlerStops,
         HandlerTeardown, TeardownSteps, Unsubscribe, CancelStream, CloseConn, LeaseOnly, Teardown,
         Torndown, TeardownOK
<1>4. CASE CloseBegins \/ CloseSteps \/ CloseReturns
  <2>1. UNCHANGED caller /\ \A h \in Leases : Torndown(h) => Torndown(h)'
    BY <1>0, <1>4
       DEF CloseBegins, CloseSteps, CloseSnapshot, CloseTearsDown, CloseTornDown, CloseReturns,
           CloseOnly, natsVars, Teardown, Torndown, TeardownOK
  <2>2. NatsUp
    BY <1>4 DEF CloseBegins, CloseSteps, CloseSnapshot, CloseTearsDown, CloseTornDown, CloseReturns, NatsUp
  <2> QED
    BY <2>1, <2>2
<1>5. ASSUME UNCHANGED <<teardown, closing>>
      PROVE  (\A g \in Leases : Torndown(g) => Torndown(g)') /\ (NatsUp' => NatsUp)
  BY <1>5 DEF Torndown, NatsUp
<1>6. ASSUME UNCHANGED caller
      PROVE  \A r \in Replies : caller'[r].kind = caller[r].kind /\ (caller[r].called => caller'[r].called)
  BY <1>6
<1>7. UNCHANGED closing => (NatsUp' => NatsUp)
  BY DEF NatsUp
<1>8. CASE \E g \in Leases : Dispatcher(g)
  <2>1. UNCHANGED <<caller, teardown, closing>>
    BY <1>8 DEF Dispatcher, OnStreamFrame, FindWorker, NewStream, AddStream, IndexWorker, StartWorker,
                PutFrame, DispatcherOnly, leaseVars
  <2> QED
    BY <1>5, <1>6, <2>1
<1>9. CASE \E w \in Worker : RunWorker(w) \/ Pump(w) \/ App(w)
  <2>1. UNCHANGED <<caller, teardown, closing>>
    BY <1>9, WorkerMoves
  <2> QED
    BY <1>5, <1>6, <2>1
<1> QED
  BY <1>1, <1>2, <1>3, <1>4, <1>5, <1>6, <1>7, <1>8, <1>9 DEF Next

\* How a worker comes to leave.
LEMMA ComesToLeave ==
  ASSUME Typed, [Next]_vars, NEW w \in Worker,
         worker'[w].pc \in {"remove", "delete", "cancel", "gone"},
         worker[w].pc \notin {"remove", "delete", "cancel", "gone"}
  PROVE  WorkerCancelled(w) \/ WorkerPublishesEnd(w) \/ RespondUnary(w)
<1>0. WorkerOK
  BY DEF Typed
<1>1. PICK g \in Leases, r \in Replies : w = <<g, r>>
  BY DEF Worker
<1>2. ~UNCHANGED worker
  OBVIOUS
<1>3. CASE \E s \in Replies : Caller(s)
  <2>1. PICK s \in Replies : CallerRequests(s)
    BY <1>2, <1>3 DEF Caller, CallerCalls, CallerSendsData, CallerEnds, CallerPings, Send
  <2> QED
    BY <1>1, <2>1, RequestStarts
<1>4. CASE \E h \in Leases : Dispatcher(h)
  <2>1. PICK h \in Leases : StartWorker(h)
    BY <1>2, <1>4 DEF Dispatcher, OnStreamFrame, FindWorker, NewStream, AddStream, IndexWorker, PutFrame
  <2> QED
    BY <1>0, <2>1 DEF StartWorker, WorkerOK
<1>5. CASE \E v \in Worker : RunWorker(v) \/ Pump(v) \/ App(v)
  <2>1. RunWorker(w) \/ Pump(w) \/ App(w)
    BY <1>5, WorkerMoves
  <2>2. worker' # worker
    BY <1>2
  <2>3. CASE WorkerTakes(w)
    <3> DEFINE f == Head(frames[w])
               x == CASE f.type = "Data" -> [pc |-> "send", n |-> f.n, err |-> "nil"]
                      [] f.type = "End"  -> [worker[w] EXCEPT !.pc = "drain"]
                      [] OTHER           -> worker[w]
    <3>1. worker' = [worker EXCEPT ![w] = x]
      BY <2>3 DEF WorkerTakes
    <3>2. x = worker[w] \/ x.pc \in {"send", "drain"}
      BY <1>0 DEF WorkerOK
    <3> HIDE DEF x
    <3> QED
      BY <1>0, <3>1, <3>2 DEF WorkerOK
  <2>4. CASE ~WorkerTakes(w)
    BY <1>0, <2>1, <2>2, <2>4
       DEF RunWorker, WorkerSendFails, WorkerSeesEnd, WorkerRemoves, WorkerDeletes, WorkerCancels,
           UnaryCancelled, Pump, PumpPublishes, PumpEnds, PumpOnly, App, AppReceives, AppSends, AppEnds,
           AppAnswersUnary, WorkerOK
  <2> QED
    BY <2>3, <2>4
<1>6. CASE UNCHANGED vars
  BY <1>2, <1>6 DEF vars
<1> QED
  BY <1>2, <1>3, <1>4, <1>5, <1>6, LeaseLeaves DEF Next

\* Nobody but a teardown makes a worker leave without an End: inductive.
LEMMA NextEndSent ==
  Typed /\ CallInv /\ EnteredInv /\ EndSentInv /\ [Next]_vars => EndSentInv'
<1> SUFFICES ASSUME Typed, CallInv, EnteredInv, EndSentInv, [Next]_vars,
                    NEW g \in Leases, NEW r \in Replies
             PROVE  EndSent(g, r)'
  BY DEF EndSentInv
<1> DEFINE w == <<g, r>>
<1>0. w \in Worker /\ WorkerOK /\ ResponsesOK /\ EndSent(g, r)
  BY DEF Typed, Worker, EndSentInv
<1> SUFFICES ASSUME worker'[w].pc \in {"remove", "delete", "cancel", "gone"},
                    caller'[r].kind = "stream", NatsUp', ~Torndown(g)'
             PROVE  HasEnd(responses'[r])
  BY DEF EndSent
<1>1. caller[r].kind = "stream" /\ NatsUp /\ ~Torndown(g)
  BY NeverBack
<1>2. CASE worker[w].pc \in {"remove", "delete", "cancel", "gone"}
  <2>1. HasEnd(responses[r])
    BY <1>0, <1>1, <1>2 DEF EndSent
  <2>2. CASE responses'[r] = responses[r]
    BY <2>1, <2>2
  <2>3. CASE \E m \in Response : responses'[r] = Append(responses[r], m)
    <3>1. PICK m \in Response : responses'[r] = Append(responses[r], m)
      BY <2>3
    <3>2. PICK q \in Seq(Response) : q = responses[r]
      BY <1>0 DEF ResponsesOK
    <3>3. \A i \in 1..Len(q) : i \in 1..Len(Append(q, m)) /\ Append(q, m)[i] = q[i]
      BY OneMore
    <3> QED
      BY <2>1, <3>1, <3>2, <3>3 DEF HasEnd
  <2> QED
    BY <2>2, <2>3, ResponsesGrow
<1>3. CASE WorkerCancelled(w)
  BY <1>1, <1>3 DEF WorkerCancelled, EnteredInv, Entered
<1>4. CASE RespondUnary(w)
  BY <1>1, <1>4 DEF RespondUnary, CallInv, MadeOnce
<1>5. CASE WorkerPublishesEnd(w)
  <2>1. worker[w].err \in Outcome /\ w[2] = r
    BY <1>0, <1>5 DEF WorkerPublishesEnd, WorkerOK
  <2>2. PICK m \in Response : m = End(worker[w].err)
    BY <2>1, ResponseTypes
  <2>3. Publish(r, m)
    BY <1>5, <2>1, <2>2 DEF WorkerPublishesEnd
  <2>4. responses'[r] = Append(responses[r], m)
    BY <1>0, <1>1, <2>3, PublishAdds
  <2>5. PICK q \in Seq(Response) : q = responses[r]
    BY <1>0 DEF ResponsesOK
  <2>6. Len(q) + 1 \in 1..Len(Append(q, m)) /\ Append(q, m)[Len(q) + 1] = m
    BY OneMore
  <2>7. m.type = "End"
    BY <2>2 DEF End
  <2> QED
    BY <2>4, <2>5, <2>6, <2>7 DEF HasEnd
<1> QED
  BY <1>0, <1>2, <1>3, <1>4, <1>5, ComesToLeave

\* With any number of leases, the caller of a stream whose worker is gone was sent an End
\* unless its registration was torn down, and neither map names the worker any more
\* (SidecarIngress's EndedOrTorndown).
THEOREM GoneMeansEnded == Spec => []EndedOrTorndown
<1>1. Init => EndSentInv
  <2> SUFFICES ASSUME Init, NEW g \in Leases, NEW r \in Replies PROVE EndSent(g, r)
    BY DEF EndSentInv
  <2>1. worker[<<g, r>>].pc = "none"
    BY DEF Init, Worker
  <2> QED
    BY <2>1 DEF EndSent
<1>2. CallInv /\ EnteredInv /\ EndSentInv => EndedOrTorndown
  <2> SUFFICES ASSUME CallInv, EnteredInv, EndSentInv, NEW g \in Leases, NEW r \in Replies,
                      worker[<<g, r>>].pc = "gone", caller[r].kind = "stream"
               PROVE  /\ NatsUp /\ ~Torndown(g) => HasEnd(responses[r])
                      /\ r \notin streamCtxs[g] /\ streams[r] # g
    BY DEF EndedOrTorndown, HasEnd
  <2>1. ~Making(g, r)
    BY DEF CallInv, MadeOnce
  <2>2. r \notin streamCtxs[g] /\ streams[r] # g
    BY <2>1, NotEntered
  <2> QED
    BY <2>2 DEF EndSentInv, EndSent
<1> QED
  BY <1>1, <1>2, InitTyped, NextTyped, InitCallInv, NextCallInv, InitEntered, NextEntered, NextEndSent,
     PTL DEF Spec

-----------------------------------------------------------------------------
(* One lease                                                                *)

OneLease == \A g, h \in Leases : g = h

\* With one lease nobody else overwrites or deletes the entry of a worker.
EntryKept(g, r) ==
  Placed(g, r) \/ worker[<<g, r>>].pc \in {"select", "send", "drain", "end", "remove", "delete"}
  => streams[r] = g

EntryKeptInv == \A g \in Leases, r \in Replies : EntryKept(g, r)

\* Inductive, with one lease.
LEMMA NextEntryKept ==
  ASSUME OneLease
  PROVE  Typed /\ CallInv /\ EntryKeptInv /\ [Next]_vars => EntryKeptInv'
<1> SUFFICES ASSUME Typed, CallInv, EntryKeptInv, [Next]_vars, NEW h \in Leases, NEW s \in Replies
             PROVE  EntryKept(h, s)'
  BY DEF EntryKeptInv
<1>0. DispatcherOK /\ WorkerOK /\ IndexOK /\ EntryKept(h, s) /\ <<h, s>> \in Worker
  BY DEF Typed, EntryKeptInv, Worker
<1>1. ASSUME UNCHANGED <<dispatcher, streams>>,
             \/ worker'[<<h, s>>].pc = worker[<<h, s>>].pc
             \/ worker'[<<h, s>>].pc \in {"invoke", "respond", "cancel", "gone"}
             \/ worker[<<h, s>>].pc \in {"select", "send", "drain", "end", "remove", "delete"}
      PROVE  EntryKept(h, s)'
  BY <1>0, <1>1 DEF EntryKept, Placed
<1>2. CASE UNCHANGED vars
  BY <1>1, <1>2 DEF vars, indexVars
<1>3. ASSUME NEW r \in Replies, Caller(r) PROVE EntryKept(h, s)'
  <2>1. UNCHANGED <<dispatcher, streams>>
    BY <1>3 DEF Caller, CallerCalls, CallerSendsData, CallerEnds, CallerPings, CallerRequests, Send, indexVars
  <2>2. CASE CallerRequests(r)
    <3>1. \/ worker'[<<h, s>>] = worker[<<h, s>>]
          \/ worker'[<<h, s>>].pc \in {"invoke", "respond"}
      BY <2>2, RequestStarts
    <3> QED
      BY <1>1, <2>1, <3>1
  <2>3. CASE ~CallerRequests(r)
    BY <1>1, <1>3, <2>1, <2>3 DEF Caller, CallerCalls, CallerSendsData, CallerEnds, CallerPings, Send
  <2> QED
    BY <2>2, <2>3
<1>4. ASSUME NEW g \in Leases, Dispatcher(g) PROVE EntryKept(h, s)'
  <2>1. h = g
    BY DEF OneLease
  <2>2. CASE IndexWorker(g)
    <3>1. UNCHANGED worker /\ dispatcher'[g].frame = dispatcher[g].frame
      BY <1>0, <2>2 DEF IndexWorker, DispatcherOK
    <3>2. CASE s = dispatcher[g].frame.reply
      BY <1>0, <2>1, <2>2, <3>2 DEF IndexWorker, IndexOK, EntryKept
    <3>3. CASE s # dispatcher[g].frame.reply
      <4>1. streams'[s] = streams[s] /\ ~Placed(h, s)'
        BY <1>0, <2>1, <2>2, <3>1, <3>3 DEF IndexWorker, IndexOK, Placed
      <4> QED
        BY <1>0, <3>1, <4>1 DEF EntryKept
    <3> QED
      BY <3>2, <3>3
  <2>3. CASE StartWorker(g)
    <3>1. UNCHANGED streams /\ ~Placed(h, s)'
      BY <1>0, <2>1, <2>3 DEF StartWorker, indexVars, DispatcherOK, Placed
    <3>2. CASE s = dispatcher[g].frame.reply
      BY <1>0, <2>1, <2>3, <3>1, <3>2 DEF StartWorker, EntryKept, Placed
    <3>3. CASE s # dispatcher[g].frame.reply
      <4>1. worker'[<<h, s>>] = worker[<<h, s>>]
        BY <1>0, <2>3, <3>3 DEF StartWorker, WorkerOK
      <4> QED
        BY <1>0, <3>1, <4>1 DEF EntryKept
    <3> QED
      BY <3>2, <3>3
  <2>4. CASE ~IndexWorker(g) /\ ~StartWorker(g)
    <3>1. UNCHANGED <<worker, streams>> /\ ~Placed(h, s)'
      BY <1>0, <1>4, <2>1, <2>4
         DEF Dispatcher, OnStreamFrame, FindWorker, NewStream, AddStream, PutFrame, indexVars,
             DispatcherOK, Placed
    <3> QED
      BY <1>0, <3>1 DEF EntryKept
  <2> QED
    BY <2>2, <2>3, <2>4
<1>5. ASSUME NEW w \in Worker, RunWorker(w) \/ Pump(w) \/ App(w) PROVE EntryKept(h, s)'
  <2>1. UNCHANGED dispatcher /\ \A v \in Worker : v # w => worker'[v] = worker[v]
    BY <1>5, WorkerMoves
  <2>2. w[1] = h /\ w = <<w[1], w[2]>> /\ w[2] \in Replies
    BY DEF OneLease, Worker
  <2>3. CASE WorkerDeletes(w)
    <3>1. worker[w].pc = "delete" /\ worker'[w].pc = "cancel"
      BY <1>0, <2>3 DEF WorkerDeletes, WorkerOK
    <3>2. CASE s = w[2]
      <4>1. ~Placed(h, s)
        BY <2>2, <3>1, <3>2 DEF CallInv, MadeOnce, Making, Placed
      <4> QED
        BY <2>1, <2>2, <3>1, <3>2, <4>1 DEF EntryKept, Placed
    <3>3. CASE s # w[2]
      <4>1. streams'[s] = streams[s] /\ worker'[<<h, s>>] = worker[<<h, s>>]
        BY <1>0, <2>1, <2>2, <2>3, <3>3 DEF WorkerDeletes, IndexOK
      <4> QED
        BY <1>0, <2>1, <4>1 DEF EntryKept, Placed
    <3> QED
      BY <3>2, <3>3
  <2>4. CASE ~WorkerDeletes(w)
    <3>1. UNCHANGED streams
      BY <1>5, <2>4 DEF RunWorker, WorkerTakes, WorkerCancelled, WorkerSendFails, WorkerSeesEnd,
              WorkerPublishesEnd, WorkerRemoves, WorkerCancels, UnaryCancelled, RespondUnary,
              Pump, PumpPublishes, PumpEnds, PumpOnly, App, AppReceives, AppSends, AppEnds, AppAnswersUnary,
              AppOnly, indexVars
    <3>2. CASE w = <<h, s>>
      <4>1. CASE WorkerCancels(w)
        <5>1. worker'[w].pc = "gone"
          BY <1>0, <3>2, <4>1 DEF WorkerCancels, WorkerOK
        <5> QED
          BY <1>1, <2>1, <3>1, <3>2, <5>1
      <4>2. CASE ~WorkerCancels(w)
        <5>1. \/ worker'[w] = worker[w]
              \/ worker[w].pc \in Running /\ worker'[w].pc \in Running \cup {"gone"}
              \/ worker[w].pc \in {"invoke", "respond"} /\ worker'[w].pc \in {"respond", "gone"}
          BY <1>5, WorkerMoves
        <5>2. CASE worker[w].pc = "cancel"
          <6>1. worker' = worker
            BY <1>5, <4>2, <5>2
               DEF RunWorker, WorkerTakes, WorkerCancelled, WorkerSendFails, WorkerSeesEnd,
                   WorkerPublishesEnd, WorkerRemoves, WorkerDeletes, UnaryCancelled, RespondUnary, Pump,
                   PumpPublishes, PumpEnds, PumpOnly, App, AppReceives, AppSends, AppEnds, AppAnswersUnary
          <6> QED
            BY <1>1, <2>1, <3>1, <6>1
        <5>3. CASE worker[w].pc # "cancel"
          BY <1>1, <2>1, <3>1, <3>2, <5>1, <5>3 DEF Running
        <5> QED
          BY <5>2, <5>3
      <4> QED
        BY <4>1, <4>2
    <3>3. CASE w # <<h, s>>
      BY <1>0, <1>1, <2>1, <3>1, <3>3
    <3> QED
      BY <3>2, <3>3
  <2> QED
    BY <2>3, <2>4
<1>6. CASE \/ \E g \in Leases : \/ OpenIngress(g) \/ SubscribeFails(g) \/ LeaseEnds(g)
                                \/ Handler(g) \/ TeardownSteps(g)
           \/ CloseBegins \/ CloseSteps \/ CloseReturns
  BY <1>1, <1>6, LeaseLeaves
<1> QED
  BY <1>2, <1>3, <1>4, <1>5, <1>6 DEF Next

\* There is a teardown that will find the worker, or one is under way to it.
Reachable(g, r) == (r \in streamCtxs[g] /\ ~Torndown(g)) \/ r \in teardown[g].cancels

\* With any number of leases, a worker that runs and is not cancelled will be cancelled by
\* the teardown that comes or is under way, although it is made outside the registration's
\* mutex (the second part of SidecarIngress's TeardownReaches).
THEOREM AlwaysCancellable ==
  Spec => [](\A g \in Leases, r \in Replies :
               worker[<<g, r>>].pc \in {"select", "send", "drain", "end"} /\ ~ctxDone[<<g, r>>] =>
                 Reachable(g, r))
<1>1. EnteredInv => \A g \in Leases, r \in Replies :
               worker[<<g, r>>].pc \in {"select", "send", "drain", "end"} /\ ~ctxDone[<<g, r>>] =>
                 Reachable(g, r)
  BY DEF EnteredInv, Entered, Reachable
<1> QED
  BY <1>1, InitTyped, NextTyped, InitCallInv, NextCallInv, InitEntered, NextEntered, PTL DEF Spec

\* With one lease of the service, a worker that runs and is not cancelled is reached by its
\* frames too: Sidecar.streams still has it (SidecarIngress's TeardownReaches; a second lease
\* of the service would take the entry away).
THEOREM WorkerIsReached == OneLease => (Spec => []TeardownReaches)
<1> SUFFICES ASSUME OneLease PROVE Spec => []TeardownReaches
  OBVIOUS
<1>1. Init => EntryKeptInv
  <2> SUFFICES ASSUME Init, NEW g \in Leases, NEW r \in Replies PROVE EntryKept(g, r)
    BY DEF EntryKeptInv
  <2>1. worker[<<g, r>>].pc = "none" /\ dispatcher[g].pc = "idle"
    BY DEF Init, Worker
  <2> QED
    BY <2>1 DEF EntryKept, Placed
<1>2. Typed /\ CallInv /\ EntryKeptInv /\ [Next]_vars => EntryKeptInv'
  BY NextEntryKept
<1>3. EnteredInv /\ EntryKeptInv => TeardownReaches
  BY DEF EnteredInv, Entered, EntryKeptInv, EntryKept, TeardownReaches
<1> QED
  BY <1>1, <1>2, <1>3, InitTyped, NextTyped, InitCallInv, NextCallInv, InitEntered, NextEntered, PTL
     DEF Spec

-----------------------------------------------------------------------------
(* What a caller is sent                                                    *)

\* The goroutines of a worker agree on how far the app is.
UpstreamKnown(w) ==
  /\ pump[w].pc = "none" => upstream[w].sent = 0 /\ upstream[w].ended = "no" /\ upDone[w] = "nil"
  /\ pump[w].pc # "none" => caller[w[2]].kind = "stream"
  /\ pump[w].pc = "publish" => pump[w].n = upstream[w].sent /\ upstream[w].sent > 0
  /\ worker[w].pc \in {"none", "invoke", "respond"} => pump[w].pc = "none"
  /\ worker[w].pc \in {"select", "send", "drain"} => pump[w].pc # "none"
  /\ upDone[w] # "nil" => pump[w].pc = "done" /\ upDone[w] \in {upstream[w].ended, "Canceled"}
  /\ worker[w].pc = "end" => pump[w].pc = "done" /\ worker[w].err \in {upstream[w].ended, "Canceled"}

UpstreamInv == \A w \in Worker : UpstreamKnown(w)

\* Nobody else touches a worker's pump and its stream to the app.
LEMMA UpstreamAside ==
  ASSUME Typed, CallInv, NEW w \in Worker, [Next]_vars, ~StartWorker(w[1]), ~Pump(w), ~App(w), ~RunWorker(w)
  PROVE  /\ pump'[w] = pump[w] /\ upDone'[w] = upDone[w] /\ upstream'[w] = upstream[w]
         /\ \/ worker'[w] = worker[w]
            \/ \E r \in Replies : /\ CallerRequests(r) /\ w[2] = r
                                  /\ worker'[w].pc \in {"invoke", "respond"}
<1>0. WorkerOK /\ PumpOK /\ UpstreamOK /\ DispatcherOK /\ w = <<w[1], w[2]>> /\ w[1] \in Leases /\ w[2] \in Replies
  BY DEF Typed, Worker
<1>1. CASE UNCHANGED vars
  BY <1>1 DEF vars, pumpVars
<1>2. ASSUME NEW r \in Replies, Caller(r)
      PROVE  /\ UNCHANGED <<pump, upDone, upstream>>
             /\ \/ worker'[w] = worker[w]
                \/ CallerRequests(r) /\ w[2] = r /\ worker'[w].pc \in {"invoke", "respond"}
  <2>1. UNCHANGED <<pump, upDone, upstream>>
    BY <1>2 DEF Caller, CallerCalls, CallerSendsData, CallerEnds, CallerPings, CallerRequests, Send, pumpVars
  <2>2. CASE CallerRequests(r)
    <3>1. \/ worker'[<<w[1], w[2]>>] = worker[<<w[1], w[2]>>]
          \/ w[2] = r /\ worker'[<<w[1], w[2]>>].pc \in {"invoke", "respond"}
      BY <1>0, <2>2, RequestStarts
    <3> QED
      BY <1>0, <2>1, <2>2, <3>1
  <2>3. CASE ~CallerRequests(r)
    BY <1>2, <2>1, <2>3 DEF Caller, CallerCalls, CallerSendsData, CallerEnds, CallerPings, Send
  <2> QED
    BY <2>2, <2>3
<1>3. ASSUME NEW h \in Leases, Dispatcher(h)
      PROVE  pump'[w] = pump[w] /\ upDone'[w] = upDone[w] /\ upstream'[w] = upstream[w]
             /\ worker'[w] = worker[w]
  <2>1. UNCHANGED <<upDone, upstream>>
    BY <1>3, DispatcherMoves
  <2>2. CASE StartWorker(h)
    <3>1. h # w[1]
      BY <2>2
    <3>2. <<h, dispatcher[h].frame.reply>> # w
      BY <1>0, <3>1
    <3> QED
      BY <1>0, <2>1, <2>2, <3>2 DEF StartWorker, WorkerOK, PumpOK
  <2>3. CASE ~StartWorker(h)
    BY <1>3, <2>1, <2>3, DispatcherMoves
  <2> QED
    BY <2>2, <2>3
<1>4. ASSUME NEW v \in Worker, RunWorker(v) \/ Pump(v) \/ App(v)
      PROVE  pump'[w] = pump[w] /\ upDone'[w] = upDone[w] /\ upstream'[w] = upstream[w]
             /\ worker'[w] = worker[w]
  <2>1. v # w
    BY <1>4
  <2>2. worker'[w] = worker[w]
    BY <1>4, <2>1, WorkerMoves
  <2>3. CASE RunWorker(v)
    BY <1>0, <2>1, <2>2, <2>3
       DEF RunWorker, WorkerTakes, WorkerCancelled, WorkerSendFails, WorkerSeesEnd, WorkerPublishesEnd,
           WorkerRemoves, WorkerDeletes, WorkerCancels, UnaryCancelled, RespondUnary, pumpVars, PumpOK,
           UpstreamOK
  <2>4. CASE Pump(v)
    BY <1>0, <2>1, <2>2, <2>4 DEF Pump, PumpPublishes, PumpEnds, PumpOnly, PumpOK
  <2>5. CASE App(v)
    BY <1>0, <2>1, <2>2, <2>5
       DEF App, AppReceives, AppSends, AppEnds, AppAnswersUnary, AppOnly, PumpOK, UpstreamOK
  <2> QED
    BY <1>4, <2>2, <2>3, <2>4, <2>5
<1> QED
  BY <1>1, <1>2, <1>3, <1>4, LeaseLeaves DEF Next

\* Inductive, with any number of leases.
LEMMA NextUpstream == Typed /\ CallInv /\ UpstreamInv /\ [Next]_vars => UpstreamInv'
<1> SUFFICES ASSUME Typed, CallInv, UpstreamInv, [Next]_vars, NEW w \in Worker
             PROVE  UpstreamKnown(w)'
  BY DEF UpstreamInv
<1>0. /\ WorkerOK /\ PumpOK /\ UpstreamOK /\ UpstreamKnown(w)
      /\ w = <<w[1], w[2]>> /\ w[1] \in Leases /\ w[2] \in Replies
  BY DEF Typed, Worker, UpstreamInv
<1>k. caller'[w[2]].kind = caller[w[2]].kind
  BY <1>0, NeverBack
<1>1. CASE StartWorker(w[1])
  <2> DEFINE r == dispatcher[w[1]].frame.reply
  <2>1. CASE w[2] = r
    <3>1. Making(w[1], w[2])
      BY <1>1, <2>1 DEF StartWorker, Making
    <3>2. worker[w].pc = "none" /\ caller[w[2]].kind = "stream"
      BY <1>0, <3>1 DEF CallInv, MadeOnce
    <3>3. worker'[w].pc = "select" /\ pump'[w].pc = "recv" /\ UNCHANGED <<upDone, upstream>>
      BY <1>0, <1>1, <2>1 DEF StartWorker, WorkerOK, PumpOK
    <3> QED
      BY <1>0, <1>k, <3>2, <3>3 DEF UpstreamKnown
  <2>2. CASE w[2] # r
    <3>1. worker'[w] = worker[w] /\ pump'[w] = pump[w] /\ UNCHANGED <<upDone, upstream>>
      BY <1>0, <1>1, <2>2 DEF StartWorker, WorkerOK, PumpOK
    <3> QED
      BY <1>0, <1>k, <3>1 DEF UpstreamKnown
  <2> QED
    BY <2>1, <2>2
<1>2. CASE RunWorker(w)
  <2>1. CASE WorkerTakes(w)
    <3> DEFINE f == Head(frames[w])
               x == CASE f.type = "Data" -> [pc |-> "send", n |-> f.n, err |-> "nil"]
                      [] f.type = "End"  -> [worker[w] EXCEPT !.pc = "drain"]
                      [] OTHER           -> worker[w]
    <3>1. worker' = [worker EXCEPT ![w] = x] /\ worker[w].pc = "select"
      BY <2>1 DEF WorkerTakes
    <3>2. x = worker[w] \/ x.pc \in {"send", "drain"}
      BY <1>0 DEF WorkerOK
    <3> HIDE DEF x
    <3>3. worker'[w].pc \in {"select", "send", "drain"}
      BY <1>0, <3>1, <3>2 DEF WorkerOK
    <3>4. /\ UNCHANGED <<pump, upDone>>
          /\ upstream'[w].sent = upstream[w].sent /\ upstream'[w].ended = upstream[w].ended
      BY <1>0, <2>1 DEF WorkerTakes, pumpVars, UpstreamOK
    <3> QED
      BY <1>0, <1>k, <3>1, <3>3, <3>4 DEF UpstreamKnown
  <2>2. CASE WorkerSeesEnd(w)
    <3>1. /\ UNCHANGED <<pump, upstream>> /\ worker[w].pc \in {"select", "drain"} /\ upDone[w] # "nil"
          /\ worker'[w].pc = "end" /\ worker'[w].err = upDone[w] /\ upDone'[w] = "nil"
      BY <1>0, <2>2 DEF WorkerSeesEnd, WorkerOK, PumpOK
    <3> QED
      BY <1>0, <1>k, <3>1 DEF UpstreamKnown
  <2>3. CASE ~WorkerTakes(w) /\ ~WorkerSeesEnd(w)
    <3>1. UNCHANGED <<pump, upDone, upstream>>
      BY <1>2, <2>3 DEF RunWorker, WorkerCancelled, WorkerSendFails, WorkerPublishesEnd,
           WorkerRemoves, WorkerDeletes, WorkerCancels, UnaryCancelled, RespondUnary, pumpVars
    <3>2. \/ worker[w].pc = "send" /\ worker'[w].pc = "select"
          \/ worker[w].pc = "invoke" /\ worker'[w].pc = "respond"
          \/ worker'[w].pc \in {"remove", "delete", "cancel", "gone"}
      BY <1>0, <1>2, <2>3 DEF RunWorker, WorkerCancelled, WorkerSendFails, WorkerPublishesEnd,
           WorkerRemoves, WorkerDeletes, WorkerCancels, UnaryCancelled, RespondUnary, WorkerOK
    <3> QED
      BY <1>0, <1>k, <3>1, <3>2 DEF UpstreamKnown
  <2> QED
    BY <2>1, <2>2, <2>3
<1>3. CASE PumpPublishes(w)
  <2>1. /\ UNCHANGED <<worker, upDone, upstream>> /\ pump[w].pc = "publish" /\ pump'[w].pc = "recv"
    BY <1>0, <1>3 DEF PumpPublishes, PumpOnly, PumpOK
  <2> QED
    BY <1>0, <1>k, <2>1 DEF UpstreamKnown
<1>4. CASE PumpEnds(w)
  <2>1. /\ UNCHANGED <<worker, upstream>> /\ pump[w].pc = "recv" /\ pump'[w].pc = "done"
        /\ upDone'[w] \in {upstream[w].ended, "Canceled"}
    BY <1>0, <1>4 DEF PumpEnds, PumpOnly, PumpOK
  <2> QED
    BY <1>0, <1>k, <2>1 DEF UpstreamKnown
<1>5. CASE AppReceives(w)
  <2>1. /\ UNCHANGED <<pump, upDone>> /\ worker[w].pc = "send" /\ worker'[w].pc = "select"
        /\ upstream'[w].sent = upstream[w].sent /\ upstream'[w].ended = upstream[w].ended
    BY <1>0, <1>5 DEF AppReceives, AppOnly, WorkerOK, UpstreamOK
  <2> QED
    BY <1>0, <1>k, <2>1 DEF UpstreamKnown
<1>6. CASE AppSends(w)
  <2>1. /\ UNCHANGED <<worker, upDone>> /\ pump[w].pc = "recv" /\ pump'[w].pc = "publish"
        /\ pump'[w].n = upstream[w].sent + 1 /\ upstream'[w].sent = upstream[w].sent + 1
        /\ upstream'[w].ended = upstream[w].ended /\ upstream[w].sent + 1 > 0
    BY <1>0, <1>6, Bounds DEF AppSends, AppOnly, PumpOK, UpstreamOK
  <2> QED
    BY <1>0, <1>k, <2>1 DEF UpstreamKnown
<1>7. CASE AppEnds(w)
  <2>1. /\ UNCHANGED <<worker, pump, upDone>> /\ pump[w].pc \in {"recv", "publish"}
        /\ upstream'[w].sent = upstream[w].sent
    BY <1>0, <1>7 DEF AppEnds, AppOnly, UpstreamOK
  <2> QED
    BY <1>0, <1>k, <2>1 DEF UpstreamKnown
<1>8. CASE AppAnswersUnary(w)
  <2>1. /\ UNCHANGED <<pump, upDone, upstream>> /\ worker[w].pc = "invoke" /\ worker'[w].pc = "respond"
    BY <1>0, <1>8 DEF AppAnswersUnary, AppOnly, WorkerOK
  <2> QED
    BY <1>0, <1>k, <2>1 DEF UpstreamKnown
<1>9. CASE ~StartWorker(w[1]) /\ ~Pump(w) /\ ~App(w) /\ ~RunWorker(w)
  <2>1. pump'[w] = pump[w] /\ upDone'[w] = upDone[w] /\ upstream'[w] = upstream[w]
    BY <1>9, UpstreamAside
  <2>2. CASE worker'[w] = worker[w]
    BY <1>0, <1>k, <2>1, <2>2 DEF UpstreamKnown
  <2>3. CASE \E r \in Replies : CallerRequests(r) /\ w[2] = r /\ worker'[w].pc \in {"invoke", "respond"}
    <3>1. ~caller[w[2]].called
      BY <2>3 DEF CallerRequests
    <3>2. worker[w].pc = "none"
      BY <1>0, <3>1 DEF CallInv, MadeOnce
    <3> QED
      BY <1>0, <1>k, <2>1, <2>3, <3>2 DEF UpstreamKnown
  <2> QED
    BY <1>9, <2>2, <2>3, UpstreamAside
<1> QED
  BY <1>1, <1>2, <1>3, <1>4, <1>5, <1>6, <1>7, <1>8, <1>9 DEF Pump, App

\* It holds at first.
LEMMA InitUpstream == Init => UpstreamInv
<1> SUFFICES ASSUME Init, NEW w \in Worker PROVE UpstreamKnown(w)
  BY DEF UpstreamInv
<1> QED
  BY DEF Init, UpstreamKnown

\* Begin and the app's messages.
OpenLine(p) == p # <<>> => p[1] = Begin /\ \A i \in 2..Len(p) : p[i] = Data(i - 1)

\* Then the End, which tells how the app ended and after how much.
ClosedLine(p, ended, sent) ==
  /\ Len(p) > 1 /\ p[1] = Begin /\ \A i \in 2..(Len(p) - 1) : p[i] = Data(i - 1)
  /\ p[Len(p)].type = "End"
  /\ p[Len(p)].err # "Canceled" => ended = p[Len(p)].err /\ sent = Len(p) - 2

\* A message of the app comes next.
LEMMA OpenData ==
  ASSUME NEW p \in Seq(Response), OpenLine(p), NEW n \in 0..MaxUp, n > 0, Len(p) = n
  PROVE  OpenLine(Append(p, Data(n))) /\ Len(Append(p, Data(n))) = n + 1
<1>1. n \in Nat /\ Data(n) \in Response
  BY Bounds, ResponseTypes
<1>2. PICK q \in Seq(Response) : q = Append(p, Data(n))
  BY <1>1, OneMore
<1>3. /\ Len(q) = n + 1 /\ q[n + 1] = Data(n) /\ \A i \in 1..n : q[i] = p[i]
  BY <1>1, <1>2, OneMore
<1>4. p # <<>> /\ 1 \in 1..n
  BY <1>1
<1>5. p[1] = Begin /\ \A i \in 2..n : p[i] = Data(i - 1)
  BY <1>4 DEF OpenLine
<1>6. \A i \in 2..Len(q) : q[i] = Data(i - 1)
  <2> SUFFICES ASSUME NEW i \in 2..(n + 1) PROVE q[i] = Data(i - 1)
    BY <1>3
  <2>1. CASE i = n + 1
    <3>1. i - 1 = n
      BY <1>1, <2>1
    <3> QED
      BY <1>3, <2>1, <3>1
  <2>2. CASE i # n + 1
    <3>1. i \in 2..n /\ i \in 1..n
      BY <1>1, <2>2
    <3> QED
      BY <1>3, <1>5, <3>1
  <2> QED
    BY <2>1, <2>2
<1>7. q[1] = Begin
  BY <1>3, <1>4, <1>5
<1> QED
  BY <1>2, <1>3, <1>6, <1>7 DEF OpenLine

\* The End comes next.
LEMMA OpenEnd ==
  ASSUME NEW p \in Seq(Response), OpenLine(p), NEW n \in 0..MaxUp, Len(p) = n + 1,
         NEW e \in Outcome, NEW ended, e \in {ended, "Canceled"}
  PROVE  ClosedLine(Append(p, End(e)), ended, n)
<1>1. n \in Nat /\ End(e) \in Response
  BY Bounds, ResponseTypes
<1>2. PICK q \in Seq(Response) : q = Append(p, End(e))
  BY <1>1, OneMore
<1>3. /\ Len(q) = n + 2 /\ q[n + 2] = End(e) /\ \A i \in 1..(n + 1) : q[i] = p[i]
  BY <1>1, <1>2, OneMore
<1>4. p # <<>> /\ 1 \in 1..(n + 1)
  BY <1>1
<1>5. p[1] = Begin /\ \A i \in 2..(n + 1) : p[i] = Data(i - 1)
  BY <1>4 DEF OpenLine
<1>6. q[1] = Begin
  BY <1>3, <1>4, <1>5
<1>7. \A i \in 2..(n + 1) : i \in 1..(n + 1) /\ q[i] = Data(i - 1)
  BY <1>1, <1>3, <1>5
<1>8. Len(q) > 1 /\ Len(q) - 1 = n + 1 /\ Len(q) - 2 = n
  BY <1>1, <1>3
<1>9. q[Len(q)].type = "End" /\ q[Len(q)].err = e
  BY <1>3 DEF End
<1> QED
  BY <1>2, <1>6, <1>7, <1>8, <1>9 DEF ClosedLine

\* What the app has sent and the pump does not hold any more.
PumpedOut(w) == IF pump[w].pc = "publish" THEN upstream[w].sent - 1 ELSE upstream[w].sent

\* What the caller was sent, by his call and the state of his worker.
SentUnary(g, r) ==
  caller[r].kind = "unary" =>
    \/ responses[r] = <<>>
    \/ /\ worker[<<g, r>>].pc \notin {"invoke", "respond"} /\ caller[r].called
       /\ Len(responses[r]) = 1 /\ responses[r][1].type = "Unary"

SentByNone(g, r) ==
  caller[r].kind = "stream" /\ worker[<<g, r>>].pc = "none" =>
    \/ responses[r] = <<>>
    \/ /\ responses[r] = <<End("Status")>> /\ caller[r].called
       /\ ~Making(g, r) /\ ~Waits(pending[g], r)

SentByWorker(g, r) ==
  caller[r].kind = "stream" /\ worker[<<g, r>>].pc # "none" =>
    \/ OpenLine(responses[r]) /\ (NatsUp => Len(responses[r]) = PumpedOut(<<g, r>>) + 1)
    \/ /\ pump[<<g, r>>].pc = "done" /\ worker[<<g, r>>].pc \in {"remove", "delete", "cancel", "gone"}
       /\ ClosedLine(responses[r], upstream[<<g, r>>].ended, upstream[<<g, r>>].sent)

SentSoFar(g, r) == SentUnary(g, r) /\ SentByNone(g, r) /\ SentByWorker(g, r)
SentInv == \A g \in Leases, r \in Replies : SentSoFar(g, r)

\* What a step may do that sends the caller nothing.
LEMMA SentStays ==
  ASSUME NEW g \in Leases, NEW r \in Replies, SentSoFar(g, r), NEW w, w = <<g, r>>,
         responses'[r] = responses[r], NatsUp' => NatsUp,
         caller'[r].kind = caller[r].kind, caller[r].called => caller'[r].called,
         Making(g, r)' \/ Waits(pending'[g], r) => Making(g, r) \/ Waits(pending[g], r) \/ ~caller[r].called,
         worker'[w].pc = "none" <=> worker[w].pc = "none",
         worker'[w].pc \in {"invoke", "respond"} => worker[w].pc \in {"invoke", "respond"},
         worker[w].pc \in {"remove", "delete", "cancel", "gone"} =>
           worker'[w].pc \in {"remove", "delete", "cancel", "gone"},
         PumpedOut(w)' = PumpedOut(w),
         pump[w].pc = "done" => /\ pump'[w].pc = "done" /\ upstream'[w].ended = upstream[w].ended
                                /\ upstream'[w].sent = upstream[w].sent
  PROVE  SentSoFar(g, r)'
<1>1. SentUnary(g, r)'
  BY DEF SentSoFar, SentUnary
<1>2. SentByNone(g, r)'
  BY DEF SentSoFar, SentByNone
<1>3. SentByWorker(g, r)'
  BY DEF SentSoFar, SentByWorker
<1> QED
  BY <1>1, <1>2, <1>3 DEF SentSoFar

\* How the worker, the pump and the app go on without a publish.
LEMMA QuietWorker ==
  ASSUME Typed, CallInv, NEW w \in Worker, RunWorker(w) \/ Pump(w) \/ App(w),
         ~WorkerPublishesEnd(w), ~RespondUnary(w), ~PumpPublishes(w)
  PROVE  /\ worker'[w].pc = "none" <=> worker[w].pc = "none"
         /\ worker'[w].pc \in {"invoke", "respond"} => worker[w].pc \in {"invoke", "respond"}
         /\ worker[w].pc \in {"remove", "delete", "cancel", "gone"} =>
              worker'[w].pc \in {"remove", "delete", "cancel", "gone"}
         /\ PumpedOut(w)' = PumpedOut(w)
         /\ pump[w].pc = "done" => /\ pump'[w].pc = "done" /\ upstream'[w].ended = upstream[w].ended
                                   /\ upstream'[w].sent = upstream[w].sent
<1>0. WorkerOK /\ PumpOK /\ UpstreamOK
  BY DEF Typed
<1>1. CASE WorkerTakes(w)
  <2> DEFINE f == Head(frames[w])
             x == CASE f.type = "Data" -> [pc |-> "send", n |-> f.n, err |-> "nil"]
                    [] f.type = "End"  -> [worker[w] EXCEPT !.pc = "drain"]
                    [] OTHER           -> worker[w]
  <2>1. worker' = [worker EXCEPT ![w] = x] /\ worker[w].pc = "select"
    BY <1>1 DEF WorkerTakes
  <2>2. x = worker[w] \/ x.pc \in {"send", "drain"}
    BY <1>0 DEF WorkerOK
  <2> HIDE DEF x
  <2>3. worker'[w].pc \in {"select", "send", "drain"}
    BY <1>0, <2>1, <2>2 DEF WorkerOK
  <2>4. /\ UNCHANGED pump
        /\ upstream'[w].sent = upstream[w].sent /\ upstream'[w].ended = upstream[w].ended
    BY <1>0, <1>1 DEF WorkerTakes, pumpVars, UpstreamOK
  <2> QED
    BY <2>1, <2>3, <2>4 DEF PumpedOut
<1>2. CASE RunWorker(w) /\ ~WorkerTakes(w)
  <2>1. UNCHANGED <<pump, upstream>>
    BY <1>2 DEF RunWorker, WorkerCancelled, WorkerSendFails, WorkerSeesEnd,
         WorkerRemoves, WorkerDeletes, WorkerCancels, UnaryCancelled, pumpVars
  <2>2. \/ worker[w].pc \in {"select", "send", "drain"} /\ worker'[w].pc \in {"select", "end"}
        \/ worker[w].pc = "invoke" /\ worker'[w].pc = "respond"
        \/ /\ worker'[w].pc \in {"remove", "delete", "cancel", "gone"}
           /\ worker[w].pc \notin {"none", "invoke", "respond"}
    BY <1>0, <1>2 DEF RunWorker, WorkerCancelled, WorkerSendFails, WorkerSeesEnd,
         WorkerRemoves, WorkerDeletes, WorkerCancels, UnaryCancelled, WorkerOK
  <2> QED
    BY <2>1, <2>2 DEF PumpedOut
<1>3. CASE PumpEnds(w)
  <2>1. /\ UNCHANGED <<worker, upstream>> /\ pump[w].pc = "recv" /\ pump'[w].pc = "done"
    BY <1>0, <1>3 DEF PumpEnds, PumpOnly, PumpOK
  <2> QED
    BY <2>1 DEF PumpedOut
<1>4. CASE AppReceives(w)
  <2>1. /\ UNCHANGED pump /\ worker[w].pc = "send" /\ worker'[w].pc = "select"
        /\ upstream'[w].sent = upstream[w].sent /\ upstream'[w].ended = upstream[w].ended
    BY <1>0, <1>4 DEF AppReceives, AppOnly, WorkerOK, UpstreamOK
  <2> QED
    BY <2>1 DEF PumpedOut
<1>5. CASE AppSends(w)
  <2>1. /\ UNCHANGED worker /\ pump[w].pc = "recv" /\ pump'[w].pc = "publish"
        /\ upstream'[w].sent = upstream[w].sent + 1
        /\ (upstream[w].sent + 1) - 1 = upstream[w].sent
    BY <1>0, <1>5, Bounds DEF AppSends, AppOnly, PumpOK, UpstreamOK
  <2> QED
    BY <2>1 DEF PumpedOut
<1>6. CASE AppEnds(w)
  <2>1. /\ UNCHANGED <<worker, pump>> /\ pump[w].pc \in {"recv", "publish"}
        /\ upstream'[w].sent = upstream[w].sent
    BY <1>0, <1>6 DEF AppEnds, AppOnly, UpstreamOK
  <2> QED
    BY <2>1 DEF PumpedOut
<1>7. CASE AppAnswersUnary(w)
  <2>1. /\ UNCHANGED <<pump, upstream>> /\ worker[w].pc = "invoke" /\ worker'[w].pc = "respond"
    BY <1>0, <1>7 DEF AppAnswersUnary, AppOnly, WorkerOK
  <2> QED
    BY <2>1 DEF PumpedOut
<1> QED
  BY <1>1, <1>2, <1>3, <1>4, <1>5, <1>6, <1>7 DEF Pump, App

\* A worker publishes its End or its response, or a pump a message.
LEMMA WorkerSays ==
  ASSUME OneLease, Typed, CallInv, UpstreamInv, SentInv, NEW g \in Leases, NEW r \in Replies,
         NEW w, w = <<g, r>>, [Next]_vars,
         WorkerPublishesEnd(w) \/ RespondUnary(w) \/ PumpPublishes(w)
  PROVE  SentSoFar(g, r)'
<1>0. /\ w \in Worker /\ w[1] = g /\ w[2] = r /\ SentSoFar(g, r) /\ UpstreamKnown(w)
      /\ CallWaits(g, r) /\ MadeOnce(g, r)
      /\ WorkerOK /\ PumpOK /\ UpstreamOK /\ ResponsesOK
  BY DEF Typed, SentInv, UpstreamInv, CallInv, Worker
<1>k. caller'[r].kind = caller[r].kind /\ (caller[r].called => caller'[r].called) /\ (NatsUp' => NatsUp)
  BY NeverBack
<1>p. PICK p \in Seq(Response) : p = responses[r]
  BY <1>0 DEF ResponsesOK
<1>n. PICK n \in 0..MaxUp : n = upstream[w].sent
  BY <1>0 DEF UpstreamOK
<1>1. CASE WorkerPublishesEnd(w)
  <2>1. /\ UNCHANGED <<pump, upstream, closing>> /\ worker[w].pc = "end" /\ worker'[w].pc = "remove"
        /\ worker[w].err \in Outcome
    BY <1>0, <1>1 DEF WorkerPublishesEnd, WorkerOnly, leaseVars, pumpVars, WorkerOK
  <2>2. caller[r].kind = "stream" /\ pump[w].pc = "done" /\ worker[w].err \in {upstream[w].ended, "Canceled"}
    BY <1>0, <2>1 DEF MadeOnce, UpstreamKnown, Running
  <2>3. OpenLine(p) /\ (NatsUp => Len(p) = n + 1)
    BY <1>0, <1>p, <1>n, <2>1, <2>2 DEF SentSoFar, SentByWorker, PumpedOut
  <2>4. End(worker[w].err) \in Response /\ Publish(r, End(worker[w].err))
    BY <1>0, <1>1, <2>1, ResponseTypes DEF WorkerPublishesEnd
  <2>5. /\ NatsUp => responses'[r] = Append(p, End(worker[w].err))
        /\ ~NatsUp => responses'[r] = p
    BY <1>0, <1>p, <2>4, PublishAdds
  <2>6. SentByWorker(g, r)'
    <3>1. CASE NatsUp
      <4>1. ClosedLine(Append(p, End(worker[w].err)), upstream[w].ended, n)
        BY <2>1, <2>2, <2>3, <3>1, OpenEnd
      <4>2. ClosedLine(responses'[r], upstream'[w].ended, upstream'[w].sent)
        BY <1>n, <2>1, <2>5, <3>1, <4>1
      <4> QED
        BY <1>0, <2>1, <2>2, <4>2 DEF SentByWorker
    <3>2. CASE ~NatsUp
      BY <1>k, <1>p, <2>3, <2>5, <3>2 DEF SentByWorker
    <3> QED
      BY <3>1, <3>2
  <2> QED
    BY <1>0, <1>k, <2>1, <2>2, <2>6 DEF SentSoFar, SentUnary, SentByNone
<1>2. CASE RespondUnary(w)
  <2>1. /\ worker[w].pc = "respond" /\ worker'[w].pc = "gone" /\ worker[w].err \in Outcome
    BY <1>0, <1>2 DEF RespondUnary, WorkerOK
  <2>2. caller[r].kind = "unary" /\ caller[r].called
    BY <1>0, <2>1 DEF MadeOnce
  <2>3. p = <<>>
    BY <1>0, <1>p, <2>1, <2>2 DEF SentSoFar, SentUnary
  <2>4. Unary(worker[w].err) \in Response /\ Publish(r, Unary(worker[w].err))
    BY <1>0, <1>2, <2>1, ResponseTypes DEF RespondUnary
  <2>5. /\ NatsUp => responses'[r] = Append(p, Unary(worker[w].err))
        /\ ~NatsUp => responses'[r] = p
    BY <1>0, <1>p, <2>4, PublishAdds
  <2>6. PICK m \in Response : m = Unary(worker[w].err)
    BY <2>4
  <2>7. Len(Append(p, m)) = 1 /\ Append(p, m)[1] = m /\ m.type = "Unary"
    BY <2>3, <2>6, OneMore DEF Unary
  <2> QED
    BY <1>0, <1>k, <2>1, <2>2, <2>3, <2>5, <2>6, <2>7
       DEF SentSoFar, SentUnary, SentByNone, SentByWorker
<1>3. CASE PumpPublishes(w)
  <2>1. /\ UNCHANGED <<worker, upstream, closing>> /\ pump[w].pc = "publish" /\ pump'[w].pc = "recv"
    BY <1>0, <1>3 DEF PumpPublishes, PumpOnly, leaseVars, PumpOK
  <2>2. caller[r].kind = "stream" /\ pump[w].n = n /\ n > 0 /\ worker[w].pc # "none"
    BY <1>0, <1>n, <2>1 DEF UpstreamKnown
  <2>3. OpenLine(p) /\ (NatsUp => Len(p) = (n - 1) + 1)
    BY <1>0, <1>p, <1>n, <2>1, <2>2 DEF SentSoFar, SentByWorker, PumpedOut
  <2>4. (n - 1) + 1 = n
    BY Bounds
  <2>5. Data(n) \in Response /\ Publish(r, Data(n))
    BY <1>0, <1>3, <2>2, ResponseTypes DEF PumpPublishes
  <2>6. /\ NatsUp => responses'[r] = Append(p, Data(n))
        /\ ~NatsUp => responses'[r] = p
    BY <1>0, <1>p, <2>5, PublishAdds
  <2>7. PumpedOut(w)' = n
    BY <1>n, <2>1 DEF PumpedOut
  <2>8. SentByWorker(g, r)'
    <3>1. CASE NatsUp
      <4>1. OpenLine(Append(p, Data(n))) /\ Len(Append(p, Data(n))) = n + 1
        BY <2>2, <2>3, <2>4, <3>1, OpenData
      <4> QED
        BY <1>0, <2>6, <2>7, <3>1, <4>1 DEF SentByWorker
    <3>2. CASE ~NatsUp
      BY <1>k, <1>p, <2>3, <2>6, <3>2 DEF SentByWorker
    <3> QED
      BY <3>1, <3>2
  <2> QED
    BY <1>0, <1>k, <2>1, <2>2, <2>8 DEF SentSoFar, SentUnary, SentByNone
<1> QED
  BY <1>1, <1>2, <1>3

\* The dispatcher publishes that there is no stream, or the Begin of the worker it starts.
LEMMA DispatcherSays ==
  ASSUME OneLease, Typed, CallInv, UpstreamInv, SentInv, NEW g \in Leases, NEW r \in Replies,
         NEW w, w = <<g, r>>, [Next]_vars, r = dispatcher[g].frame.reply,
         \/ NewStream(g) /\ dispatcher'[g].pc = "idle" /\ Publish(r, End("Status"))
         \/ StartWorker(g)
  PROVE  SentSoFar(g, r)'
<1>0. /\ w \in Worker /\ SentSoFar(g, r) /\ UpstreamKnown(w) /\ CallWaits(g, r) /\ MadeOnce(g, r)
      /\ WorkerOK /\ PumpOK /\ ResponsesOK /\ DispatcherOK
  BY DEF Typed, SentInv, UpstreamInv, CallInv, Worker
<1>k. caller'[r].kind = caller[r].kind /\ (caller[r].called => caller'[r].called)
  BY NeverBack
<1>m. Making(g, r)
  BY DEF NewStream, StartWorker, Making
<1>1. /\ caller[r].kind = "stream" /\ caller[r].called /\ worker[w].pc = "none" /\ ~Waits(pending[g], r)
      /\ UNCHANGED pending
  BY <1>0, <1>m DEF MadeOnce, CallWaits, NewStream, StartWorker
<1>2. responses[r] = <<>>
  BY <1>0, <1>1, <1>m DEF SentSoFar, SentByNone
<1>3. PICK p \in Seq(Response) : p = responses[r]
  BY <1>0 DEF ResponsesOK
<1>4. CASE NewStream(g) /\ dispatcher'[g].pc = "idle" /\ Publish(r, End("Status"))
  <2>1. UNCHANGED worker /\ ~Making(g, r)'
    BY <1>4 DEF NewStream, Making
  <2>2. End("Status") \in Response
    BY ResponseTypes DEF Outcome
  <2>3. responses'[r] = <<>> \/ responses'[r] = Append(responses[r], End("Status"))
    BY <1>0, <1>2, <1>4, <2>2, PublishAdds
  <2>4. responses'[r] = <<>> \/ responses'[r] = <<End("Status")>>
    BY <1>2, <2>3
  <2>5. SentByNone(g, r)'
    BY <1>1, <1>k, <2>1, <2>4 DEF SentByNone
  <2> QED
    BY <1>0, <1>1, <1>k, <2>1, <2>5 DEF SentSoFar, SentUnary, SentByWorker
<1>5. CASE StartWorker(g)
  <2>1. /\ UNCHANGED <<upstream, closing>> /\ worker'[w].pc = "select" /\ pump'[w].pc = "recv"
        /\ Publish(r, Begin)
    BY <1>0, <1>5 DEF StartWorker, leaseVars, WorkerOK, PumpOK
  <2>2. PumpedOut(w)' = 0
    BY <1>0, <1>1, <2>1 DEF UpstreamKnown, PumpedOut
  <2>3. /\ NatsUp => responses'[r] = Append(p, Begin)
        /\ ~NatsUp => responses'[r] = p
    BY <1>0, <1>3, <2>1, ResponseTypes, PublishAdds
  <2>4. Append(p, Begin)[1] = Begin /\ Len(Append(p, Begin)) = 1
    BY <1>2, <1>3, ResponseTypes, OneMore
  <2>5. OpenLine(Append(p, Begin)) /\ OpenLine(p)
    BY <1>2, <1>3, <2>4 DEF OpenLine
  <2>6. NatsUp' <=> NatsUp
    BY <2>1 DEF NatsUp
  <2>7. SentByWorker(g, r)'
    <3>1. PumpedOut(<<g, r>>)' + 1 = 1
      BY <2>2
    <3>2. OpenLine(responses'[r]) /\ (NatsUp' => Len(responses'[r]) = 1)
      BY <1>3, <2>3, <2>4, <2>5, <2>6
    <3> QED
      BY <3>1, <3>2 DEF SentByWorker
  <2> QED
    BY <1>1, <1>k, <2>1, <2>7 DEF SentSoFar, SentUnary, SentByNone
<1> QED
  BY <1>4, <1>5

\* The makings and the Calls that wait come from a call.
LEMMA CallsComeFrom ==
  ASSUME Typed, CallInv, [Next]_vars, NEW g \in Leases, NEW r \in Replies
  PROVE  Making(g, r)' \/ Waits(pending'[g], r) => Making(g, r) \/ Waits(pending[g], r) \/ ~caller[r].called
<1>0. PendingOK /\ DispatcherOK
  BY DEF Typed
<1>1. ASSUME UNCHANGED dispatcher, pending'[g] \in {pending[g], <<>>}
      PROVE  Making(g, r)' \/ Waits(pending'[g], r) => Making(g, r) \/ Waits(pending[g], r)
  BY <1>1, WaitsEmpty DEF Making
<1>2. CASE UNCHANGED vars
  BY <1>1, <1>2 DEF vars, natsVars
<1>3. ASSUME NEW s \in Replies, Caller(s)
      PROVE  Making(g, r)' \/ Waits(pending'[g], r) => Making(g, r) \/ Waits(pending[g], r) \/ ~caller[r].called
  <2>1. UNCHANGED dispatcher
    BY <1>3 DEF Caller, CallerCalls, CallerSendsData, CallerEnds, CallerPings, CallerRequests, Send
  <2>2. ASSUME NEW t \in {"Call", "Data", "End", "Ping"}, NEW n \in 0..MaxFrames, t = "Data" => n # 0,
               Send(s, t, n), t = "Call" => ~caller[s].called
        PROVE  Waits(pending'[g], r) => Waits(pending[g], r) \/ ~caller[r].called
    <3> DEFINE f == [reply |-> s, type |-> t, n |-> n]
    <3>1. f \in Frame /\ (IsCall(f, r) <=> t = "Call" /\ s = r)
      BY <2>2 DEF Frame, IsCall
    <3>2. pending'[g] = pending[g] \/ pending'[g] = Append(pending[g], f)
      BY <2>2 DEF Send
    <3> HIDE DEF f
    <3>3. ~IsCall(f, r) => (Waits(Append(pending[g], f), r) => Waits(pending[g], r))
      BY <1>0, <3>1, WaitsAppend DEF PendingOK
    <3> QED
      BY <2>2, <3>1, <3>2, <3>3
  <2>3. CASE CallerCalls(s)
    BY <1>1, <2>1, <2>2, <2>3, Bounds DEF CallerCalls, Making
  <2>4. CASE CallerSendsData(s)
    <3>1. caller[s].data + 1 \in 0..MaxFrames /\ caller[s].data + 1 # 0
      BY <2>4, Bounds DEF CallerSendsData, Typed, CallerOK
    <3>2. Send(s, "Data", caller[s].data + 1)
      BY <2>4 DEF CallerSendsData
    <3> QED
      BY <2>1, <2>2, <3>1, <3>2 DEF Making
  <2>5. CASE CallerEnds(s)
    BY <2>1, <2>2, <2>5, Bounds DEF CallerEnds, Making
  <2>6. CASE CallerPings(s)
    BY <2>1, <2>2, <2>6, Bounds DEF CallerPings, Making
  <2>7. CASE CallerRequests(s)
    BY <1>1, <2>1, <2>7 DEF CallerRequests
  <2> QED
    BY <1>3, <2>3, <2>4, <2>5, <2>6, <2>7 DEF Caller
<1>4. ASSUME NEW h \in Leases, Dispatcher(h)
      PROVE  Making(g, r)' \/ Waits(pending'[g], r) => Making(g, r) \/ Waits(pending[g], r)
  <2>1. CASE h # g
    BY <1>4, <2>1, DispatcherMoves DEF Making
  <2>2. CASE h = g /\ ~OnStreamFrame(g)
    BY <1>4, <2>2, DispatcherMoves
  <2>3. CASE h = g /\ OnStreamFrame(g)
    <3>1. PICK q \in Seq(Frame) : q = pending[g] /\ q # <<>>
      BY <1>0, <2>3 DEF OnStreamFrame, PendingOK
    <3> DEFINE f == Head(q)
    <3>2. /\ pending'[g] = Tail(q) /\ dispatcher'[g].frame = f
          /\ dispatcher'[g].pc \in {"idle", "lookup", "create"}
          /\ dispatcher'[g].pc = "create" => f.type = "Call"
      BY <1>0, <2>3, <3>1 DEF OnStreamFrame, DispatcherOK, PendingOK
    <3>3. f = Head(q)
      OBVIOUS
    <3> HIDE DEF f
    <3>4. (Waits(Tail(q), r) => Waits(q, r)) /\ (IsCall(f, r) => Waits(q, r))
      BY <3>1, <3>3, WaitsTail
    <3>5. Making(g, r)' => IsCall(f, r)
      BY <3>2 DEF Making, IsCall
    <3> QED
      BY <3>1, <3>2, <3>4, <3>5
  <2> QED
    BY <2>1, <2>2, <2>3
<1>5. CASE \E w \in Worker : RunWorker(w) \/ Pump(w) \/ App(w)
  BY <1>1, <1>5, WorkerMoves
<1>6. CASE \/ \E h \in Leases : \/ OpenIngress(h) \/ SubscribeFails(h) \/ LeaseEnds(h)
                                \/ Handler(h) \/ TeardownSteps(h)
           \/ CloseBegins \/ CloseSteps \/ CloseReturns
  BY <1>1, <1>6, LeaseLeaves
<1> QED
  BY <1>2, <1>3, <1>4, <1>5, <1>6 DEF Next

\* What a caller was sent fits his worker, with one lease: inductive.
LEMMA NextSent ==
  ASSUME OneLease
  PROVE  Typed /\ CallInv /\ UpstreamInv /\ SentInv /\ [Next]_vars => SentInv'
<1> SUFFICES ASSUME Typed, CallInv, UpstreamInv, SentInv, [Next]_vars,
                    NEW g \in Leases, NEW r \in Replies
             PROVE  SentSoFar(g, r)'
  BY DEF SentInv
<1>v. <<g, r>> \in Worker /\ <<g, r>>[1] = g /\ <<g, r>>[2] = r
  BY DEF Worker
<1>w. PICK w \in Worker : w = <<g, r>> /\ w[1] = g /\ w[2] = r
  BY <1>v
<1>0. /\ SentSoFar(g, r) /\ UpstreamKnown(w) /\ MadeOnce(g, r) /\ ResponsesOK /\ DispatcherOK
      /\ WorkerOK /\ PumpOK
  BY <1>w DEF Typed, SentInv, UpstreamInv, CallInv
<1>k. caller'[r].kind = caller[r].kind /\ (caller[r].called => caller'[r].called) /\ (NatsUp' => NatsUp)
  BY NeverBack
<1>c. Making(g, r)' \/ Waits(pending'[g], r) => Making(g, r) \/ Waits(pending[g], r) \/ ~caller[r].called
  BY CallsComeFrom
<1>1. CASE WorkerPublishesEnd(w) \/ RespondUnary(w) \/ PumpPublishes(w)
  BY <1>1, <1>w, WorkerSays
<1>2. CASE /\ r = dispatcher[g].frame.reply
           /\ \/ NewStream(g) /\ dispatcher'[g].pc = "idle" /\ Publish(r, End("Status"))
              \/ StartWorker(g)
  BY <1>2, <1>w, DispatcherSays
<1>3. CASE /\ ~(WorkerPublishesEnd(w) \/ RespondUnary(w) \/ PumpPublishes(w))
           /\ ~(/\ r = dispatcher[g].frame.reply
                /\ \/ NewStream(g) /\ dispatcher'[g].pc = "idle" /\ Publish(r, End("Status"))
                   \/ StartWorker(g))
  <2>1. responses'[r] = responses[r]
    <3>1. CASE UNCHANGED responses
      BY <3>1
    <3>2. ASSUME NEW h \in Leases,
                 \/ /\ NewStream(h) /\ dispatcher'[h].pc = "idle"
                    /\ Publish(dispatcher[h].frame.reply, End("Status"))
                 \/ StartWorker(h) /\ Publish(dispatcher[h].frame.reply, Begin)
          PROVE  responses'[r] = responses[r]
      <4>1. h = g
        BY DEF OneLease
      <4>2. dispatcher[g].frame.reply # r
        BY <1>3, <3>2, <4>1
      <4>3. dispatcher[g].frame.reply \in Replies
        BY <1>0, <3>2, <4>1 DEF NewStream, StartWorker, DispatcherOK, Frame
      <4>4. End("Status") \in Response /\ Begin \in Response
        BY ResponseTypes DEF Outcome
      <4> QED
        BY <1>0, <3>2, <4>1, <4>2, <4>3, <4>4, PublishAdds
    <3>3. ASSUME NEW v \in Worker,
                 \/ WorkerPublishesEnd(v) /\ Publish(v[2], End(worker[v].err))
                 \/ RespondUnary(v) /\ Publish(v[2], Unary(worker[v].err))
                 \/ PumpPublishes(v) /\ Publish(v[2], Data(pump[v].n))
          PROVE  responses'[r] = responses[r]
      <4>1. v # w
        BY <1>3, <3>3
      <4>2. v[1] = g /\ v[2] \in Replies /\ v = <<v[1], v[2]>>
        BY DEF Worker, OneLease
      <4>3. v[2] # r
        BY <1>w, <4>1, <4>2
      <4>4. /\ worker[v].pc \in {"end", "respond"} => worker[v].err \in Outcome
            /\ Data(pump[v].n) \in Response
        BY <1>0, ResponseTypes DEF WorkerOK, PumpOK
      <4>5. worker[v].pc \in {"end", "respond"} =>
              End(worker[v].err) \in Response /\ Unary(worker[v].err) \in Response
        BY <4>4, ResponseTypes
      <4> QED
        BY <1>0, <3>3, <4>2, <4>3, <4>4, <4>5, PublishAdds DEF WorkerPublishesEnd, RespondUnary
    <3> QED
      BY <3>1, <3>2, <3>3, Publishers
  <2>2. CASE RunWorker(w) \/ Pump(w) \/ App(w)
    BY <1>0, <1>3, <1>c, <1>k, <1>w, <2>1, <2>2, QuietWorker, SentStays
  <2>3. CASE ~RunWorker(w) /\ ~Pump(w) /\ ~App(w)
    <3>1. CASE ~StartWorker(g)
      <4>1. /\ pump'[w] = pump[w] /\ upstream'[w] = upstream[w]
            /\ \/ worker'[w] = worker[w]
               \/ \E s \in Replies : CallerRequests(s) /\ w[2] = s /\ worker'[w].pc \in {"invoke", "respond"}
        BY <1>w, <2>3, <3>1, UpstreamAside
      <4>2. CASE worker'[w] = worker[w]
        BY <1>0, <1>c, <1>k, <1>w, <2>1, <4>1, <4>2, SentStays DEF PumpedOut
      <4>3. CASE \E s \in Replies : CallerRequests(s) /\ w[2] = s /\ worker'[w].pc \in {"invoke", "respond"}
        <5>1. caller[r].kind = "unary" /\ ~caller[r].called
          BY <1>w, <4>3 DEF CallerRequests
        <5>2. responses[r] = <<>>
          BY <1>0, <5>1 DEF SentSoFar, SentUnary
        <5> QED
          BY <1>k, <2>1, <5>1, <5>2 DEF SentSoFar, SentUnary, SentByNone, SentByWorker
      <4> QED
        BY <4>1, <4>2, <4>3
    <3>2. CASE StartWorker(g)
      <4>1. r # dispatcher[g].frame.reply
        BY <1>3, <3>2
      <4>2. worker'[w] = worker[w] /\ pump'[w] = pump[w] /\ UNCHANGED upstream
        BY <1>0, <1>w, <3>2, <4>1 DEF StartWorker, WorkerOK, PumpOK
      <4> QED
        BY <1>0, <1>c, <1>k, <1>w, <2>1, <4>2, SentStays DEF PumpedOut
    <3> QED
      BY <3>1, <3>2
  <2> QED
    BY <2>2, <2>3
<1> QED
  BY <1>1, <1>2, <1>3

\* With one lease of the service, what a caller can read at its reply inbox is a Begin, the
\* app's messages in order and at most one End, which names the app's outcome only after all
\* of them; or the lone End of a stream that could not be opened; or one unary response
\* (SidecarIngress's ReplyProtocol).
THEOREM RepliesInOrder == OneLease => (Spec => []ReplyProtocol)
<1> SUFFICES ASSUME OneLease PROVE Spec => []ReplyProtocol
  OBVIOUS
<1>1. Init => SentInv
  <2> SUFFICES ASSUME Init, NEW g \in Leases, NEW r \in Replies PROVE SentSoFar(g, r)
    BY DEF SentInv
  <2>1. worker[<<g, r>>].pc = "none" /\ responses[r] = <<>>
    BY DEF Init, Worker
  <2> QED
    BY <2>1 DEF SentSoFar, SentUnary, SentByNone, SentByWorker
<1>2. Typed /\ CallInv /\ UpstreamInv /\ SentInv /\ [Next]_vars => SentInv'
  BY NextSent
<1>3. Typed /\ SentInv => ReplyProtocol
  <2> SUFFICES ASSUME Typed, SentInv, NEW r \in Replies
               PROVE  LET p == responses[r] IN
    IF caller[r].kind = "unary" THEN Len(p) <= 1 /\ \A i \in 1..Len(p) : p[i].type = "Unary"
    ELSE \/ p = <<>> \/ p = <<End("Status")>>
         \/ /\ p[1] = Begin
            /\ \A i \in 2..Len(p) :
                 \/ p[i] = Data(i - 1)
                 \/ /\ i = Len(p) /\ p[i].type = "End"
                    /\ p[i].err # "Canceled" =>
                         \E g \in Leases : /\ upstream[<<g, r>>].ended = p[i].err
                                           /\ upstream[<<g, r>>].sent = i - 2
    BY DEF ReplyProtocol
  <2>1. PICK g \in Leases : TRUE
    BY IngressAssumption
  <2>2. SentSoFar(g, r)
    BY DEF SentInv
  <2>3. PICK p \in Seq(Response) : p = responses[r] /\ Len(p) \in Nat
    BY DEF Typed, ResponsesOK
  <2>4. CASE caller[r].kind = "unary"
    <3>1. p = <<>> \/ (Len(p) = 1 /\ p[1].type = "Unary")
      BY <2>2, <2>3, <2>4 DEF SentSoFar, SentUnary
    <3>2. Len(p) <= 1 /\ \A i \in 1..Len(p) : p[i].type = "Unary"
      <4>1. CASE p = <<>>
        BY <4>1
      <4>2. CASE Len(p) = 1 /\ p[1].type = "Unary"
        BY <4>2
      <4> QED
        BY <3>1, <4>1, <4>2
    <3> QED
      BY <2>3, <2>4, <3>2
  <2>5. CASE caller[r].kind # "unary"
    <3>1. caller[r].kind = "stream"
      BY <2>5 DEF Typed, CallerOK
    <3>2. \/ p = <<>> \/ p = <<End("Status")>> \/ OpenLine(p)
          \/ ClosedLine(p, upstream[<<g, r>>].ended, upstream[<<g, r>>].sent)
      BY <2>2, <2>3, <3>1 DEF SentSoFar, SentByNone, SentByWorker
    <3>3. CASE ClosedLine(p, upstream[<<g, r>>].ended, upstream[<<g, r>>].sent)
      <4>1. \A i \in 2..Len(p) : i \in 2..(Len(p) - 1) \/ i = Len(p)
        BY <2>3
      <4> QED
        BY <2>3, <2>5, <3>3, <4>1 DEF ClosedLine
    <3>4. CASE OpenLine(p)
      BY <2>3, <2>5, <3>4 DEF OpenLine
    <3> QED
      BY <2>3, <2>5, <3>2, <3>3, <3>4
  <2> QED
    BY <2>4, <2>5
<1> QED
  BY <1>1, <1>2, <1>3, InitTyped, NextTyped, InitCallInv, NextCallInv, InitUpstream, NextUpstream, PTL
     DEF Spec

-----------------------------------------------------------------------------
(* What reaches the app                                                     *)

Delivering == {"select", "send", "drain"}

\* A frame as one call counts it: that of another call is nothing to it.
VFrame == [reply : Replies, type : {"Call", "Data", "End", "Ping", "Other"}, n : 0..MaxFrames]
Heard(f, r) == IF f.reply = r THEN f ELSE [f EXCEPT !.type = "Other"]
View(q, r) == [i \in 1..Len(q) |-> Heard(q[i], r)]

\* A call's frames on their way: with the worker, in its channel and with the dispatcher;
\* and at the subscription, while the registration may still take them from there.
Hand(w) ==
  IF worker[w].pc = "send" THEN <<[reply |-> w[2], type |-> "Data", n |-> worker[w].n]>> ELSE <<>>
Held(g, r) ==
  IF dispatcher[g].pc # "idle" /\ dispatcher[g].frame.reply = r THEN <<dispatcher[g].frame>> ELSE <<>>
Open(g) == ~Torndown(g) /\ NatsUp
Subject(g) == IF Open(g) THEN pending[g] ELSE <<>>
Taken(g, r) == (Hand(<<g, r>>) \o frames[<<g, r>>]) \o Held(g, r)
Line(g, r) == Taken(g, r) \o View(Subject(g), r)

\* A call for which there is a worker that reads, or will be one.
Active(g, r) == Waits(pending[g], r) \/ Making(g, r) \/ worker[<<g, r>>].pc \in Delivering

\* Nothing comes before a registration's subscriptions.
Opened(g, r) ==
  lease[g] = "none" => pending[g] = <<>> /\ dispatcher[g].pc = "idle" /\ worker[<<g, r>>].pc = "none"

\* A call's Data and End at a subscription stand behind its Call.
Behind(q, r, called, ended) ==
  \A i \in 1..Len(q) : q[i].reply = r /\ q[i].type \in {"Data", "End"} =>
    /\ IF q[i].type = "Data" THEN called ELSE ended
    /\ \A j \in 1..Len(q) : IsCall(q[j], r) => j < i

CallFirst(g, r) ==
  /\ ~caller[r].called => caller[r].data = 0
  /\ Behind(pending[g], r, caller[r].called, caller[r].ended)

\* Frames are on the way to a worker that was made, and to no other.
Owned(g, r) ==
  /\ dispatcher[g].pc \in {"lookup", "put"} /\ dispatcher[g].frame.reply = r => worker[<<g, r>>].pc # "none"
  /\ dispatcher[g].pc = "put" => dispatcher[g].at = g
  /\ worker[<<g, r>>].pc = "none" => frames[<<g, r>>] = <<>>
  /\ \A i \in 1..Len(frames[<<g, r>>]) : frames[<<g, r>>][i].reply = r

\* The app got the first Data, and all of them when it sees the half-close.
GotFirst(w) ==
  LET got == upstream[w].got
      data == caller[w[2]].data
  IN /\ Len(got) <= data /\ \A i \in 1..Len(got) : got[i] = i
     /\ worker[w].pc = "none" => got = <<>> /\ ~upstream[w].half
     /\ upstream[w].half /\ UpstreamLive(w) => Len(got) = data /\ caller[w[2]].ended

\* The line of a call: the Data behind the first a of top in order, none missing if it is
\* whole, and the End, if there is one, of a caller who has ended.
Good(L, a, top, ended, whole) ==
  /\ Ordered(L, a, top, {"End"}) /\ (whole => Whole(L, a, top))
  /\ ended \/ \A i \in 1..Len(L) : L[i].type # "End"

OnTheWay(g, r) ==
  Active(g, r) /\ UpstreamLive(<<g, r>>) =>
    Good(Line(g, r), Len(upstream[<<g, r>>].got), caller[r].data, caller[r].ended, Open(g))

MadeInv == \A g \in Leases, r \in Replies : Opened(g, r) /\ CallFirst(g, r) /\ Owned(g, r)
GotInv == \A g \in Leases, r \in Replies : GotFirst(<<g, r>>) /\ OnTheWay(g, r)

\* The frames of a call are numbered.
LEMMA ViewFrames == Numbers(VFrame) /\ \A f \in Frame : f \in VFrame
BY Bounds DEF Numbers, VFrame, Frame

\* What a frame is to a call.
LEMMA HeardFrame ==
  ASSUME NEW f \in Frame, NEW r \in Replies
  PROVE  /\ Heard(f, r) \in VFrame
         /\ f.reply = r => Heard(f, r) = f
         /\ f.reply # r => Heard(f, r).type = "Other"
BY DEF Heard, VFrame, Frame

\* The view of a line has its length.
LEMMA ViewOf ==
  ASSUME NEW q \in Seq(Frame), NEW r \in Replies
  PROVE  /\ View(q, r) \in Seq(VFrame) /\ Len(View(q, r)) = Len(q)
         /\ \A i \in 1..Len(q) : View(q, r)[i] = Heard(q[i], r)
<1>1. PICK n \in Nat : n = Len(q)
  BY LenProperties
<1>2. \A i \in 1..n : q[i] \in Frame
  BY <1>1
<1>3. \A i \in 1..n : Heard(q[i], r) \in VFrame
  BY <1>2, HeardFrame
<1>4. View(q, r) = [i \in 1..n |-> Heard(q[i], r)]
  BY <1>1 DEF View
<1>5. View(q, r) \in [1..n -> VFrame]
  BY <1>3, <1>4
<1>6. View(q, r) \in Seq(VFrame) /\ Len(View(q, r)) = n
  BY <1>5, IsASeq, LenProperties
<1> QED
  BY <1>1, <1>4, <1>6

\* A frame more.
LEMMA ViewAppend ==
  ASSUME NEW q \in Seq(Frame), NEW f \in Frame, NEW r \in Replies
  PROVE  View(Append(q, f), r) = Append(View(q, r), Heard(f, r))
<1>1. PICK p \in Seq(Frame) : p = Append(q, f)
  BY OneMore
<1>2. PICK v \in Seq(VFrame) : v = View(q, r)
  BY ViewOf
<1>3. PICK h \in VFrame : h = Heard(f, r)
  BY HeardFrame
<1>4. PICK n \in Nat : n = Len(q) /\ Len(p) = n + 1 /\ Len(v) = n
  BY <1>1, <1>2, OneMore, ViewOf
<1>5. /\ p[n + 1] = f /\ \A i \in 1..n : p[i] = q[i] /\ v[i] = Heard(q[i], r)
      /\ \A i \in 1..(n + 1) : i \in 1..n \/ i = n + 1
  BY <1>1, <1>2, <1>4, OneMore, ViewOf
<1>6. /\ View(p, r) \in Seq(VFrame) /\ Len(View(p, r)) = n + 1
      /\ \A i \in 1..(n + 1) : View(p, r)[i] = Heard(p[i], r)
  BY <1>4, ViewOf
<1>7. /\ Append(v, h) \in Seq(VFrame) /\ Len(Append(v, h)) = n + 1
      /\ Append(v, h)[n + 1] = h /\ \A i \in 1..n : Append(v, h)[i] = v[i]
  BY <1>4, OneMore
<1>8. \A i \in 1..(n + 1) : View(p, r)[i] = Append(v, h)[i]
  BY <1>3, <1>5, <1>6, <1>7
<1>9. View(p, r) = Append(v, h)
  BY <1>6, <1>7, <1>8, SeqEqual
<1> QED
  BY <1>1, <1>2, <1>3, <1>9

\* The first frame less.
LEMMA ViewTail ==
  ASSUME NEW q \in Seq(Frame), q # <<>>, NEW r \in Replies
  PROVE  /\ View(q, r) # <<>> /\ Head(View(q, r)) = Heard(Head(q), r)
         /\ Tail(View(q, r)) = View(Tail(q), r)
<1>1. PICK v \in Seq(VFrame) : v = View(q, r)
  BY ViewOf
<1>2. PICK t \in Seq(Frame) : t = Tail(q)
  BY TailOf
<1>3. PICK n \in Nat : Len(q) = n + 1 /\ Len(t) = n /\ Len(v) = n + 1
  <2>1. PICK m \in Nat : m = Len(q) /\ m >= 1 /\ Len(t) = m - 1 /\ Len(v) = m
    BY <1>1, <1>2, TailOf, ViewOf
  <2>2. m - 1 \in Nat
    BY <2>1
  <2> QED
    BY <2>1, <2>2
<1>4. /\ q[1] = Head(q) /\ v[1] = Heard(q[1], r)
      /\ \A i \in 1..n : t[i] = q[i + 1] /\ v[i + 1] = Heard(q[i + 1], r)
  BY <1>1, <1>2, <1>3, TailOf, ViewOf
<1>5. v # <<>>
  BY <1>3
<1>6. Tail(v) \in Seq(VFrame) /\ Head(v) = v[1] /\ Len(Tail(v)) = n
      /\ \A i \in 1..n : Tail(v)[i] = v[i + 1]
  BY <1>3, <1>5, TailOf
<1>7. /\ View(t, r) \in Seq(VFrame) /\ Len(View(t, r)) = n
      /\ \A i \in 1..n : View(t, r)[i] = Heard(t[i], r)
  BY <1>3, ViewOf
<1>8. \A i \in 1..n : Tail(v)[i] = View(t, r)[i]
  BY <1>4, <1>6, <1>7
<1>9. Tail(v) = View(t, r)
  BY <1>6, <1>7, <1>8, SeqEqual
<1> QED
  BY <1>1, <1>2, <1>4, <1>5, <1>6, <1>9

\* What a caller of a stream does: a frame goes to the subscriptions.
LEMMA CallerActs ==
  ASSUME Typed, NEW s \in Replies, Caller(s), ~CallerRequests(s)
  PROVE  \E f \in Frame :
           /\ f.reply = s
           /\ \A g \in Leases :
                pending'[g] = IF Subscribed(g) THEN Append(pending[g], f) ELSE pending[g]
           /\ UNCHANGED <<registrations, closing, lease, teardown, streams, streamCtxs, dispatcher,
                          worker, ctxDone, frames, pump, upDone, upstream>>
           /\ \A r \in Replies : r # s => caller'[r] = caller[r]
           /\ f.type = "Call" =>
                /\ ~caller[s].called /\ ~caller[s].ended
                /\ caller'[s] = [caller[s] EXCEPT !.called = TRUE]
           /\ f.type = "Data" =>
                /\ caller[s].called /\ ~caller[s].ended /\ f.n = caller[s].data + 1
                /\ caller'[s] = [caller[s] EXCEPT !.data = caller[s].data + 1]
           /\ f.type = "End" => caller'[s] = [caller[s] EXCEPT !.ended = TRUE]
           /\ f.type = "Ping" => caller'[s] = [caller[s] EXCEPT !.pings = caller[s].pings + 1]
<1>0. CallerOK /\ PendingOK
  BY DEF Typed
<1>r. \A r \in Replies : r # s => caller'[r] = caller[r]
  BY <1>0 DEF Caller, CallerCalls, CallerSendsData, CallerEnds, CallerPings, CallerRequests, CallerOK
<1>1. ASSUME NEW t, NEW n, Send(s, t, n), NEW f, f = [reply |-> s, type |-> t, n |-> n]
      PROVE  /\ f.reply = s /\ f.type = t /\ f.n = n
             /\ \A g \in Leases :
                  pending'[g] = IF Subscribed(g) THEN Append(pending[g], f) ELSE pending[g]
             /\ UNCHANGED <<registrations, closing, lease, teardown, streams, streamCtxs, dispatcher,
                            worker, ctxDone, frames, pump, upDone, upstream>>
  BY <1>1 DEF Send, leaseVars, indexVars, pumpVars
<1>2. CASE CallerCalls(s)
  <2>1. PICK f \in Frame : f = [reply |-> s, type |-> "Call", n |-> 0]
    <3>1. 0 \in 0..MaxFrames /\ [reply |-> s, type |-> "Call", n |-> 0] \in Frame
      BY Bounds DEF Frame
    <3> QED
      BY <3>1
  <2>2. Send(s, "Call", 0) /\ ~caller[s].called /\ ~caller[s].ended
        /\ caller'[s] = [caller[s] EXCEPT !.called = TRUE]
    BY <1>0, <1>2 DEF CallerCalls, CallerOK
  <2> WITNESS f \in Frame
  <2> QED
    BY <1>1, <1>r, <2>1, <2>2
<1>3. CASE CallerSendsData(s)
  <2>1. caller[s].data + 1 \in 0..MaxFrames /\ caller[s].data + 1 # 0
    BY <1>0, <1>3, Bounds DEF CallerSendsData, CallerOK
  <2>2. PICK f \in Frame : f = [reply |-> s, type |-> "Data", n |-> caller[s].data + 1]
    BY <2>1 DEF Frame
  <2>3. Send(s, "Data", caller[s].data + 1) /\ caller[s].called /\ ~caller[s].ended
        /\ caller'[s] = [caller[s] EXCEPT !.data = caller[s].data + 1]
    BY <1>0, <1>3 DEF CallerSendsData, CallerOK
  <2> WITNESS f \in Frame
  <2> QED
    BY <1>1, <1>r, <2>2, <2>3
<1>4. CASE CallerEnds(s)
  <2>1. PICK f \in Frame : f = [reply |-> s, type |-> "End", n |-> 0]
    <3>1. 0 \in 0..MaxFrames /\ [reply |-> s, type |-> "End", n |-> 0] \in Frame
      BY Bounds DEF Frame
    <3> QED
      BY <3>1
  <2>2. Send(s, "End", 0) /\ caller'[s] = [caller[s] EXCEPT !.ended = TRUE]
    BY <1>0, <1>4 DEF CallerEnds, CallerOK
  <2> WITNESS f \in Frame
  <2> QED
    BY <1>1, <1>r, <2>1, <2>2
<1>5. CASE CallerPings(s)
  <2>1. PICK f \in Frame : f = [reply |-> s, type |-> "Ping", n |-> 0]
    <3>1. 0 \in 0..MaxFrames /\ [reply |-> s, type |-> "Ping", n |-> 0] \in Frame
      BY Bounds DEF Frame
    <3> QED
      BY <3>1
  <2>2. Send(s, "Ping", 0) /\ caller'[s] = [caller[s] EXCEPT !.pings = caller[s].pings + 1]
    BY <1>0, <1>5 DEF CallerPings, CallerOK
  <2> WITNESS f \in Frame
  <2> QED
    BY <1>1, <1>r, <2>1, <2>2
<1> QED
  BY <1>2, <1>3, <1>4, <1>5 DEF Caller

\* A unary call starts a worker that was not, and nothing else.
LEMMA RequestAlone ==
  ASSUME Typed, CallInv, NEW s \in Replies, CallerRequests(s), NEW g \in Leases, NEW r \in Replies
  PROVE  /\ UNCHANGED <<pending, registrations, closing, lease, teardown, streams, streamCtxs, dispatcher,
                        ctxDone, frames, pump, upDone, upstream>>
         /\ r # s => caller'[r] = caller[r]
         /\ caller'[s] = [caller[s] EXCEPT !.called = TRUE]
         /\ \/ worker'[<<g, r>>] = worker[<<g, r>>]
            \/ /\ worker[<<g, r>>].pc = "none" /\ worker'[<<g, r>>].pc \in {"invoke", "respond"}
               /\ lease[g] # "none" /\ caller[r].kind = "unary"
<1>0. CallerOK /\ WorkerOK
  BY DEF Typed
<1>1. /\ UNCHANGED <<pending, registrations, closing, lease, teardown, streams, streamCtxs, dispatcher,
                     ctxDone, frames, pump, upDone, upstream>>
      /\ r # s => caller'[r] = caller[r]
      /\ caller'[s] = [caller[s] EXCEPT !.called = TRUE]
  BY <1>0 DEF CallerRequests, leaseVars, indexVars, pumpVars, CallerOK
<1>2. \/ worker'[<<g, r>>] = worker[<<g, r>>]
      \/ r = s /\ worker'[<<g, r>>].pc \in {"invoke", "respond"}
  BY RequestStarts
<1>3. ASSUME worker'[<<g, r>>] # worker[<<g, r>>]
      PROVE  lease[g] # "none"
  <2>1. PICK h \in Leases : /\ Subscribed(h)
                            /\ \/ worker' = [worker EXCEPT ![<<h, s>>].pc = "invoke"]
                               \/ worker' = [worker EXCEPT ![<<h, s>>] = [pc |-> "respond", n |-> 0, err |-> "Invalid"]]
    BY <1>3 DEF CallerRequests
  <2>2. h = g
    BY <1>0, <1>3, <2>1 DEF WorkerOK, Worker
  <2> QED
    BY <2>1, <2>2 DEF Subscribed
<1>4. ~caller[s].called /\ caller[s].kind = "unary"
  BY DEF CallerRequests
<1>5. worker[<<g, s>>].pc = "none"
  BY <1>4 DEF CallInv, MadeOnce
<1> QED
  BY <1>1, <1>2, <1>3, <1>4, <1>5

\* What the dispatcher does with the first frame at its subscription.
LEMMA FirstFrame ==
  ASSUME Typed, NEW g \in Leases, OnStreamFrame(g)
  PROVE  \E q \in Seq(Frame), f \in Frame :
           /\ q = pending[g] /\ q # <<>> /\ f = Head(q)
           /\ dispatcher[g].pc = "idle" /\ lease[g] # "none" /\ NatsUp
           /\ pending'[g] = Tail(q) /\ dispatcher'[g].frame = f
           /\ dispatcher'[g].pc \in {"idle", "lookup", "create"}
           /\ dispatcher'[g].pc = "lookup" => f.reply \in streamCtxs[g]
           /\ dispatcher'[g].pc = "create" => f.type = "Call"
           /\ IF Torndown(g) THEN dispatcher'[g].pc = "idle"
              ELSE dispatcher'[g].pc = "idle" => f.reply \notin streamCtxs[g] /\ f.type # "Call"
           /\ UNCHANGED <<caller, registrations, closing, lease, teardown, streams, streamCtxs, worker,
                          ctxDone, frames, pump, upDone, upstream>>
<1>0. PendingOK /\ DispatcherOK
  BY DEF Typed
<1>1. PICK q \in Seq(Frame) : q = pending[g] /\ q # <<>>
  BY <1>0 DEF OnStreamFrame, PendingOK
<1>2. PICK f \in Frame : f = Head(q)
  BY <1>1, TailOf
<1> DEFINE pc == IF Torndown(g) \/ (f.reply \notin streamCtxs[g] /\ f.type # "Call") THEN "idle"
                 ELSE IF f.reply \in streamCtxs[g] THEN "lookup" ELSE "create"
<1>3. dispatcher' = [dispatcher EXCEPT ![g].frame = f, ![g].pc = pc]
  BY <1>1, <1>2 DEF OnStreamFrame
<1>4. /\ pc \in {"idle", "lookup", "create"}
      /\ pc = "lookup" => f.reply \in streamCtxs[g]
      /\ pc = "create" => f.type = "Call"
      /\ Torndown(g) => pc = "idle"
      /\ ~Torndown(g) => (pc = "idle" => f.reply \notin streamCtxs[g] /\ f.type # "Call")
  OBVIOUS
<1> HIDE DEF pc
<1>5. dispatcher'[g].pc = pc /\ dispatcher'[g].frame = f
  BY <1>0, <1>3 DEF DispatcherOK
<1>6. pending'[g] = Tail(q)
  BY <1>0, <1>1 DEF OnStreamFrame, PendingOK
<1>7. /\ dispatcher[g].pc = "idle" /\ lease[g] # "none" /\ NatsUp
      /\ UNCHANGED <<caller, registrations, closing, lease, teardown, streams, streamCtxs, worker,
                     ctxDone, frames, pump, upDone, upstream>>
  BY DEF OnStreamFrame, Subscribed, DispatcherOnly, leaseVars, indexVars, pumpVars
<1> QED
  BY <1>1, <1>2, <1>4, <1>5, <1>6, <1>7

\* The subscriptions come first: inductive.
LEMMA NextOpened ==
  ASSUME Typed, CallInv, [Next]_vars, NEW g \in Leases, NEW r \in Replies, Opened(g, r)
  PROVE  Opened(g, r)'
<1> DEFINE w == <<g, r>>
<1>0. /\ PendingOK /\ DispatcherOK /\ WorkerOK /\ LeaseOK /\ w \in Worker
      /\ dispatcher[g].pc \in DispatcherPC
  BY DEF Typed, Worker, DispatcherOK
<1>1. ASSUME lease'[g] = "none" => lease[g] = "none",
             lease[g] = "none" => pending'[g] = pending[g] \/ pending'[g] = <<>>,
             lease[g] = "none" => dispatcher'[g] = dispatcher[g] /\ worker'[w].pc = worker[w].pc
      PROVE  Opened(g, r)'
  BY <1>1 DEF Opened
<1>2. CASE UNCHANGED vars
  BY <1>1, <1>2 DEF vars, natsVars, leaseVars
<1>3. ASSUME NEW s \in Replies, Caller(s)
      PROVE  Opened(g, r)'
  <2>1. CASE CallerRequests(s)
    BY <1>1, <2>1, RequestAlone
  <2>2. CASE ~CallerRequests(s)
    <3>1. PICK f \in Frame :
            /\ pending'[g] = IF Subscribed(g) THEN Append(pending[g], f) ELSE pending[g]
            /\ UNCHANGED <<lease, dispatcher, worker>>
      BY <1>3, <2>2, CallerActs
    <3> QED
      BY <1>1, <3>1 DEF Subscribed
  <2> QED
    BY <2>1, <2>2
<1>4. ASSUME NEW h \in Leases, Dispatcher(h)
      PROVE  Opened(g, r)'
  <2>1. CASE h # g
    <3>1. UNCHANGED lease /\ dispatcher'[g] = dispatcher[g] /\ pending'[g] = pending[g]
      BY <1>4, <2>1, DispatcherMoves
    <3>2. worker'[w] = worker[w]
      BY <1>0, <1>4, <2>1, DispatcherMoves DEF StartWorker, WorkerOK
    <3> QED
      BY <1>1, <3>1, <3>2
  <2>2. CASE h = g
    <3>1. lease'[g] = lease[g] /\ lease[g] # "none"
      <4>1. CASE OnStreamFrame(g)
        BY <4>1, FirstFrame
      <4>2. CASE ~OnStreamFrame(g)
        <5>1. dispatcher[g].pc # "idle"
          BY <1>4, <2>2, <4>2 DEF Dispatcher, FindWorker, NewStream, AddStream, IndexWorker, StartWorker, PutFrame
        <5> QED
          BY <1>4, <2>2, <5>1, DispatcherMoves DEF Opened
      <4> QED
        BY <4>1, <4>2
    <3> QED
      BY <3>1 DEF Opened
  <2> QED
    BY <2>1, <2>2
<1>5. ASSUME NEW v \in Worker, RunWorker(v) \/ Pump(v) \/ App(v)
      PROVE  Opened(g, r)'
  <2>1. UNCHANGED <<pending, lease, dispatcher>>
    BY <1>5, WorkerMoves
  <2>2. worker[w].pc = "none" => worker'[w] = worker[w]
    BY <1>0, <1>5, WorkerMoves DEF Running
  <2> QED
    BY <2>1, <2>2 DEF Opened
<1>6. ASSUME \/ \E h \in Leases : \/ OpenIngress(h) \/ SubscribeFails(h) \/ LeaseEnds(h)
                                  \/ Handler(h) \/ TeardownSteps(h)
             \/ CloseBegins \/ CloseSteps \/ CloseReturns
      PROVE  Opened(g, r)'
  <2>1. UNCHANGED <<dispatcher, worker>> /\ pending'[g] \in {pending[g], <<>>}
    BY <1>6, LeaseLeaves
  <2>2. lease'[g] = "none" => lease[g] = "none"
    BY <1>0, <1>6
       DEF OpenIngress, SubscribeFails, LeaseEnds, CloseIngress, Handler, OpenRegisters, HandlerStops,
           HandlerTeardown, TeardownSteps, Unsubscribe, CancelStream, CloseConn, CloseBegins, CloseSteps,
           CloseSnapshot, CloseTearsDown, CloseTornDown, CloseReturns, CloseOnly, LeaseOK
  <2> QED
    BY <1>1, <2>1, <2>2
<1> QED
  BY <1>2, <1>3, <1>4, <1>5, <1>6 DEF Next

\* A line that loses its first frame.
LEMMA BehindTail ==
  ASSUME NEW F, NEW q \in Seq(F), q # <<>>, NEW r, NEW called, NEW ended, Behind(q, r, called, ended)
  PROVE  /\ Behind(Tail(q), r, called, ended)
         /\ Head(q).reply = r /\ Head(q).type \in {"Data", "End"} => ~Waits(q, r)
<1>1. PICK n \in Nat : Len(q) = n + 1 /\ Len(Tail(q)) = n
  <2>1. Len(q) - 1 \in Nat /\ Len(q) = (Len(q) - 1) + 1 /\ Len(Tail(q)) = Len(q) - 1
    BY TailOf
  <2> QED
    BY <2>1
<1>2. /\ \A i \in 1..n : i + 1 \in 1..Len(q) /\ Tail(q)[i] = q[i + 1]
      /\ 1 \in 1..Len(q) /\ Head(q) = q[1]
  BY <1>1, TailOf
<1>3. Behind(Tail(q), r, called, ended)
  <2> SUFFICES ASSUME NEW i \in 1..n, Tail(q)[i].reply = r, Tail(q)[i].type \in {"Data", "End"}
               PROVE  /\ IF Tail(q)[i].type = "Data" THEN called ELSE ended
                      /\ \A j \in 1..n : IsCall(Tail(q)[j], r) => j < i
    BY <1>1 DEF Behind
  <2>1. i + 1 \in 1..Len(q) /\ q[i + 1].reply = r /\ q[i + 1].type \in {"Data", "End"} /\ q[i + 1] = Tail(q)[i]
    BY <1>2
  <2>2. \A j \in 1..Len(q) : IsCall(q[j], r) => j < i + 1
    BY <2>1 DEF Behind
  <2>3. \A j \in 1..n : IsCall(Tail(q)[j], r) => j < i
    BY <1>2, <2>2
  <2> QED
    BY <2>1, <2>3 DEF Behind
<1>4. ASSUME Head(q).reply = r, Head(q).type \in {"Data", "End"}
      PROVE  ~Waits(q, r)
  <2>1. \A j \in 1..Len(q) : IsCall(q[j], r) => j < 1
    BY <1>2, <1>4 DEF Behind
  <2> QED
    BY <2>1 DEF Waits
<1> QED
  BY <1>3, <1>4

\* A line that gets longer.
LEMMA BehindAppend ==
  ASSUME NEW F, NEW q \in Seq(F), NEW f \in F, NEW r, NEW called, NEW ended, Behind(q, r, called, ended)
  PROVE  /\ ~IsCall(f, r) /\ (f.reply # r \/ f.type \notin {"Data", "End"}) =>
              Behind(Append(q, f), r, called, ended)
         /\ f.type = "Data" /\ called => Behind(Append(q, f), r, called, ended)
         /\ f.type = "End" /\ ended => Behind(Append(q, f), r, called, ended)
         /\ IsCall(f, r) /\ called = FALSE /\ ended = FALSE => Behind(Append(q, f), r, TRUE, FALSE)
<1> DEFINE p == Append(q, f)
<1>1. PICK n \in Nat : Len(q) = n /\ Len(p) = n + 1
  BY OneMore
<1>2. p[n + 1] = f /\ (\A i \in 1..n : p[i] = q[i]) /\ \A i \in 1..(n + 1) : i \in 1..n \/ i = n + 1
  BY <1>1, OneMore
<1> HIDE DEF p
<1>3. ASSUME ~IsCall(f, r), \/ f.reply # r \/ f.type \notin {"Data", "End"}
                            \/ called /\ f.type = "Data"
                            \/ ended /\ f.type = "End"
      PROVE  Behind(p, r, called, ended)
  <2> SUFFICES ASSUME NEW i \in 1..(n + 1), p[i].reply = r, p[i].type \in {"Data", "End"}
               PROVE  /\ IF p[i].type = "Data" THEN called ELSE ended
                      /\ \A j \in 1..(n + 1) : IsCall(p[j], r) => j < i
    BY <1>1 DEF Behind
  <2>1. \A j \in 1..(n + 1) : IsCall(p[j], r) => j \in 1..n /\ IsCall(q[j], r)
    BY <1>2, <1>3
  <2>2. CASE i \in 1..n
    BY <1>1, <1>2, <2>1, <2>2 DEF Behind
  <2>3. CASE i = n + 1
    BY <1>2, <1>3, <2>1, <2>3
  <2> QED
    BY <1>2, <2>2, <2>3
<1>4. ASSUME IsCall(f, r), called = FALSE, ended = FALSE
      PROVE  Behind(p, r, TRUE, FALSE)
  <2>1. \A i \in 1..n : ~(q[i].reply = r /\ q[i].type \in {"Data", "End"})
    BY <1>1, <1>4 DEF Behind
  <2>2. \A i \in 1..(n + 1) : ~(p[i].reply = r /\ p[i].type \in {"Data", "End"})
    BY <1>2, <1>4, <2>1 DEF IsCall
  <2> QED
    BY <1>1, <2>2 DEF Behind
<1>5. f.type \in {"Data", "End"} => ~IsCall(f, r)
  BY DEF IsCall
<1> QED
  BY <1>3, <1>4, <1>5 DEF p

\* A Call comes first: inductive.
LEMMA NextCallFirst ==
  ASSUME Typed, CallInv, [Next]_vars, NEW g \in Leases, NEW r \in Replies, CallFirst(g, r)
  PROVE  CallFirst(g, r)'
<1>0. /\ pending[g] \in Seq(Frame) /\ caller[r].data \in Nat
      /\ caller[r] \in [kind : {"stream", "unary"}, called : BOOLEAN, data : 0..MaxFrames,
                        pings : 0..MaxFrames, ended : BOOLEAN]
  BY Bounds DEF Typed, PendingOK, CallerOK
<1>b. Behind(pending[g], r, caller[r].called, caller[r].ended)
  BY DEF CallFirst
<1>e. \A c, e : Behind(<<>>, r, c, e)
  BY DEF Behind
<1>1. ASSUME caller'[r] = caller[r], pending'[g] \in {pending[g], <<>>}
      PROVE  CallFirst(g, r)'
  BY <1>1, <1>b, <1>e DEF CallFirst
<1>2. CASE UNCHANGED vars
  BY <1>1, <1>2 DEF vars, natsVars
<1>3. ASSUME NEW s \in Replies, Caller(s)
      PROVE  CallFirst(g, r)'
  <2>1. CASE CallerRequests(s)
    <3>0. /\ r # s => caller'[r] = caller[r]
          /\ caller'[s] = [caller[s] EXCEPT !.called = TRUE]
      BY <2>1, RequestAlone
    <3>1. UNCHANGED pending /\ (r # s => caller'[r] = caller[r])
          /\ (r = s => caller'[r] = [caller[r] EXCEPT !.called = TRUE])
      BY <2>1, <3>0 DEF CallerRequests
    <3>2. CASE r = s
      <4>1. caller'[r].called /\ caller'[r].ended = caller[r].ended
        BY <1>0, <3>1, <3>2
      <4>2. Behind(pending[g], r, TRUE, caller[r].ended)
        BY <1>b DEF Behind
      <4>3. caller'[r].called = TRUE
        BY <1>0, <3>1, <3>2
      <4> QED
        BY <3>1, <4>1, <4>2, <4>3 DEF CallFirst
    <3> QED
      BY <1>1, <3>1, <3>2
  <2>2. CASE ~CallerRequests(s)
    <3>1. PICK f \in Frame :
            /\ f.reply = s
            /\ pending'[g] = IF Subscribed(g) THEN Append(pending[g], f) ELSE pending[g]
            /\ r # s => caller'[r] = caller[r]
            /\ f.type = "Call" =>
                 /\ ~caller[s].called /\ ~caller[s].ended
                 /\ caller'[s] = [caller[s] EXCEPT !.called = TRUE]
            /\ f.type = "Data" =>
                 /\ caller[s].called
                 /\ caller'[s] = [caller[s] EXCEPT !.data = caller[s].data + 1]
            /\ f.type = "End" => caller'[s] = [caller[s] EXCEPT !.ended = TRUE]
            /\ f.type = "Ping" => caller'[s] = [caller[s] EXCEPT !.pings = caller[s].pings + 1]
      BY <1>3, <2>2, CallerActs
    <3>2. f.type \in {"Call", "Data", "End", "Ping"}
      BY DEF Frame
    <3> DEFINE p == pending[g]
    <3>p. p \in Seq(Frame) /\ Behind(p, r, caller[r].called, caller[r].ended)
      BY <1>0, <1>b
    <3>g. ASSUME NEW c, NEW e, Behind(p, r, c, e), Behind(Append(p, f), r, c, e)
          PROVE  Behind(pending'[g], r, c, e)
      BY <3>1, <3>g
    <3> HIDE DEF p
    <3>3. CASE s # r
      <4>1. Behind(Append(p, f), r, caller[r].called, caller[r].ended)
        BY <3>1, <3>3, <3>p, BehindAppend DEF IsCall
      <4>2. Behind(pending'[g], r, caller[r].called, caller[r].ended)
        BY <3>g, <3>p, <4>1
      <4> QED
        BY <3>1, <3>3, <4>2 DEF CallFirst
    <3>4. CASE s = r /\ f.type = "Call"
      <4>1. IsCall(f, r) /\ caller[r].called = FALSE /\ caller[r].ended = FALSE
        BY <1>0, <3>1, <3>4 DEF IsCall
      <4>2. Behind(Append(p, f), r, TRUE, FALSE)
        BY <3>p, <4>1, BehindAppend
      <4>3. Behind(p, r, TRUE, FALSE)
        BY <3>p, <4>1 DEF Behind
      <4>4. Behind(pending'[g], r, TRUE, FALSE)
        BY <3>g, <4>2, <4>3
      <4>5. caller'[r].called = TRUE /\ caller'[r].ended = FALSE
        BY <1>0, <3>1, <3>4, <4>1
      <4> QED
        BY <4>4, <4>5 DEF CallFirst
    <3>5. CASE s = r /\ f.type = "Data"
      <4>1. Behind(Append(p, f), r, caller[r].called, caller[r].ended)
        BY <3>1, <3>5, <3>p, BehindAppend
      <4>2. Behind(pending'[g], r, caller[r].called, caller[r].ended)
        BY <3>g, <3>p, <4>1
      <4>3. caller[r].called /\ caller'[r].called = caller[r].called /\ caller'[r].ended = caller[r].ended
        BY <1>0, <3>1, <3>5
      <4> QED
        BY <4>2, <4>3 DEF CallFirst
    <3>6. CASE s = r /\ f.type = "End"
      <4>1. Behind(p, r, caller[r].called, TRUE)
        BY <3>p DEF Behind
      <4>2. Behind(Append(p, f), r, caller[r].called, TRUE)
        BY <3>6, <3>p, <4>1, BehindAppend
      <4>3. Behind(pending'[g], r, caller[r].called, TRUE)
        BY <3>g, <4>1, <4>2
      <4>4. caller'[r].called = caller[r].called /\ caller'[r].ended = TRUE /\ caller'[r].data = caller[r].data
        BY <1>0, <3>1, <3>6
      <4> QED
        BY <4>3, <4>4 DEF CallFirst
    <3>7. CASE s = r /\ f.type = "Ping"
      <4>1. Behind(Append(p, f), r, caller[r].called, caller[r].ended)
        BY <3>7, <3>p, BehindAppend DEF IsCall
      <4>2. Behind(pending'[g], r, caller[r].called, caller[r].ended)
        BY <3>g, <3>p, <4>1
      <4>3. caller'[r].called = caller[r].called /\ caller'[r].ended = caller[r].ended
            /\ caller'[r].data = caller[r].data
        BY <1>0, <3>1, <3>7
      <4> QED
        BY <4>2, <4>3 DEF CallFirst
    <3> QED
      BY <3>2, <3>3, <3>4, <3>5, <3>6, <3>7
  <2> QED
    BY <2>1, <2>2
<1>4. ASSUME NEW h \in Leases, Dispatcher(h)
      PROVE  CallFirst(g, r)'
  <2>1. CASE h # g \/ ~OnStreamFrame(h)
    <3>1. UNCHANGED caller /\ pending'[g] = pending[g]
      BY <1>4, <2>1, DispatcherMoves
    <3> QED
      BY <1>1, <3>1
  <2>2. CASE h = g /\ OnStreamFrame(g)
    <3>1. PICK q \in Seq(Frame) : q = pending[g] /\ q # <<>> /\ pending'[g] = Tail(q) /\ UNCHANGED caller
      BY <2>2, FirstFrame
    <3>2. Behind(Tail(q), r, caller[r].called, caller[r].ended)
      BY <1>b, <3>1, BehindTail
    <3> QED
      BY <3>1, <3>2 DEF CallFirst
  <2> QED
    BY <2>1, <2>2
<1>5. CASE \E v \in Worker : RunWorker(v) \/ Pump(v) \/ App(v)
  BY <1>1, <1>5, WorkerMoves
<1>6. CASE \/ \E h \in Leases : \/ OpenIngress(h) \/ SubscribeFails(h) \/ LeaseEnds(h)
                                \/ Handler(h) \/ TeardownSteps(h)
           \/ CloseBegins \/ CloseSteps \/ CloseReturns
  BY <1>1, <1>6, LeaseLeaves
<1> QED
  BY <1>2, <1>3, <1>4, <1>5, <1>6 DEF Next

\* Frames go to their worker, with one lease: inductive.
LEMMA NextOwned ==
  ASSUME OneLease, Typed, CallInv, EnteredInv, [Next]_vars,
         NEW g \in Leases, NEW r \in Replies, Owned(g, r)
  PROVE  Owned(g, r)'
<1> DEFINE w == <<g, r>>
<1>0. /\ DispatcherOK /\ WorkerOK /\ FramesOK /\ w \in Worker
      /\ dispatcher[g].pc \in DispatcherPC /\ frames[w] \in Seq(Frame)
  BY DEF Typed, Worker, DispatcherOK, FramesOK
<1>1. ASSUME worker'[w].pc = "none" => worker[w].pc = "none", dispatcher'[g] = dispatcher[g],
             frames'[w] = frames[w]
      PROVE  Owned(g, r)'
  BY <1>1 DEF Owned
<1>2. CASE UNCHANGED vars
  BY <1>1, <1>2 DEF vars, natsVars
<1>3. ASSUME NEW s \in Replies, Caller(s)
      PROVE  Owned(g, r)'
  <2>1. CASE CallerRequests(s)
    <3>1. UNCHANGED <<dispatcher, frames>>
          /\ (worker'[w] = worker[w] \/ worker'[w].pc \in {"invoke", "respond"})
      BY <2>1, RequestAlone
    <3> QED
      BY <1>1, <3>1
  <2>2. CASE ~CallerRequests(s)
    <3>1. UNCHANGED <<worker, dispatcher, frames>>
      BY <1>3, <2>2, CallerActs
    <3> QED
      BY <1>1, <3>1
  <2> QED
    BY <2>1, <2>2
<1>4. ASSUME NEW h \in Leases, Dispatcher(h)
      PROVE  Owned(g, r)'
  <2>0. h = g /\ Dispatcher(g)
    BY <1>4 DEF OneLease
  <2>1. CASE OnStreamFrame(g)
    <3>1. PICK f \in Frame :
            /\ dispatcher'[g].frame = f /\ dispatcher'[g].pc \in {"idle", "lookup", "create"}
            /\ dispatcher'[g].pc = "lookup" => f.reply \in streamCtxs[g]
            /\ dispatcher[g].pc = "idle" /\ UNCHANGED <<worker, frames>>
      BY <2>1, FirstFrame
    <3>2. r \in streamCtxs[g] => worker[w].pc # "none"
      BY <3>1 DEF EnteredInv, Entered, Placing
    <3> QED
      BY <3>1, <3>2 DEF Owned
  <2>2. CASE FindWorker(g)
    <3>1. /\ dispatcher[g].pc = "lookup" /\ dispatcher'[g].frame = dispatcher[g].frame
          /\ dispatcher'[g].pc = "idle" \/ (dispatcher'[g].pc = "put" /\ dispatcher'[g].at = g)
          /\ UNCHANGED <<worker, frames>>
      <4> DEFINE found == streams[dispatcher[g].frame.reply]
      <4>1. /\ dispatcher[g].pc = "lookup" /\ UNCHANGED <<worker, frames>>
            /\ dispatcher' = [dispatcher EXCEPT ![g].at = found,
                                                ![g].pc = IF found = NoLease THEN "idle" ELSE "put"]
        BY <2>2 DEF FindWorker, DispatcherOnly
      <4>2. dispatcher[g].frame \in Frame /\ dispatcher[g].frame.reply \in Replies
        BY <1>0, <4>1 DEF DispatcherOK, Frame
      <4>3. found \in Leases \cup {NoLease}
        BY <4>2 DEF Typed, IndexOK
      <4>4. found = NoLease \/ found = g
        BY <4>3 DEF OneLease
      <4> HIDE DEF found
      <4> QED
        BY <1>0, <4>1, <4>4 DEF DispatcherOK
    <3> QED
      BY <3>1 DEF Owned
  <2>3. CASE NewStream(g) \/ AddStream(g) \/ IndexWorker(g)
    <3>1. dispatcher'[g].pc \in {"idle", "add", "index", "begin"} /\ UNCHANGED <<worker, frames>>
      BY <1>0, <2>3 DEF NewStream, AddStream, IndexWorker, DispatcherOK
    <3> QED
      BY <3>1 DEF Owned
  <2>4. CASE StartWorker(g)
    <3>1. /\ dispatcher[g].pc = "begin" /\ dispatcher'[g].pc = "put"
          /\ dispatcher'[g].frame = dispatcher[g].frame /\ dispatcher'[g].at = dispatcher[g].at
          /\ UNCHANGED frames
      BY <1>0, <2>4 DEF StartWorker, DispatcherOK
    <3>2. dispatcher[g].at = g
      BY <3>1 DEF CallInv, MadeOnce
    <3>3. (dispatcher[g].frame.reply = r => worker'[w].pc = "select")
          /\ (dispatcher[g].frame.reply # r => worker'[w] = worker[w])
      BY <1>0, <2>4 DEF StartWorker, WorkerOK
    <3> QED
      BY <3>1, <3>2, <3>3 DEF Owned
  <2>5. CASE PutFrame(g)
    <3>1. /\ dispatcher[g].pc = "put" /\ dispatcher'[g].pc = "idle" /\ UNCHANGED worker
          /\ dispatcher[g].frame \in Frame /\ dispatcher[g].at = g
      BY <1>0, <2>5 DEF PutFrame, DispatcherOK, Owned
    <3>2. PICK f \in Frame : f = dispatcher[g].frame
      BY <3>1
    <3>3. \/ frames'[w] = frames[w]
          \/ f.reply = r /\ frames'[w] = Append(frames[w], f)
      BY <1>0, <2>5, <3>1, <3>2 DEF PutFrame, FramesOK
    <3>4. CASE frames'[w] = frames[w]
      BY <3>1, <3>4 DEF Owned
    <3>5. CASE f.reply = r /\ frames'[w] = Append(frames[w], f)
      <4>1. worker[w].pc # "none" /\ \A i \in 1..Len(frames[w]) : frames[w][i].reply = r
        BY <3>1, <3>2, <3>5 DEF Owned
      <4>2. PICK q \in Seq(Frame) : q = frames[w]
        BY <1>0
      <4>3. \A i \in 1..Len(Append(q, f)) : Append(q, f)[i].reply = r
        <5>1. /\ Append(q, f)[Len(q) + 1] = f
              /\ \A i \in 1..Len(q) : Append(q, f)[i] = q[i]
              /\ \A i \in 1..Len(Append(q, f)) : i \in 1..Len(q) \/ i = Len(q) + 1
          BY OneMore
        <5> QED
          BY <3>5, <4>1, <4>2, <5>1
      <4> QED
        BY <3>1, <3>5, <4>1, <4>2, <4>3 DEF Owned
    <3> QED
      BY <3>3, <3>4, <3>5
  <2> QED
    BY <2>0, <2>1, <2>2, <2>3, <2>4, <2>5 DEF Dispatcher
<1>5. ASSUME NEW v \in Worker, RunWorker(v) \/ Pump(v) \/ App(v)
      PROVE  Owned(g, r)'
  <2>1. UNCHANGED dispatcher /\ (worker'[w].pc = "none" => worker[w].pc = "none")
    BY <1>0, <1>5, WorkerMoves DEF Running
  <2>2. CASE WorkerTakes(v) /\ v = w
    <3>1. PICK q \in Seq(Frame) : q = frames[w] /\ q # <<>>
      BY <1>0, <2>2 DEF WorkerTakes
    <3>2. frames'[w] = Tail(q) /\ worker[w].pc = "select"
      BY <1>0, <2>2, <3>1 DEF WorkerTakes, FramesOK
    <3>3. \A i \in 1..Len(q) : q[i].reply = r
      BY <3>1 DEF Owned
    <3>4. \A i \in 1..Len(Tail(q)) : Tail(q)[i].reply = r
      BY <3>1, <3>3, TailOf
    <3> QED
      BY <2>1, <3>2, <3>4 DEF Owned
  <2>3. CASE ~(WorkerTakes(v) /\ v = w)
    <3>1. frames'[w] = frames[w]
      BY <1>0, <1>5, <2>3
         DEF RunWorker, WorkerTakes, WorkerCancelled, WorkerSendFails, WorkerSeesEnd, WorkerPublishesEnd,
             WorkerRemoves, WorkerDeletes, WorkerCancels, UnaryCancelled, RespondUnary,
             Pump, PumpPublishes, PumpEnds, PumpOnly, App, AppReceives, AppSends, AppEnds,
             AppAnswersUnary, AppOnly, FramesOK
    <3> QED
      BY <1>1, <2>1, <3>1
  <2> QED
    BY <2>2, <2>3
<1>6. CASE \/ \E h \in Leases : \/ OpenIngress(h) \/ SubscribeFails(h) \/ LeaseEnds(h)
                                \/ Handler(h) \/ TeardownSteps(h)
           \/ CloseBegins \/ CloseSteps \/ CloseReturns
  BY <1>1, <1>6, LeaseLeaves
<1> QED
  BY <1>2, <1>3, <1>4, <1>5, <1>6 DEF Next

\* Both, and the subscriptions: inductive, with one lease.
LEMMA NextMade ==
  ASSUME OneLease
  PROVE  Typed /\ CallInv /\ EnteredInv /\ MadeInv /\ [Next]_vars => MadeInv'
BY NextOpened, NextCallFirst, NextOwned DEF MadeInv

\* It holds at first.
LEMMA InitMade == Init => MadeInv
<1> SUFFICES ASSUME Init, NEW g \in Leases, NEW r \in Replies
             PROVE  Opened(g, r) /\ CallFirst(g, r) /\ Owned(g, r)
  BY DEF MadeInv
<1>1. /\ pending[g] = <<>> /\ dispatcher[g].pc = "idle" /\ worker[<<g, r>>].pc = "none"
      /\ frames[<<g, r>>] = <<>> /\ caller[r].data = 0
  BY DEF Init, Worker
<1>2. Opened(g, r) /\ Owned(g, r)
  BY <1>1 DEF Opened, Owned
<1>3. CallFirst(g, r)
  BY <1>1 DEF CallFirst, Behind
<1> QED
  BY <1>2, <1>3

\* The caller sends, and the registration takes: the line gets longer.
LEMMA GoodMore ==
  ASSUME NEW L \in Seq(VFrame), NEW f \in VFrame, NEW a \in Nat, NEW top \in Nat, NEW ended \in BOOLEAN,
         Good(L, a, top, ended, TRUE)
  PROVE  /\ f.type \notin {"Data", "End"} => Good(Append(L, f), a, top, ended, TRUE)
         /\ f.type = "Data" /\ f.n = top + 1 /\ ~ended => Good(Append(L, f), a, top + 1, ended, TRUE)
         /\ f.type = "End" => Good(Append(L, f), a, top, TRUE, TRUE)
<1>0. Numbers(VFrame) /\ "Data" \notin {"End"} /\ Ordered(L, a, top, {"End"}) /\ Whole(L, a, top)
      /\ (ended \/ \A i \in 1..Len(L) : L[i].type # "End")
  BY ViewFrames DEF Good
<1>1. f.type # "End" =>
        (ended \/ \A i \in 1..Len(Append(L, f)) : Append(L, f)[i].type # "End")
  <2>1. /\ Append(L, f)[Len(L) + 1] = f
        /\ \A i \in 1..Len(L) : Append(L, f)[i] = L[i]
        /\ \A i \in 1..Len(Append(L, f)) : i \in 1..Len(L) \/ i = Len(L) + 1
    BY OneMore
  <2> QED
    BY <1>0, <2>1
<1>2. f.type # "Data" => Ordered(Append(L, f), a, top, {"End"}) /\ Whole(Append(L, f), a, top)
  BY <1>0, OrderedAppend
<1>3. f.type = "Data" /\ f.n = top + 1 /\ ~ended =>
        Ordered(Append(L, f), a, top + 1, {"End"}) /\ Whole(Append(L, f), a, top + 1)
  <2>1. ~ended => \A i \in 1..Len(L) : L[i].type \notin {"End"}
    BY <1>0
  <2> QED
    BY <1>0, <2>1, OrderedAppend
<1> QED
  BY <1>1, <1>2, <1>3 DEF Good

\* The caller sends, and the registration does not take.
LEMMA GoodUnsent ==
  ASSUME NEW L \in Seq(VFrame), NEW a \in Nat, NEW top \in Nat, NEW ended \in BOOLEAN,
         Good(L, a, top, ended, FALSE)
  PROVE  /\ ~ended => Good(L, a, top + 1, ended, FALSE)
         /\ Good(L, a, top, TRUE, FALSE)
<1>1. Numbers(VFrame) /\ Ordered(L, a, top, {"End"})
  BY ViewFrames DEF Good
<1>2. ~ended => \A i \in 1..Len(L) : L[i].type \notin {"End"}
  BY DEF Good
<1>3. ~ended => Ordered(L, a, top + 1, {"End"})
  BY <1>1, <1>2, OrderedHigher
<1> QED
  BY <1>1, <1>3 DEF Good

\* The worker takes the first of the line.
LEMMA GoodLess ==
  ASSUME NEW L \in Seq(VFrame), L # <<>>, NEW a \in Nat, NEW top \in Nat, NEW ended \in BOOLEAN,
         NEW whole \in BOOLEAN, Good(L, a, top, ended, whole)
  PROVE  /\ Head(L).type # "Data" => Good(Tail(L), a, top, ended, whole)
         /\ Head(L).type = "Data" =>
              Head(L).n = a + 1 /\ a + 1 <= top /\ Good(Tail(L), a + 1, top, ended, whole)
         /\ Head(L).type = "End" => a = top /\ ended
<1>0. Numbers(VFrame) /\ Ordered(L, a, top, {"End"}) /\ (whole => Whole(L, a, top))
      /\ (ended \/ \A i \in 1..Len(L) : L[i].type # "End")
  BY ViewFrames DEF Good
<1>1. /\ Head(L) = L[1] /\ 1 \in 1..Len(L)
      /\ \A i \in 1..Len(Tail(L)) : i + 1 \in 1..Len(L) /\ Tail(L)[i] = L[i + 1]
  BY TailOf
<1>2. ended \/ \A i \in 1..Len(Tail(L)) : Tail(L)[i].type # "End"
  BY <1>0, <1>1
<1>3. Head(L).type # "Data" =>
        Ordered(Tail(L), a, top, {"End"}) /\ (Whole(L, a, top) => Whole(Tail(L), a, top))
  BY <1>0, OrderedTail
<1>4. Head(L).type = "Data" =>
        /\ Head(L).n = a + 1 /\ Ordered(Tail(L), a + 1, top, {"End"})
        /\ Whole(L, a, top) => Whole(Tail(L), a + 1, top)
  BY <1>0, OrderedTail
<1>5. Head(L).type = "End" => a = top /\ ended
  <2>1. Head(L).type \in {"End"} => a = top
    BY <1>0, OrderedTail
  <2> QED
    BY <1>0, <1>1, <2>1
<1>6. Head(L).type = "Data" => a + 1 <= top
  BY <1>4 DEF Ordered
<1> QED
  BY <1>0, <1>2, <1>3, <1>4, <1>5, <1>6 DEF Good

\* The registration takes no more from its subscription.
LEMMA GoodCut ==
  ASSUME NEW P \in Seq(VFrame), NEW Q \in Seq(VFrame), NEW a \in Nat, NEW top \in Nat,
         NEW ended \in BOOLEAN, NEW whole \in BOOLEAN, Good(P \o Q, a, top, ended, whole),
         NEW less \in BOOLEAN, ~less
  PROVE  Good(P, a, top, ended, less)
<1>1. Ordered(P \o Q, a, top, {"End"})
      /\ (ended \/ \A i \in 1..Len(P \o Q) : (P \o Q)[i].type # "End")
  BY DEF Good
<1>2. Ordered(P, a, top, {"End"})
  BY <1>1, OrderedPrefix
<1>3. \A i \in 1..Len(P) : i \in 1..Len(P \o Q) /\ (P \o Q)[i] = P[i]
  BY ConcatProperties
<1> QED
  BY <1>1, <1>2, <1>3 DEF Good

\* A frame that counts for nothing goes.
LEMMA GoodDrop ==
  ASSUME NEW P \in Seq(VFrame), NEW Q \in Seq(VFrame), Q # <<>>, Head(Q).type \notin {"Data", "End"},
         NEW a \in Nat, NEW top \in Nat, NEW ended \in BOOLEAN, NEW whole \in BOOLEAN,
         Good(P \o Q, a, top, ended, whole)
  PROVE  Good(P \o Tail(Q), a, top, ended, whole)
<1>1. Numbers(VFrame) /\ Ordered(P \o Q, a, top, {"End"}) /\ (whole => Whole(P \o Q, a, top))
      /\ (ended \/ \A i \in 1..Len(P \o Q) : (P \o Q)[i].type # "End")
  BY ViewFrames DEF Good
<1>2. /\ Ordered(P \o Tail(Q), a, top, {"End"})
      /\ Whole(P \o Q, a, top) => Whole(P \o Tail(Q), a, top)
      /\ \A i \in 1..Len(P \o Tail(Q)) : \E j \in 1..Len(P \o Q) : (P \o Tail(Q))[i] = (P \o Q)[j]
  BY <1>1, OrderedDrop
<1> QED
  BY <1>1, <1>2 DEF Good

\* A line in which nothing counts, when all that was sent has been taken.
LEMMA GoodNone ==
  ASSUME NEW L \in Seq(VFrame), \A i \in 1..Len(L) : L[i].type \notin {"Data", "End"},
         NEW a \in Nat, NEW ended \in BOOLEAN, NEW whole \in BOOLEAN
  PROVE  Good(L, a, a, ended, whole)
BY DEF Good, Ordered, Whole

\* The pieces of a line.
LEMMA LineTyped ==
  ASSUME Typed, NEW g \in Leases, NEW r \in Replies
  PROVE  /\ Hand(<<g, r>>) \in Seq(VFrame) /\ frames[<<g, r>>] \in Seq(VFrame) /\ Held(g, r) \in Seq(VFrame)
         /\ Hand(<<g, r>>) \o frames[<<g, r>>] \in Seq(VFrame)
         /\ Taken(g, r) \in Seq(VFrame) /\ Subject(g) \in Seq(Frame)
         /\ View(Subject(g), r) \in Seq(VFrame) /\ Line(g, r) \in Seq(VFrame)
<1> DEFINE w == <<g, r>>
<1>1. w \in Worker /\ w[2] = r
  BY DEF Worker
<1>2. Hand(w) \in Seq(VFrame)
  <2>1. [reply |-> w[2], type |-> "Data", n |-> worker[w].n] \in VFrame
    BY <1>1 DEF Typed, WorkerOK, VFrame
  <2> QED
    BY <2>1 DEF Hand
<1>3. frames[w] \in Seq(VFrame)
  <2>1. frames[w] \in Seq(Frame) /\ Frame \subseteq VFrame
    BY <1>1, ViewFrames DEF Typed, FramesOK
  <2> QED
    BY <2>1, SeqMonotonic
<1>4. Held(g, r) \in Seq(VFrame)
  <2>1. dispatcher[g].pc # "idle" => dispatcher[g].frame \in VFrame
    BY ViewFrames DEF Typed, DispatcherOK
  <2> QED
    BY <2>1 DEF Held
<1>5. Subject(g) \in Seq(Frame)
  BY DEF Subject, Typed, PendingOK
<1>6. View(Subject(g), r) \in Seq(VFrame)
  BY <1>5, ViewOf
<1>7. Hand(w) \o frames[w] \in Seq(VFrame)
  BY <1>2, <1>3, ConcatProperties
<1>8. Taken(g, r) \in Seq(VFrame)
  BY <1>4, <1>7, ConcatProperties DEF Taken
<1>9. Line(g, r) \in Seq(VFrame)
  BY <1>6, <1>8, ConcatProperties DEF Line
<1> QED
  BY <1>2, <1>3, <1>4, <1>5, <1>6, <1>7, <1>8, <1>9

\* What the app's stream and its caller count.
LEMMA Counts ==
  ASSUME Typed, NEW g \in Leases, NEW r \in Replies
  PROVE  /\ upstream[<<g, r>>].got \in Seq(1..MaxFrames) /\ Len(upstream[<<g, r>>].got) \in Nat
         /\ caller[r].data \in Nat /\ caller[r].ended \in BOOLEAN /\ caller[r].called \in BOOLEAN
         /\ Open(g) \in BOOLEAN
<1>1. <<g, r>> \in Worker
  BY DEF Worker
<1>2. upstream[<<g, r>>].got \in Seq(1..MaxFrames)
  BY <1>1 DEF Typed, UpstreamOK
<1>3. caller[r].data \in Nat /\ caller[r].ended \in BOOLEAN /\ caller[r].called \in BOOLEAN
  BY Bounds DEF Typed, CallerOK
<1> QED
  BY <1>2, <1>3, LenProperties DEF Open, Torndown, NatsUp

\* A stream to the app that is over stays so.
LEMMA LiveBefore ==
  ASSUME Typed, [Next]_vars, NEW w \in Worker, UpstreamLive(w)'
  PROVE  UpstreamLive(w)
<1>0. CtxOK /\ TeardownOK /\ UpstreamOK /\ w[1] \in Leases
  BY DEF Typed, Worker
<1>1. ASSUME ctxDone[w] => ctxDone'[w]
      PROVE  ~ctxDone[w]
  BY <1>1 DEF UpstreamLive
<1>2. ASSUME teardown[w[1]].pc = "done" => teardown'[w[1]].pc = "done"
      PROVE  ConnOpen(w[1])
  BY <1>2 DEF UpstreamLive, ConnOpen
<1>3. ASSUME upstream[w].ended # "no" => upstream'[w].ended # "no"
      PROVE  upstream[w].ended = "no"
  BY <1>3 DEF UpstreamLive
<1>4. CASE UNCHANGED vars
  BY <1>1, <1>2, <1>3, <1>4 DEF vars, leaseVars, UpstreamLive
<1>5. ASSUME NEW s \in Replies, Caller(s)
      PROVE  UpstreamLive(w)
  <2>1. UNCHANGED <<ctxDone, teardown, upstream>>
    BY <1>5 DEF Caller, CallerCalls, CallerSendsData, CallerEnds, CallerPings, CallerRequests, Send, leaseVars
  <2> QED
    BY <1>1, <1>2, <1>3, <2>1 DEF UpstreamLive
<1>6. ASSUME NEW h \in Leases, Dispatcher(h)
      PROVE  UpstreamLive(w)
  <2>1. UNCHANGED <<teardown, upstream>>
    BY <1>6 DEF Dispatcher, OnStreamFrame, FindWorker, NewStream, AddStream, IndexWorker, StartWorker,
                PutFrame, DispatcherOnly, leaseVars
  <2>2. ctxDone[w] => ctxDone'[w]
    BY <1>0, <1>6 DEF Dispatcher, OnStreamFrame, FindWorker, NewStream, AddStream, IndexWorker,
                      StartWorker, PutFrame, CtxOK
  <2> QED
    BY <1>1, <1>2, <1>3, <2>1, <2>2 DEF UpstreamLive
<1>7. ASSUME NEW v \in Worker, RunWorker(v) \/ Pump(v) \/ App(v)
      PROVE  UpstreamLive(w)
  <2>1. UNCHANGED teardown
    BY <1>7, WorkerMoves
  <2>2. ctxDone[w] => ctxDone'[w]
    BY <1>0, <1>7
       DEF RunWorker, WorkerTakes, WorkerCancelled, WorkerSendFails, WorkerSeesEnd, WorkerPublishesEnd,
           WorkerRemoves, WorkerDeletes, WorkerCancels, UnaryCancelled, RespondUnary, Pump, PumpPublishes,
           PumpEnds, PumpOnly, App, AppReceives, AppSends, AppEnds, AppAnswersUnary, AppOnly, CtxOK
  <2>3. upstream[w].ended # "no" => upstream'[w].ended # "no"
    <3>1. CASE RunWorker(v)
      <4>1. \/ UNCHANGED upstream
            \/ \E half : upstream' = [upstream EXCEPT ![v].half = half]
        BY <3>1 DEF RunWorker, WorkerTakes, WorkerCancelled, WorkerSendFails, WorkerSeesEnd,
             WorkerPublishesEnd, WorkerRemoves, WorkerDeletes, WorkerCancels, UnaryCancelled, RespondUnary
      <4> QED
        BY <1>0, <4>1 DEF UpstreamOK
    <3>2. CASE Pump(v)
      BY <3>2 DEF Pump, PumpPublishes, PumpEnds, PumpOnly
    <3>3. CASE AppEnds(v)
      <4>1. PICK err \in {"EOF", "Status"} : upstream' = [upstream EXCEPT ![v].ended = err]
        BY <3>3 DEF AppEnds
      <4> QED
        BY <1>0, <4>1 DEF UpstreamOK
    <3>4. CASE AppReceives(v) \/ AppSends(v) \/ AppAnswersUnary(v)
      BY <1>0, <3>4 DEF AppReceives, AppSends, AppAnswersUnary, UpstreamOK
    <3> QED
      BY <1>7, <3>1, <3>2, <3>3, <3>4 DEF App
  <2> QED
    BY <1>1, <1>2, <1>3, <2>1, <2>2, <2>3 DEF UpstreamLive
<1>8. ASSUME \/ \E h \in Leases : \/ OpenIngress(h) \/ SubscribeFails(h) \/ LeaseEnds(h)
                                  \/ Handler(h) \/ TeardownSteps(h)
             \/ CloseBegins \/ CloseSteps \/ CloseReturns
      PROVE  UpstreamLive(w)
  <2>1. UNCHANGED upstream
    BY <1>8, LeaseLeaves
  <2>2. ctxDone[w] => ctxDone'[w]
    BY <1>0, <1>8
       DEF OpenIngress, SubscribeFails, LeaseEnds, CloseIngress, Handler, OpenRegisters, HandlerStops,
           HandlerTeardown, TeardownSteps, Unsubscribe, CancelStream, CloseConn, CloseBegins, CloseSteps,
           CloseSnapshot, CloseTearsDown, CloseTornDown, CloseReturns, CloseOnly, CtxOK
  <2>3. teardown[w[1]].pc = "done" => teardown'[w[1]].pc = "done"
    BY <1>0, <1>8
       DEF OpenIngress, SubscribeFails, LeaseEnds, CloseIngress, Handler, OpenRegisters, HandlerStops,
           HandlerTeardown, TeardownSteps, Unsubscribe, CancelStream, CloseConn, CloseBegins, CloseSteps,
           CloseSnapshot, CloseTearsDown, CloseTornDown, CloseReturns, CloseOnly, Teardown, Torndown,
           TeardownOK
  <2> QED
    BY <1>1, <1>2, <1>3, <2>1, <2>2, <2>3 DEF UpstreamLive
<1> QED
  BY <1>4, <1>5, <1>6, <1>7, <1>8 DEF Next

\* What a step may do that leaves the line as it is.
LEMMA WayStays ==
  ASSUME NEW g \in Leases, NEW r \in Replies, NEW w, w = <<g, r>>, OnTheWay(g, r),
         Active(g, r)' => Active(g, r), UpstreamLive(w)' => UpstreamLive(w), Open(g)' => Open(g),
         Line(g, r)' = Line(g, r), upstream'[w].got = upstream[w].got,
         caller'[r].data = caller[r].data, caller'[r].ended = caller[r].ended
  PROVE  OnTheWay(g, r)'
BY DEF OnTheWay, Good

\* The pieces of a line that stay.
LEMMA LineStays ==
  ASSUME NEW g \in Leases, NEW r \in Replies, NEW w, w = <<g, r>>
  PROVE  /\ worker'[w] = worker[w] => Hand(w)' = Hand(w)
         /\ worker[w].pc # "send" /\ worker'[w].pc # "send" => Hand(w)' = Hand(w)
         /\ dispatcher'[g] = dispatcher[g] => Held(g, r)' = Held(g, r)
         /\ Hand(w)' = Hand(w) /\ frames'[w] = frames[w] /\ Held(g, r)' = Held(g, r) =>
              Taken(g, r)' = Taken(g, r)
         /\ pending'[g] = pending[g] /\ (Open(g)' <=> Open(g)) => Subject(g)' = Subject(g)
         /\ Taken(g, r)' = Taken(g, r) /\ Subject(g)' = Subject(g) => Line(g, r)' = Line(g, r)
<1>1. /\ worker'[w] = worker[w] => Hand(w)' = Hand(w)
      /\ worker[w].pc # "send" /\ worker'[w].pc # "send" => Hand(w)' = Hand(w)
  BY DEF Hand
<1>2. dispatcher'[g] = dispatcher[g] => Held(g, r)' = Held(g, r)
  BY DEF Held
<1>3. Hand(w)' = Hand(w) /\ frames'[w] = frames[w] /\ Held(g, r)' = Held(g, r) =>
        Taken(g, r)' = Taken(g, r)
  BY DEF Taken
<1>4. pending'[g] = pending[g] /\ (Open(g)' <=> Open(g)) => Subject(g)' = Subject(g)
  BY DEF Subject
<1>5. Taken(g, r)' = Taken(g, r) /\ Subject(g)' = Subject(g) => Line(g, r)' = Line(g, r)
  BY DEF Line
<1> QED
  BY <1>1, <1>2, <1>3, <1>4, <1>5

\* Nothing of a call that was not made is on its way.
LEMMA NothingTaken ==
  ASSUME Typed, CallInv, MadeInv, NEW g \in Leases, NEW r \in Replies,
         worker[<<g, r>>].pc = "none", ~Making(g, r)
  PROVE  Taken(g, r) = <<>>
<1>1. Owned(g, r) /\ dispatcher[g].pc \in DispatcherPC
  BY DEF MadeInv, Typed, DispatcherOK
<1>2. Hand(<<g, r>>) = <<>> /\ frames[<<g, r>>] = <<>>
  BY <1>1 DEF Hand, Owned
<1>3. Held(g, r) = <<>>
  BY <1>1 DEF Held, Owned, Making, DispatcherPC
<1> QED
  BY <1>2, <1>3 DEF Taken

\* A Call before anything else.
LEMMA CallOnWay ==
  ASSUME Typed, CallInv, MadeInv, NEW g \in Leases, NEW r \in Replies, NEW f \in Frame,
         GotFirst(<<g, r>>), f.reply = r, f.type = "Call", ~caller[r].called, ~caller[r].ended,
         NEW q, q = pending[g] \/ q = Append(pending[g], f) \/ q = <<>>,
         NEW e \in BOOLEAN, NEW whole \in BOOLEAN
  PROVE  /\ Taken(g, r) = <<>>
         /\ Good(<<>> \o View(q, r), Len(upstream[<<g, r>>].got), caller[r].data, e, whole)
<1>1. CallFirst(g, r) /\ worker[<<g, r>>].pc = "none" /\ ~Making(g, r)
  BY DEF MadeInv, CallInv, MadeOnce
<1>2. upstream[<<g, r>>].got = <<>> /\ caller[r].data = 0
  BY <1>1 DEF GotFirst, CallFirst
<1>3. PICK p \in Seq(Frame) : p = pending[g]
  BY DEF Typed, PendingOK
<1>4. \A i \in 1..Len(p) : ~(p[i].reply = r /\ p[i].type \in {"Data", "End"})
  BY <1>1, <1>3 DEF CallFirst, Behind
<1>5. q \in Seq(Frame) /\ \A i \in 1..Len(q) : ~(q[i].reply = r /\ q[i].type \in {"Data", "End"})
  <2>1. CASE q = Append(p, f)
    <3>1. /\ q \in Seq(Frame) /\ q[Len(p) + 1] = f /\ \A i \in 1..Len(p) : q[i] = p[i]
          /\ \A i \in 1..Len(q) : i \in 1..Len(p) \/ i = Len(p) + 1
      BY <2>1, OneMore
    <3> QED
      BY <1>4, <3>1
  <2>2. CASE q = p
    BY <1>4, <2>2
  <2>3. CASE q = <<>>
    BY <2>3
  <2> QED
    BY <1>3, <2>1, <2>2, <2>3
<1>6. /\ View(q, r) \in Seq(VFrame) /\ Len(View(q, r)) = Len(q)
      /\ \A i \in 1..Len(q) : View(q, r)[i] = Heard(q[i], r) /\ q[i] \in Frame
  BY <1>5, ViewOf
<1>7. \A i \in 1..Len(View(q, r)) : View(q, r)[i].type \notin {"Data", "End"}
  BY <1>5, <1>6, HeardFrame
<1>8. <<>> \o View(q, r) = View(q, r)
  BY <1>6, ConcatEmptySeq
<1>9. Good(View(q, r), 0, 0, e, whole)
  BY <1>6, <1>7, GoodNone
<1>10. Taken(g, r) = <<>>
  BY <1>1, NothingTaken
<1> QED
  BY <1>2, <1>8, <1>9, <1>10

\* The callers keep the lines.
LEMMA CallerOnWay ==
  ASSUME Typed, CallInv, MadeInv, NEW g \in Leases, NEW r \in Replies,
         GotFirst(<<g, r>>), OnTheWay(g, r), NEW s \in Replies, Caller(s)
  PROVE  OnTheWay(g, r)'
<1> DEFINE w == <<g, r>>
<1>0. caller[r].data \in Nat /\ caller[r].ended \in BOOLEAN /\ caller[r].called \in BOOLEAN
      /\ Open(g) \in BOOLEAN /\ Len(upstream[w].got) \in Nat /\ pending[g] \in Seq(Frame)
      /\ caller[r] \in [kind : {"stream", "unary"}, called : BOOLEAN, data : 0..MaxFrames,
                        pings : 0..MaxFrames, ended : BOOLEAN]
  BY Counts DEF Typed, PendingOK, CallerOK
<1>1. CASE CallerRequests(s)
  <2>1. /\ UNCHANGED <<pending, closing, teardown, dispatcher, ctxDone, frames, upstream>>
        /\ r # s => caller'[r] = caller[r]
        /\ caller'[s] = [caller[s] EXCEPT !.called = TRUE]
        /\ \/ worker'[w] = worker[w]
           \/ worker[w].pc = "none" /\ worker'[w].pc \in {"invoke", "respond"}
    BY <1>1, RequestAlone
  <2>2. caller'[r].data = caller[r].data /\ caller'[r].ended = caller[r].ended
    BY <1>0, <2>1
  <2>3. (Open(g)' <=> Open(g)) /\ (UpstreamLive(w)' <=> UpstreamLive(w)) /\ (Making(g, r)' <=> Making(g, r))
    BY <2>1 DEF Open, Torndown, NatsUp, UpstreamLive, ConnOpen, Making
  <2>4. Hand(w)' = Hand(w)
    BY <2>1, LineStays
  <2>5. Line(g, r)' = Line(g, r)
    BY <2>1, <2>3, <2>4, LineStays
  <2>6. Active(g, r)' => Active(g, r)
    BY <2>1, <2>3 DEF Active, Delivering
  <2> QED
    BY <2>1, <2>2, <2>3, <2>5, <2>6, WayStays
<1>2. CASE ~CallerRequests(s)
  <2>1. PICK f \in Frame :
          /\ f.reply = s
          /\ pending'[g] = IF Subscribed(g) THEN Append(pending[g], f) ELSE pending[g]
          /\ UNCHANGED <<closing, lease, teardown, dispatcher, worker, ctxDone, frames, upstream>>
          /\ r # s => caller'[r] = caller[r]
          /\ f.type = "Call" =>
               /\ ~caller[s].called /\ ~caller[s].ended
               /\ caller'[s] = [caller[s] EXCEPT !.called = TRUE]
          /\ f.type = "Data" =>
               /\ ~caller[s].ended /\ f.n = caller[s].data + 1
               /\ caller'[s] = [caller[s] EXCEPT !.data = caller[s].data + 1]
          /\ f.type = "End" => caller'[s] = [caller[s] EXCEPT !.ended = TRUE]
          /\ f.type = "Ping" => caller'[s] = [caller[s] EXCEPT !.pings = caller[s].pings + 1]
    BY <1>2, CallerActs
  <2>2. f.type \in {"Call", "Data", "End", "Ping"}
    BY DEF Frame
  <2>3. (Open(g)' <=> Open(g)) /\ (UpstreamLive(w)' <=> UpstreamLive(w)) /\ (Making(g, r)' <=> Making(g, r))
    BY <2>1 DEF Open, Torndown, NatsUp, UpstreamLive, ConnOpen, Making
  <2>4. Taken(g, r)' = Taken(g, r)
    BY <2>1, LineStays
  <2> SUFFICES ASSUME Active(g, r)', UpstreamLive(w)'
               PROVE  Good(Line(g, r)', Len(upstream[w].got), caller'[r].data, caller'[r].ended, Open(g))
    <3>1. Open(g)' = Open(g) /\ upstream'[w].got = upstream[w].got
      BY <2>1 DEF Open, Torndown, NatsUp
    <3> QED
      BY <3>1 DEF OnTheWay
  <2>5. lease[g] # "none"
    <3>1. ASSUME lease[g] = "none"
          PROVE  FALSE
      <4>1. pending[g] = <<>> /\ dispatcher[g].pc = "idle" /\ worker[w].pc = "none" /\ ~Subscribed(g)
        BY <3>1 DEF MadeInv, Opened, Subscribed
      <4>2. ~Waits(pending'[g], r) /\ ~Making(g, r)
        BY <2>1, <4>1, WaitsEmpty DEF Making
      <4> QED
        BY <2>1, <2>3, <4>1, <4>2 DEF Active, Delivering
    <3> QED
      BY <3>1
  <2>6. Open(g) => Subscribed(g)
    BY <2>5 DEF Open, Subscribed, Torndown
  <2>7. PICK P \in Seq(VFrame) : P = Taken(g, r)
    BY LineTyped
  <2>8. PICK V \in Seq(VFrame) : V = View(Subject(g), r)
    BY LineTyped
  <2>9. PICK h \in VFrame : h = Heard(f, r)
    BY HeardFrame
  <2>10. /\ Line(g, r) = P \o V /\ P \o V \in Seq(VFrame)
         /\ Line(g, r)' = P \o View(Subject(g)', r)
    BY <2>4, <2>7, <2>8, ConcatProperties DEF Line
  <2>11. /\ Open(g) => Subject(g) = pending[g] /\ Subject(g)' = Append(pending[g], f)
         /\ ~Open(g) => Subject(g) = <<>> /\ Subject(g)' = <<>>
    BY <2>1, <2>3, <2>6 DEF Subject
  <2>12. Open(g) => Line(g, r)' = Append(P \o V, h)
    <3>1. ASSUME Open(g)
          PROVE  Line(g, r)' = Append(P \o V, h)
      <4>1. View(Subject(g)', r) = Append(V, h)
        BY <1>0, <2>8, <2>9, <2>11, <3>1, ViewAppend
      <4>2. P \o Append(V, h) = Append(P \o V, h)
        BY Joined
      <4> QED
        BY <2>10, <4>1, <4>2
    <3> QED
      BY <3>1
  <2>13. ~Open(g) => Line(g, r)' = P \o V
    BY <2>8, <2>10, <2>11
  <2>14. CASE s = r /\ f.type = "Call"
    <3>1. PICK q : q = Subject(g)' /\ (q = Append(pending[g], f) \/ q = <<>>)
      BY <2>11
    <3>2. ~caller[r].called /\ ~caller[r].ended /\ f.reply = r
          /\ caller'[r].data = caller[r].data
      BY <1>0, <2>1, <2>14
    <3>3. PICK e \in BOOLEAN : e = caller'[r].ended
      BY <1>0, <2>1, <2>14
    <3>4. /\ Taken(g, r) = <<>>
          /\ Good(<<>> \o View(q, r), Len(upstream[<<g, r>>].got), caller[r].data, e, Open(g))
      BY <1>0, <2>14, <3>1, <3>2, CallOnWay
    <3>5. P = <<>> /\ Line(g, r)' = <<>> \o View(q, r)
      BY <2>7, <2>10, <3>1, <3>4
    <3> QED
      BY <3>2, <3>3, <3>4, <3>5
  <2>15. CASE ~(s = r /\ f.type = "Call")
    <3>1. Good(P \o V, Len(upstream[w].got), caller[r].data, caller[r].ended, Open(g))
      <4>1. Waits(pending'[g], r) => Waits(pending[g], r)
        <5>1. ~IsCall(f, r)
          BY <2>1, <2>15 DEF IsCall
        <5>2. Waits(Append(pending[g], f), r) => Waits(pending[g], r)
          BY <1>0, <5>1, WaitsAppend
        <5> QED
          BY <2>1, <5>2
      <4>2. Active(g, r)
        BY <2>1, <2>3, <4>1 DEF Active
      <4> QED
        BY <2>3, <2>10, <4>2 DEF OnTheWay
    <3> DEFINE a == Len(upstream[w].got)
    <3>a. a \in Nat
      BY <1>0
    <3>c. PICK d \in Nat, e \in BOOLEAN : d = caller[r].data /\ e = caller[r].ended
      BY <1>0
    <3>l. PICK L \in Seq(VFrame) : L = P \o V
      BY <2>10
    <3>g. Open(g) = TRUE \/ Open(g) = FALSE
      BY <1>0
    <3> HIDE DEF a
    <3>2. /\ Open(g) => Good(L, a, d, e, TRUE) /\ Line(g, r)' = Append(L, h)
          /\ ~Open(g) => Good(L, a, d, e, FALSE) /\ Line(g, r)' = L
      BY <2>12, <2>13, <3>1, <3>c, <3>l, <3>g DEF a
    <3>3. CASE s # r
      <4>1. h.type \notin {"Data", "End"} /\ caller'[r].data = d /\ caller'[r].ended = e
        BY <2>1, <2>9, <3>3, <3>c, HeardFrame
      <4>2. Open(g) => Good(Append(L, h), a, d, e, TRUE)
        BY <3>2, <3>a, <4>1, GoodMore
      <4>3. Good(Line(g, r)', a, d, e, Open(g))
        BY <3>2, <3>g, <4>2
      <4> QED
        BY <4>1, <4>3 DEF a
    <3>4. CASE s = r /\ f.type = "Data"
      <4>1. h = f /\ ~e /\ f.n = d + 1 /\ caller'[r].data = d + 1 /\ caller'[r].ended = e
        BY <1>0, <2>1, <2>9, <3>4, <3>c, HeardFrame
      <4>2. Open(g) => Good(Append(L, h), a, d + 1, e, TRUE)
        BY <3>2, <3>4, <3>a, <4>1, GoodMore
      <4>3. ~Open(g) => Good(L, a, d + 1, e, FALSE)
        BY <3>2, <3>a, <4>1, GoodUnsent
      <4>4. Good(Line(g, r)', a, d + 1, e, Open(g))
        BY <3>2, <3>g, <4>2, <4>3
      <4> QED
        BY <4>1, <4>4 DEF a
    <3>5. CASE s = r /\ f.type = "End"
      <4>1. h = f /\ caller'[r].data = d /\ caller'[r].ended = TRUE
        BY <1>0, <2>1, <2>9, <3>5, <3>c, HeardFrame
      <4>2. Open(g) => Good(Append(L, h), a, d, TRUE, TRUE)
        BY <3>2, <3>5, <3>a, <4>1, GoodMore
      <4>3. ~Open(g) => Good(L, a, d, TRUE, FALSE)
        BY <3>2, <3>a, GoodUnsent
      <4>4. Good(Line(g, r)', a, d, TRUE, Open(g))
        BY <3>2, <3>g, <4>2, <4>3
      <4> QED
        BY <4>1, <4>4 DEF a
    <3>6. CASE s = r /\ f.type = "Ping"
      <4>1. h.type \notin {"Data", "End"} /\ caller'[r].data = d /\ caller'[r].ended = e
        BY <1>0, <2>1, <2>9, <3>6, <3>c, HeardFrame
      <4>2. Open(g) => Good(Append(L, h), a, d, e, TRUE)
        BY <3>2, <3>a, <4>1, GoodMore
      <4>3. Good(Line(g, r)', a, d, e, Open(g))
        BY <3>2, <3>g, <4>2
      <4> QED
        BY <4>1, <4>3 DEF a
    <3> QED
      BY <2>2, <2>15, <3>3, <3>4, <3>5, <3>6
  <2> QED
    BY <2>14, <2>15
<1> QED
  BY <1>1, <1>2

\* The dispatcher takes the first frame, or drops it.
LEMMA FirstOnWay ==
  ASSUME Typed, CallInv, EnteredInv, MadeInv, NEW g \in Leases, NEW r \in Replies,
         OnTheWay(g, r), OnStreamFrame(g)
  PROVE  OnTheWay(g, r)'
<1> DEFINE w == <<g, r>>
<1>1. PICK q \in Seq(Frame), f \in Frame :
        /\ q = pending[g] /\ q # <<>> /\ f = Head(q)
        /\ dispatcher[g].pc = "idle" /\ NatsUp
        /\ pending'[g] = Tail(q) /\ dispatcher'[g].frame = f
        /\ dispatcher'[g].pc \in {"idle", "lookup", "create"}
        /\ dispatcher'[g].pc = "create" => f.type = "Call"
        /\ IF Torndown(g) THEN dispatcher'[g].pc = "idle"
           ELSE dispatcher'[g].pc = "idle" => f.reply \notin streamCtxs[g] /\ f.type # "Call"
        /\ UNCHANGED <<caller, closing, teardown, streamCtxs, worker, ctxDone, frames, upstream>>
  BY FirstFrame
<1>2. /\ Open(g)' <=> Open(g)
      /\ UpstreamLive(w)' <=> UpstreamLive(w)
      /\ Hand(w)' = Hand(w) /\ frames'[w] = frames[w] /\ Held(g, r) = <<>>
  BY <1>1, LineStays DEF Open, Torndown, NatsUp, UpstreamLive, ConnOpen, Held
<1>3. /\ Waits(Tail(q), r) => Waits(q, r)
      /\ IsCall(f, r) => Waits(q, r)
  BY <1>1, WaitsTail
<1>4. Active(g, r)' => Active(g, r)
  <2>1. Making(g, r)' => IsCall(f, r)
    BY <1>1 DEF Making, IsCall
  <2> QED
    BY <1>1, <1>3, <2>1 DEF Active
<1>s. Line(g, r)' = Line(g, r) => OnTheWay(g, r)'
  BY <1>1, <1>2, <1>4, WayStays
<1>5. CASE Torndown(g)
  <2>1. Held(g, r)' = Held(g, r) /\ Subject(g)' = Subject(g)
    BY <1>1, <1>2, <1>5 DEF Held, Subject, Open
  <2>2. Line(g, r)' = Line(g, r)
    BY <1>2, <2>1, LineStays
  <2> QED
    BY <1>s, <2>2
<1>6. CASE ~Torndown(g)
  <2>1. Open(g) /\ Subject(g) = q /\ Subject(g)' = Tail(q)
    BY <1>1, <1>2, <1>6 DEF Open, Subject
  <2>2. PICK P \in Seq(VFrame) : P = Hand(w) \o frames[w]
    BY LineTyped
  <2>3. PICK V \in Seq(VFrame) : V = View(q, r)
    BY ViewOf
  <2>4. V # <<>> /\ Head(V) = Heard(f, r) /\ Tail(V) = View(Tail(q), r)
    BY <1>1, <2>3, ViewTail
  <2>5. Taken(g, r) = P /\ Line(g, r) = P \o V
    <3>1. P \o <<>> = P
      BY ConcatEmptySeq
    <3> QED
      BY <1>2, <2>1, <2>2, <2>3, <3>1 DEF Taken, Line
  <2>6. Line(g, r)' = (P \o Held(g, r)') \o Tail(V)
    BY <1>2, <2>1, <2>2, <2>4 DEF Line, Taken
  <2>7. CASE dispatcher'[g].pc # "idle" /\ f.reply = r
    <3>1. Held(g, r)' = <<f>> /\ Heard(f, r) = f /\ f \in VFrame
      BY <1>1, <2>7, HeardFrame DEF Held
    <3>2. P \o <<f>> = Append(P, f)
      BY <3>1, AppendIsConcat
    <3>3. Append(P, f) \o Tail(V) = P \o V
      BY <2>4, <3>1, Joined
    <3>4. Line(g, r)' = Line(g, r)
      BY <2>5, <2>6, <3>1, <3>2, <3>3
    <3> QED
      BY <1>s, <3>4
  <2>8. CASE ~(dispatcher'[g].pc # "idle" /\ f.reply = r)
    <3>1. Held(g, r)' = <<>>
      BY <1>1, <2>8 DEF Held
    <3>2. Line(g, r)' = P \o Tail(V)
      <4>1. P \o <<>> = P
        BY ConcatEmptySeq
      <4> QED
        BY <2>6, <3>1, <4>1
    <3> SUFFICES ASSUME Active(g, r)', UpstreamLive(w)
                 PROVE  Good(Line(g, r)', Len(upstream[w].got), caller[r].data, caller[r].ended, Open(g))
      <4>1. Open(g)' = Open(g)
        BY <1>1 DEF Open, Torndown, NatsUp
      <4> QED
        BY <1>1, <1>2, <4>1 DEF OnTheWay
    <3>3. Good(P \o V, Len(upstream[w].got), caller[r].data, caller[r].ended, Open(g))
      BY <1>4, <2>5 DEF OnTheWay
    <3>4. Head(V).type \notin {"Data", "End"}
      <4>1. CASE f.reply # r
        BY <2>4, <4>1, HeardFrame
      <4>2. CASE f.reply = r
        <5>1. dispatcher'[g].pc = "idle" /\ r \notin streamCtxs[g] /\ Head(V) = f
          BY <1>1, <1>6, <2>4, <2>8, <4>2, HeardFrame
        <5>2. ASSUME f.type \in {"Data", "End"}
              PROVE  FALSE
          <6>1. Behind(q, r, caller[r].called, caller[r].ended)
            BY <1>1 DEF MadeInv, CallFirst
          <6>2. ~Waits(q, r)
            BY <1>1, <4>2, <5>2, <6>1, BehindTail
          <6>3. ~Making(g, r)'
            BY <5>1 DEF Making
          <6>4. worker[w].pc \in Delivering
            BY <1>1, <1>3, <6>2, <6>3 DEF Active
          <6>5. ctxDone[w]
            BY <1>6, <5>1, <6>4 DEF EnteredInv, Entered, Delivering
          <6> QED
            BY <6>5 DEF UpstreamLive
        <5> QED
          BY <5>1, <5>2
      <4> QED
        BY <4>1, <4>2
    <3>5. /\ Len(upstream[w].got) \in Nat /\ caller[r].data \in Nat /\ caller[r].ended \in BOOLEAN
          /\ Open(g) \in BOOLEAN
      BY Counts
    <3> QED
      BY <2>4, <3>2, <3>3, <3>4, <3>5, GoodDrop
  <2> QED
    BY <2>7, <2>8
<1> QED
  BY <1>5, <1>6

\* The dispatcher keeps the lines: with one lease, it finds the worker of a call that is
\* delivered, and no other.
LEMMA DispatcherOnWay ==
  ASSUME OneLease, Typed, CallInv, EnteredInv, EntryKeptInv, MadeInv, [Next]_vars,
         NEW g \in Leases, NEW r \in Replies, OnTheWay(g, r), Dispatcher(g)
  PROVE  OnTheWay(g, r)'
<1> DEFINE w == <<g, r>>
<1>0. /\ DispatcherOK /\ WorkerOK /\ FramesOK /\ w \in Worker /\ Owned(g, r)
      /\ CallWaits(g, r) /\ MadeOnce(g, r) /\ EntryKept(g, r)
  BY DEF Typed, Worker, MadeInv, CallInv, EntryKeptInv
<1>1. UNCHANGED <<caller, closing, teardown, upstream>>
      /\ (~OnStreamFrame(g) => UNCHANGED pending)
  BY DispatcherMoves
<1>2. (Open(g)' <=> Open(g)) /\ (UpstreamLive(w)' => UpstreamLive(w))
  BY <1>0, <1>1, LiveBefore DEF Open, Torndown, NatsUp
<1>3. ASSUME UNCHANGED pending, Taken(g, r)' = Taken(g, r), Active(g, r)' => Active(g, r)
      PROVE  OnTheWay(g, r)'
  <2>1. Line(g, r)' = Line(g, r)
    BY <1>2, <1>3, LineStays
  <2> QED
    BY <1>1, <1>2, <1>3, <2>1, WayStays
<1>4. ASSUME ~Active(g, r)' \/ ~UpstreamLive(w)'
      PROVE  OnTheWay(g, r)'
  BY <1>4 DEF OnTheWay
<1>5. CASE OnStreamFrame(g)
  BY <1>5, FirstOnWay
<1>6. CASE FindWorker(g)
  <2> DEFINE found == streams[dispatcher[g].frame.reply]
  <2>1. /\ dispatcher[g].pc = "lookup" /\ UNCHANGED <<pending, worker, frames>>
        /\ dispatcher' = [dispatcher EXCEPT ![g].at = found,
                                            ![g].pc = IF found = NoLease THEN "idle" ELSE "put"]
    BY <1>6 DEF FindWorker, DispatcherOnly
  <2>2. Hand(w)' = Hand(w) /\ frames'[w] = frames[w] /\ ~Making(g, r)'
    BY <1>0, <2>1, LineStays DEF Making, DispatcherOK
  <2>3. Active(g, r)' => Active(g, r)
    BY <2>1, <2>2 DEF Active
  <2>4. CASE found = NoLease /\ dispatcher[g].frame.reply = r
    <3>1. worker[w].pc # "none" /\ ~Waits(pending[g], r)
      BY <1>0, <2>1, <2>4 DEF Owned, CallWaits
    <3>2. worker[w].pc \notin Delivering
      BY <1>0, <2>4, IngressAssumption DEF EntryKept, Delivering
    <3>3. ~Active(g, r)'
      BY <2>1, <2>2, <3>1, <3>2 DEF Active
    <3> QED
      BY <1>4, <3>3
  <2>5. CASE ~(found = NoLease /\ dispatcher[g].frame.reply = r)
    <3>1. Held(g, r)' = Held(g, r)
      BY <1>0, <2>1, <2>5 DEF Held, DispatcherOK
    <3>2. Taken(g, r)' = Taken(g, r)
      BY <2>2, <3>1, LineStays
    <3> QED
      BY <1>3, <2>1, <2>3, <3>2
  <2> QED
    BY <2>4, <2>5
<1>7. CASE NewStream(g)
  <2>1. /\ dispatcher[g].pc = "create" /\ UNCHANGED <<pending, worker, frames>>
        /\ dispatcher'[g].pc \in {"idle", "add"} /\ dispatcher'[g].frame = dispatcher[g].frame
    BY <1>0, <1>7 DEF NewStream, DispatcherOnly, DispatcherOK
  <2>2. Hand(w)' = Hand(w) /\ frames'[w] = frames[w]
    BY <2>1, LineStays
  <2>3. CASE dispatcher'[g].pc = "idle" /\ dispatcher[g].frame.reply = r
    <3>1. worker[w].pc = "none" /\ ~Waits(pending[g], r) /\ ~Making(g, r)'
      BY <1>0, <2>1, <2>3 DEF Making, MadeOnce, CallWaits
    <3>2. ~Active(g, r)'
      BY <2>1, <3>1 DEF Active, Delivering
    <3> QED
      BY <1>4, <3>2
  <2>4. CASE ~(dispatcher'[g].pc = "idle" /\ dispatcher[g].frame.reply = r)
    <3>1. Held(g, r)' = Held(g, r) /\ (Making(g, r)' => Making(g, r))
      BY <2>1, <2>4 DEF Held, Making
    <3>2. Taken(g, r)' = Taken(g, r) /\ (Active(g, r)' => Active(g, r))
      BY <2>1, <2>2, <3>1, LineStays DEF Active
    <3> QED
      BY <1>3, <2>1, <3>2
  <2> QED
    BY <2>3, <2>4
<1>8. CASE AddStream(g) \/ IndexWorker(g)
  <2>1. /\ dispatcher[g].pc \in {"add", "index"} /\ UNCHANGED <<pending, worker, frames>>
        /\ dispatcher'[g].pc \in {"index", "begin"} /\ dispatcher'[g].frame = dispatcher[g].frame
    BY <1>0, <1>8 DEF AddStream, IndexWorker, DispatcherOnly, DispatcherOK
  <2>2. Hand(w)' = Hand(w) /\ frames'[w] = frames[w]
    BY <2>1, LineStays
  <2>3. Held(g, r)' = Held(g, r) /\ (Making(g, r)' => Making(g, r))
    BY <2>1 DEF Held, Making
  <2>4. Taken(g, r)' = Taken(g, r) /\ (Active(g, r)' => Active(g, r))
    BY <2>1, <2>2, <2>3, LineStays DEF Active
  <2> QED
    BY <1>3, <2>1, <2>4
<1>9. CASE StartWorker(g)
  <2>1. /\ dispatcher[g].pc = "begin" /\ UNCHANGED <<pending, frames>>
        /\ dispatcher'[g].pc = "put" /\ dispatcher'[g].frame = dispatcher[g].frame
    BY <1>0, <1>9 DEF StartWorker, DispatcherOK
  <2>2. \/ dispatcher[g].frame.reply # r /\ worker'[w] = worker[w]
        \/ dispatcher[g].frame.reply = r /\ worker'[w].pc = "select"
    BY <1>0, <1>9 DEF StartWorker, WorkerOK
  <2>3. dispatcher[g].frame.reply = r => worker[w].pc = "none" /\ Making(g, r)
    BY <1>0, <2>1 DEF MadeOnce, Making
  <2>4. Hand(w)' = Hand(w) /\ frames'[w] = frames[w]
    BY <2>1, <2>2, <2>3, LineStays
  <2>5. Held(g, r)' = Held(g, r) /\ ~Making(g, r)'
    BY <2>1 DEF Held, Making
  <2>6. Taken(g, r)' = Taken(g, r) /\ (Active(g, r)' => Active(g, r))
    BY <2>1, <2>2, <2>3, <2>4, <2>5, LineStays DEF Active
  <2> QED
    BY <1>3, <2>1, <2>6
<1>10. CASE PutFrame(g)
  <2>1. /\ dispatcher[g].pc = "put" /\ UNCHANGED <<pending, worker>> /\ dispatcher'[g].pc = "idle"
        /\ dispatcher[g].at = g /\ dispatcher[g].frame \in Frame
    BY <1>0, <1>10 DEF PutFrame, DispatcherOnly, DispatcherOK, Owned
  <2>2. Hand(w)' = Hand(w) /\ Held(g, r)' = <<>> /\ ~Making(g, r)'
    BY <2>1, LineStays DEF Held, Making
  <2>3. Active(g, r)' => Active(g, r)
    BY <2>1, <2>2 DEF Active
  <2>4. CASE dispatcher[g].frame.reply # r
    <3>1. frames'[w] = frames[w] /\ Held(g, r)' = Held(g, r)
      BY <1>0, <1>10, <2>1, <2>2, <2>4 DEF PutFrame, FramesOK, Held
    <3>2. Taken(g, r)' = Taken(g, r)
      BY <2>2, <3>1, LineStays
    <3> QED
      BY <1>3, <2>1, <2>3, <3>2
  <2>5. CASE dispatcher[g].frame.reply = r
    <3>1. PICK f \in VFrame : f = dispatcher[g].frame /\ Held(g, r) = <<f>>
      BY <2>1, <2>5, ViewFrames DEF Held
    <3>2. \/ frames'[w] = Append(frames[w], f)
          \/ ctxDone[w]
      BY <1>0, <1>10, <2>1, <2>5, <3>1 DEF PutFrame, FramesOK
    <3>3. CASE ctxDone[w]
      BY <1>2, <1>4, <3>3 DEF UpstreamLive
    <3>4. CASE frames'[w] = Append(frames[w], f)
      <4>1. PICK A \in Seq(VFrame), B \in Seq(VFrame) : A = Hand(w) /\ B = frames[w]
        BY LineTyped
      <4>2. A \o B \in Seq(VFrame) /\ A \o Append(B, f) = Append(A \o B, f)
        BY Joined, ConcatProperties
      <4>3. Append(A \o B, f) \in Seq(VFrame) /\ (A \o B) \o <<f>> = Append(A \o B, f)
        BY <4>2, OneMore, AppendIsConcat
      <4>4. Append(A \o B, f) \o <<>> = Append(A \o B, f)
        BY <4>3, ConcatEmptySeq
      <4>5. Taken(g, r) = Append(A \o B, f)
        BY <3>1, <4>1, <4>3 DEF Taken
      <4>6. Taken(g, r)' = Append(A \o B, f)
        BY <2>2, <3>4, <4>1, <4>2, <4>4 DEF Taken
      <4> QED
        BY <1>3, <2>1, <2>3, <4>5, <4>6
    <3> QED
      BY <3>2, <3>3, <3>4
  <2> QED
    BY <2>4, <2>5
<1> QED
  BY <1>5, <1>6, <1>7, <1>8, <1>9, <1>10 DEF Dispatcher

\* What a step may do that gives the app nothing.
LEMMA GotStays ==
  ASSUME NEW w, GotFirst(w), upstream'[w].got = upstream[w].got, upstream'[w].half = upstream[w].half,
         caller[w[2]].data \in Nat, caller'[w[2]].data \in Nat, Len(upstream[w].got) \in Nat,
         caller'[w[2]].data >= caller[w[2]].data,
         caller[w[2]].ended => caller'[w[2]].ended /\ caller'[w[2]].data = caller[w[2]].data,
         UpstreamLive(w)' => UpstreamLive(w), worker'[w].pc = "none" => worker[w].pc = "none"
  PROVE  GotFirst(w)'
BY DEF GotFirst

\* The app gets a message.
LEMMA AppOnWay ==
  ASSUME Typed, [Next]_vars, NEW g \in Leases, NEW r \in Replies,
         NEW w, w = <<g, r>>, GotFirst(w), OnTheWay(g, r), AppReceives(w)
  PROVE  GotFirst(w)' /\ OnTheWay(g, r)'
<1>0. w \in Worker /\ w[2] = r /\ WorkerOK /\ UpstreamOK
  BY DEF Worker, Typed
<1>c. /\ Len(upstream[w].got) \in Nat /\ caller[r].data \in Nat /\ caller[r].ended \in BOOLEAN
      /\ Open(g) \in BOOLEAN /\ upstream[w].got \in Seq(1..MaxFrames)
  BY Counts
<1>1. /\ worker[w].pc = "send" /\ UpstreamLive(w)
      /\ upstream' = [upstream EXCEPT ![w].got = Append(@, worker[w].n)]
      /\ worker' = [worker EXCEPT ![w].pc = "select", ![w].n = 0]
      /\ UNCHANGED <<pending, caller, closing, teardown, dispatcher, frames>>
  BY DEF AppReceives, AppOnly, natsVars, leaseVars
<1>2. /\ upstream'[w].got = Append(upstream[w].got, worker[w].n) /\ upstream'[w].half = upstream[w].half
      /\ worker'[w].pc = "select"
  BY <1>0, <1>1 DEF WorkerOK, UpstreamOK
<1>3. UpstreamLive(w)' => UpstreamLive(w)
  BY <1>0, LiveBefore
<1> DEFINE a == Len(upstream[w].got)
<1>4. PICK d \in VFrame : d = [reply |-> w[2], type |-> "Data", n |-> worker[w].n]
  BY <1>0 DEF WorkerOK, VFrame
<1>5. PICK B \in Seq(VFrame), H \in Seq(VFrame), V \in Seq(VFrame) :
        B = frames[w] /\ H = Held(g, r) /\ V = View(Subject(g), r)
  BY LineTyped
<1>6. Hand(w) = <<d>> /\ Hand(w)' = <<>>
  BY <1>1, <1>2, <1>4 DEF Hand
<1>7. PICK A \in Seq(VFrame) : A = <<d>> \o B
  <2>1. <<d>> \in Seq(VFrame)
    OBVIOUS
  <2>2. <<d>> \o B \in Seq(VFrame)
    BY <2>1, ConcatProperties
  <2> QED
    BY <2>2
<1>8. A # <<>> /\ Head(A) = d /\ Tail(A) = <<>> \o B
  <2>1. <<d>> \in Seq(VFrame) /\ <<d>> # <<>> /\ Head(<<d>>) = d /\ Tail(<<d>>) = <<>>
    OBVIOUS
  <2> QED
    BY <1>7, <2>1, Joined
<1>9. PICK L \in Seq(VFrame) : L = Line(g, r)
  BY LineTyped
<1>10. L = (A \o H) \o V
  BY <1>5, <1>6, <1>7, <1>9 DEF Line, Taken
<1>11. L # <<>> /\ Head(L) = d /\ Tail(L) = ((<<>> \o B) \o H) \o V
  <2>1. PICK D \in Seq(VFrame) : D = A \o H
    BY ConcatProperties
  <2>2. L = D \o V
    BY <1>10, <2>1
  <2>3. D # <<>> /\ Head(D) = Head(A) /\ Tail(D) = Tail(A) \o H
    BY <1>8, <2>1, Joined, ViewFrames
  <2>4. D \o V # <<>> /\ Head(D \o V) = Head(D) /\ Tail(D \o V) = Tail(D) \o V
    BY <2>3, Joined
  <2> QED
    BY <2>2, <1>8, <2>3, <2>4
<1>12. Held(g, r)' = H /\ View(Subject(g), r)' = V /\ frames'[w] = B
  BY <1>1, <1>5 DEF Held, Subject, Open, Torndown, NatsUp
<1>13. Line(g, r)' = Tail(L)
  BY <1>6, <1>11, <1>12 DEF Line, Taken
<1>14. Good(L, a, caller[r].data, caller[r].ended, Open(g)) /\ a \in Nat
  BY <1>1, <1>9, <1>c DEF OnTheWay, Active, Delivering
<1> HIDE DEF a
<1>15. /\ d.n = a + 1 /\ a + 1 <= caller[r].data
       /\ Good(Tail(L), a + 1, caller[r].data, caller[r].ended, Open(g))
  <2>1. PICK top \in Nat, e \in BOOLEAN, whole \in BOOLEAN :
          top = caller[r].data /\ e = caller[r].ended /\ whole = Open(g)
    BY <1>c
  <2>2. L # <<>> /\ Head(L).type = "Data" /\ Good(L, a, top, e, whole) /\ Head(L) = d
    BY <1>4, <1>11, <1>14, <2>1
  <2>3. Head(L).n = a + 1 /\ a + 1 <= top /\ Good(Tail(L), a + 1, top, e, whole)
    BY <1>14, <2>2, GoodLess
  <2> QED
    BY <2>1, <2>2, <2>3
<1>16. /\ Len(upstream'[w].got) = a + 1 /\ upstream'[w].got[a + 1] = a + 1
       /\ \A i \in 1..a : upstream'[w].got[i] = upstream[w].got[i]
       /\ \A i \in 1..Len(upstream'[w].got) : i \in 1..a \/ i = a + 1
  <2>1. worker[w].n \in 1..MaxFrames /\ worker[w].n = a + 1
    BY <1>0, <1>1, <1>4, <1>15 DEF WorkerOK
  <2>2. PICK p \in Seq(1..MaxFrames) : p = upstream[w].got /\ a = Len(p)
    BY <1>c DEF a
  <2>3. PICK n \in 1..MaxFrames : n = worker[w].n
    BY <2>1
  <2>4. upstream'[w].got = Append(p, n)
    BY <1>2, <2>2, <2>3
  <2>5. /\ Len(Append(p, n)) = Len(p) + 1 /\ Append(p, n)[Len(p) + 1] = n
        /\ \A i \in 1..Len(p) : Append(p, n)[i] = p[i]
        /\ \A i \in 1..Len(Append(p, n)) : i \in 1..Len(p) \/ i = Len(p) + 1
    BY OneMore
  <2> QED
    BY <2>1, <2>2, <2>3, <2>4, <2>5
<1>17. GotFirst(w)'
  <2>1. upstream[w].half => caller[r].data = a
    BY <1>0, <1>1 DEF GotFirst, a
  <2>2. ~upstream'[w].half
    BY <1>2, <1>15, <1>c, <2>1 DEF a
  <2>3. \A i \in 1..a : upstream[w].got[i] = i
    BY DEF GotFirst, a
  <2>4. UNCHANGED caller
    BY <1>1
  <2> QED
    BY <1>0, <1>2, <1>15, <1>16, <2>2, <2>3, <2>4 DEF GotFirst
<1>18. OnTheWay(g, r)'
  <2>1. Open(g)' = Open(g) /\ UNCHANGED caller
    BY <1>1 DEF Open, Torndown, NatsUp
  <2> QED
    BY <1>13, <1>15, <1>16, <2>1 DEF OnTheWay
<1> QED
  BY <1>17, <1>18

\* The worker takes a frame.
LEMMA TakesOnWay ==
  ASSUME Typed, MadeInv, [Next]_vars, NEW g \in Leases, NEW r \in Replies,
         NEW w, w = <<g, r>>, GotFirst(w), OnTheWay(g, r), WorkerTakes(w)
  PROVE  GotFirst(w)' /\ OnTheWay(g, r)'
<1>0. w \in Worker /\ w[2] = r /\ WorkerOK /\ UpstreamOK /\ FramesOK
  BY DEF Worker, Typed
<1>c. /\ Len(upstream[w].got) \in Nat /\ caller[r].data \in Nat /\ caller[r].ended \in BOOLEAN
      /\ Open(g) \in BOOLEAN
  BY Counts
<1>1. PICK q \in Seq(Frame), f \in Frame :
        q = frames[w] /\ q # <<>> /\ f = Head(q) /\ f.reply = r /\ frames'[w] = Tail(q)
  <2>1. PICK q \in Seq(Frame) : q = frames[w] /\ q # <<>>
    BY <1>0 DEF FramesOK, WorkerTakes
  <2>2. q[1] \in Frame /\ Head(q) = q[1] /\ 1 \in 1..Len(q)
    BY <2>1, TailOf
  <2>3. q[1].reply = r
    BY <2>1, <2>2 DEF MadeInv, Owned
  <2>4. frames'[w] = Tail(q)
    BY <1>0, <2>1 DEF WorkerTakes, FramesOK
  <2> QED
    BY <2>1, <2>2, <2>3, <2>4
<1>2. /\ worker[w].pc = "select"
      /\ f.type = "Data" => worker'[w] = [pc |-> "send", n |-> f.n, err |-> "nil"]
      /\ f.type # "Data" => worker'[w].pc \in {"select", "drain"}
      /\ upstream'[w].got = upstream[w].got
      /\ upstream'[w].half = (upstream[w].half \/ f.type = "End")
      /\ UNCHANGED <<pending, caller, closing, teardown, dispatcher>>
  <2> DEFINE x == CASE f.type = "Data" -> [pc |-> "send", n |-> f.n, err |-> "nil"]
                    [] f.type = "End"  -> [worker[w] EXCEPT !.pc = "drain"]
                    [] OTHER           -> worker[w]
  <2>1. worker[w].pc = "select" /\ worker' = [worker EXCEPT ![w] = x]
    BY <1>1 DEF WorkerTakes
  <2>2. /\ f.type = "Data" => x = [pc |-> "send", n |-> f.n, err |-> "nil"]
        /\ f.type # "Data" => x.pc \in {"select", "drain"}
    <3>1. CASE f.type = "Data"
      BY <3>1
    <3>2. CASE f.type = "End"
      BY <1>0, <3>2 DEF WorkerOK
    <3>3. CASE f.type \notin {"Data", "End"}
      BY <2>1, <3>3
    <3> QED
      BY <3>1, <3>2, <3>3
  <2>3. worker'[w] = x
    BY <1>0, <2>1 DEF WorkerOK
  <2> HIDE DEF x
  <2>4. upstream' = [upstream EXCEPT ![w].half = (upstream[w].half \/ f.type = "End")]
    BY <1>1 DEF WorkerTakes
  <2>5. /\ upstream'[w].got = upstream[w].got
        /\ upstream'[w].half = (upstream[w].half \/ f.type = "End")
    BY <1>0, <2>4 DEF UpstreamOK
  <2> QED
    BY <2>1, <2>2, <2>3, <2>5 DEF WorkerTakes, WorkerOnly, leaseVars
<1>3. UpstreamLive(w)' => UpstreamLive(w)
  BY <1>0, LiveBefore
<1>4. PICK Q \in Seq(VFrame), H \in Seq(VFrame), V \in Seq(VFrame), h \in VFrame :
        Q = q /\ H = Held(g, r) /\ V = View(Subject(g), r) /\ h = f
  BY <1>1, LineTyped, ViewFrames
<1>5. Hand(w) = <<>> /\ <<>> \o Q = Q /\ Tail(Q) \in Seq(VFrame) /\ <<>> \o Tail(Q) = Tail(Q) /\ Q # <<>>
  BY <1>1, <1>2, <1>4, ConcatEmptySeq, HeadTailProperties DEF Hand
<1>6. PICK L \in Seq(VFrame) : L = Line(g, r)
  BY LineTyped
<1>7. L = (Q \o H) \o V
  BY <1>1, <1>4, <1>5, <1>6 DEF Line, Taken
<1>8. L # <<>> /\ Head(L) = f /\ Tail(L) = (Tail(Q) \o H) \o V
  <2>1. PICK D \in Seq(VFrame) : D = Q \o H
    BY ConcatProperties
  <2>2. L = D \o V
    BY <1>7, <2>1
  <2>3. D # <<>> /\ Head(D) = Head(Q) /\ Tail(D) = Tail(Q) \o H
    BY <1>5, <2>1, Joined, ViewFrames
  <2>4. D \o V # <<>> /\ Head(D \o V) = Head(D) /\ Tail(D \o V) = Tail(D) \o V
    BY <2>3, Joined
  <2> QED
    BY <2>2, <1>1, <1>4, <2>3, <2>4
<1>9. Held(g, r)' = H /\ View(Subject(g), r)' = V
  BY <1>2, <1>4 DEF Held, Subject, Open, Torndown, NatsUp
<1>10. UpstreamLive(w) => Good(L, Len(upstream[w].got), caller[r].data, caller[r].ended, Open(g))
  BY <1>2, <1>6 DEF OnTheWay, Active, Delivering
<1>11. Open(g)' = Open(g) /\ UNCHANGED caller
  BY <1>2 DEF Open, Torndown, NatsUp
<1>12. worker'[w].pc # "none"
  BY <1>2
<1>13. CASE f.type = "Data"
  <2>1. Hand(w)' = <<f>>
    <3>1. worker'[w].pc = "send" /\ worker'[w].n = f.n
      BY <1>2, <1>13
    <3>2. f = [reply |-> r, type |-> "Data", n |-> f.n]
      BY <1>1, <1>13 DEF Frame
    <3> QED
      BY <1>0, <3>1, <3>2 DEF Hand
  <2>2. <<f>> \o Tail(Q) = Q
    <3>1. <<>> \in Seq(VFrame) /\ Append(<<>>, h) = <<h>> /\ Head(Q) = h
      BY <1>1, <1>4
    <3>2. Append(<<>>, Head(Q)) \o Tail(Q) = <<>> \o Q
      BY <1>4, <1>5, <3>1, Joined
    <3> QED
      BY <1>4, <1>5, <3>1, <3>2
  <2>3. Line(g, r)' = L
    BY <1>1, <1>4, <1>7, <1>9, <2>1, <2>2 DEF Line, Taken
  <2>4. OnTheWay(g, r)'
    BY <1>2, <1>3, <1>10, <1>11, <2>3 DEF OnTheWay
  <2>5. GotFirst(w)'
    <3>1. upstream[w].half \in BOOLEAN
      BY <1>0 DEF UpstreamOK
    <3>2. upstream'[w].half = upstream[w].half
      BY <1>2, <1>13, <3>1
    <3>3. caller'[w[2]] = caller[w[2]] /\ caller[w[2]].data \in Nat
      BY <1>0, <1>11, <1>c
    <3>4. caller'[w[2]].data >= caller[w[2]].data /\ caller'[w[2]].data \in Nat
      BY <3>3
    <3> QED
      BY <1>2, <1>3, <1>c, <1>12, <3>2, <3>3, <3>4, GotStays
  <2> QED
    BY <2>4, <2>5
<1>14. CASE f.type # "Data"
  <2>1. Hand(w)' = <<>>
    BY <1>2, <1>14 DEF Hand
  <2>2. Line(g, r)' = Tail(L)
    BY <1>1, <1>4, <1>5, <1>8, <1>9, <2>1 DEF Line, Taken
  <2>l. ASSUME UpstreamLive(w)
        PROVE  /\ Good(Tail(L), Len(upstream[w].got), caller[r].data, caller[r].ended, Open(g))
               /\ f.type = "End" => Len(upstream[w].got) = caller[r].data /\ caller[r].ended
    <3>1. PICK a \in Nat, top \in Nat, e \in BOOLEAN, whole \in BOOLEAN :
            a = Len(upstream[w].got) /\ top = caller[r].data /\ e = caller[r].ended /\ whole = Open(g)
      BY <1>c
    <3>2. L # <<>> /\ Head(L) = f /\ Good(L, a, top, e, whole)
      BY <1>8, <1>10, <2>l, <3>1
    <3>3. /\ Head(L).type # "Data" => Good(Tail(L), a, top, e, whole)
          /\ Head(L).type = "End" => a = top /\ e
      BY <3>2, GoodLess
    <3> QED
      BY <1>14, <3>1, <3>2, <3>3
  <2>3. UpstreamLive(w) => Good(Tail(L), Len(upstream[w].got), caller[r].data, caller[r].ended, Open(g))
    BY <2>l
  <2>4. OnTheWay(g, r)'
    BY <1>2, <1>3, <1>11, <2>2, <2>3 DEF OnTheWay
  <2>5. UpstreamLive(w) /\ f.type = "End" => Len(upstream[w].got) = caller[r].data /\ caller[r].ended
    BY <2>l
  <2>6. GotFirst(w)'
    BY <1>0, <1>2, <1>3, <1>11, <1>12, <2>5 DEF GotFirst
  <2> QED
    BY <2>4, <2>6
<1> QED
  BY <1>13, <1>14

\* The workers keep what the app got and the lines.
LEMMA WorkerOnWay ==
  ASSUME Typed, CallInv, MadeInv, [Next]_vars, NEW g \in Leases, NEW r \in Replies,
         NEW w, w = <<g, r>>, GotFirst(w), OnTheWay(g, r),
         NEW v \in Worker, RunWorker(v) \/ Pump(v) \/ App(v)
  PROVE  GotFirst(w)' /\ OnTheWay(g, r)'
<1>0. /\ w \in Worker /\ w[2] = r /\ WorkerOK /\ UpstreamOK /\ FramesOK /\ CtxOK
      /\ CallWaits(g, r) /\ MadeOnce(g, r)
  BY DEF Worker, Typed, CallInv
<1>c. Len(upstream[w].got) \in Nat /\ caller[r].data \in Nat
  BY Counts
<1>1. UNCHANGED <<pending, caller, closing, teardown, dispatcher>> /\ (v # w => worker'[w] = worker[w])
  BY <1>0, WorkerMoves
<1>2. /\ (Open(g)' <=> Open(g)) /\ (Making(g, r)' <=> Making(g, r)) /\ (UpstreamLive(w)' => UpstreamLive(w))
      /\ Held(g, r)' = Held(g, r) /\ Subject(g)' = Subject(g)
  BY <1>0, <1>1, LiveBefore, LineStays DEF Open, Torndown, NatsUp, Making
<1>g. ASSUME upstream'[w].got = upstream[w].got, upstream'[w].half = upstream[w].half,
             worker'[w].pc = "none" => worker[w].pc = "none"
      PROVE  GotFirst(w)'
  <2>1. caller'[w[2]] = caller[w[2]] /\ caller[w[2]].data \in Nat
    BY <1>0, <1>1, <1>c
  <2>2. caller'[w[2]].data >= caller[w[2]].data /\ caller'[w[2]].data \in Nat
    BY <2>1
  <2> QED
    BY <1>2, <1>c, <1>g, <2>1, <2>2, GotStays
<1>s. ASSUME upstream'[w].got = upstream[w].got, Hand(w)' = Hand(w), frames'[w] = frames[w],
             Active(g, r)' => Active(g, r)
      PROVE  OnTheWay(g, r)'
  <2>1. Taken(g, r)' = Taken(g, r)
    BY <1>2, <1>s, LineStays
  <2>2. Line(g, r)' = Line(g, r)
    BY <1>2, <2>1, LineStays
  <2> QED
    BY <1>1, <1>2, <1>s, <2>2, WayStays
<1>o. ASSUME worker[w].pc # "none", worker'[w].pc \notin Delivering
      PROVE  OnTheWay(g, r)'
  <2>1. ~Making(g, r) /\ ~Waits(pending[g], r)
    BY <1>0, <1>o DEF CallWaits, MadeOnce
  <2>2. ~Active(g, r)'
    BY <1>1, <1>2, <1>o, <2>1 DEF Active
  <2> QED
    BY <2>2 DEF OnTheWay
<1>3. CASE v # w
  <2>1. frames'[w] = frames[w]
    BY <1>0, <1>3 DEF RunWorker, WorkerTakes, WorkerCancelled, WorkerSendFails, WorkerSeesEnd,
         WorkerPublishesEnd, WorkerRemoves, WorkerDeletes, WorkerCancels, UnaryCancelled, RespondUnary,
         Pump, PumpPublishes, PumpEnds, PumpOnly, App, AppReceives, AppSends, AppEnds, AppAnswersUnary,
         AppOnly, FramesOK
  <2>2. upstream'[w] = upstream[w]
    <3>1. UNCHANGED upstream \/ \E u : upstream' = [upstream EXCEPT ![v] = u]
      <4>1. CASE WorkerTakes(v)
        BY <4>1 DEF WorkerTakes
      <4>2. CASE RunWorker(v) /\ ~WorkerTakes(v)
        BY <4>2 DEF RunWorker, WorkerCancelled, WorkerSendFails, WorkerSeesEnd,
             WorkerPublishesEnd, WorkerRemoves, WorkerDeletes, WorkerCancels, UnaryCancelled, RespondUnary
      <4>3. CASE Pump(v)
        BY <4>3 DEF Pump, PumpPublishes, PumpEnds, PumpOnly
      <4>4. CASE App(v)
        BY <4>4 DEF App, AppReceives, AppSends, AppEnds, AppAnswersUnary
      <4> QED
        BY <4>1, <4>2, <4>3, <4>4
    <3> QED
      BY <1>0, <1>3, <3>1 DEF UpstreamOK
  <2>3. Hand(w)' = Hand(w)
    BY <1>1, <1>3, LineStays
  <2>4. Active(g, r)' => Active(g, r)
    BY <1>1, <1>2, <1>3 DEF Active
  <2> QED
    BY <1>1, <1>3, <1>g, <1>s, <2>1, <2>2, <2>3, <2>4
<1>4. CASE v = w
  <2>1. CASE WorkerTakes(w)
    BY <2>1, TakesOnWay
  <2>2. CASE AppReceives(w)
    BY <2>2, AppOnWay
  <2>3. CASE WorkerSendFails(w)
    <3>1. ~UpstreamLive(w) /\ UNCHANGED upstream /\ worker'[w].pc = "select"
      BY <1>0, <2>3 DEF WorkerSendFails, WorkerOK
    <3>2. OnTheWay(g, r)'
      BY <1>2, <3>1 DEF OnTheWay
    <3> QED
      BY <1>g, <3>1, <3>2
  <2>4. CASE \/ WorkerCancelled(w) \/ WorkerSeesEnd(w) \/ WorkerPublishesEnd(w) \/ WorkerRemoves(w)
             \/ WorkerDeletes(w) \/ WorkerCancels(w) \/ UnaryCancelled(w) \/ RespondUnary(w)
             \/ AppAnswersUnary(w)
    <3>1. /\ UNCHANGED upstream /\ worker[w].pc # "none"
          /\ worker'[w].pc \in {"end", "remove", "delete", "cancel", "gone", "respond"}
      <4>1. CASE AppAnswersUnary(w)
        <5>1. PICK err \in {"OK", "Status"} : worker' = [worker EXCEPT ![w].pc = "respond", ![w].err = err]
          BY <4>1 DEF AppAnswersUnary
        <5> QED
          BY <1>0, <4>1, <5>1 DEF AppAnswersUnary, WorkerOK
      <4>2. CASE ~AppAnswersUnary(w)
        BY <1>0, <2>4, <4>2 DEF WorkerCancelled, WorkerSeesEnd, WorkerPublishesEnd, WorkerRemoves,
             WorkerDeletes, WorkerCancels, UnaryCancelled, RespondUnary, WorkerOK
      <4> QED
        BY <4>1, <4>2
    <3>2. OnTheWay(g, r)'
      BY <1>o, <3>1 DEF Delivering
    <3> QED
      BY <1>g, <3>1, <3>2
  <2>5. CASE Pump(w) \/ AppSends(w) \/ AppEnds(w)
    <3>1. UNCHANGED <<worker, frames>> /\ upstream'[w].got = upstream[w].got
          /\ upstream'[w].half = upstream[w].half
      <4>1. CASE Pump(w)
        BY <4>1 DEF Pump, PumpPublishes, PumpEnds, PumpOnly
      <4>2. CASE AppSends(w)
        BY <1>0, <4>2 DEF AppSends, AppOnly, UpstreamOK
      <4>3. CASE AppEnds(w)
        <5>1. PICK err \in {"EOF", "Status"} : upstream' = [upstream EXCEPT ![w].ended = err]
          BY <4>3 DEF AppEnds
        <5> QED
          BY <1>0, <4>3, <5>1 DEF AppEnds, AppOnly, UpstreamOK
      <4> QED
        BY <2>5, <4>1, <4>2, <4>3
    <3>2. Hand(w)' = Hand(w) /\ (Active(g, r)' => Active(g, r))
      BY <1>1, <1>2, <3>1, LineStays DEF Active
    <3> QED
      BY <1>g, <1>s, <3>1, <3>2
  <2> QED
    BY <1>4, <2>1, <2>2, <2>3, <2>4, <2>5 DEF RunWorker, App
<1> QED
  BY <1>3, <1>4

\* The leases and the Close keep them: a registration that is torn down takes no more from
\* its subscription.
LEMMA LeaseOnWay ==
  ASSUME Typed, [Next]_vars, NEW g \in Leases, NEW r \in Replies,
         NEW w, w = <<g, r>>, OnTheWay(g, r),
         \/ \E h \in Leases : \/ OpenIngress(h) \/ SubscribeFails(h) \/ LeaseEnds(h)
                              \/ Handler(h) \/ TeardownSteps(h)
         \/ CloseBegins \/ CloseSteps \/ CloseReturns
  PROVE  OnTheWay(g, r)'
<1>0. w \in Worker /\ TeardownOK /\ PendingOK
  BY DEF Worker, Typed
<1>c. /\ Len(upstream[w].got) \in Nat /\ caller[r].data \in Nat /\ caller[r].ended \in BOOLEAN
      /\ Open(g) \in BOOLEAN
  BY Counts
<1>1. /\ UNCHANGED <<caller, dispatcher, worker, frames, upstream>>
      /\ pending'[g] \in {pending[g], <<>>}
  BY LeaseLeaves
<1>2. /\ (Open(g)' => Open(g)) /\ (UpstreamLive(w)' => UpstreamLive(w)) /\ (Making(g, r)' <=> Making(g, r))
      /\ Hand(w)' = Hand(w) /\ Held(g, r)' = Held(g, r)
  BY <1>0, <1>1, NeverBack, LiveBefore, LineStays DEF Open, Making
<1>3. Active(g, r)' => Active(g, r)
  BY <1>1, <1>2, WaitsEmpty DEF Active
<1>4. Taken(g, r)' = Taken(g, r)
  BY <1>1, <1>2, LineStays
<1>5. Open(g)' => pending'[g] = pending[g]
  <2>1. ASSUME NEW h \in Leases, Unsubscribe(h), pending'[g] # pending[g]
        PROVE  Torndown(g)'
    <3>1. h = g
      BY <1>0, <2>1 DEF Unsubscribe, PendingOK
    <3> QED
      BY <1>0, <2>1, <3>1 DEF Unsubscribe, Torndown, TeardownOK
  <2>2. CASE CloseReturns
    BY <2>2 DEF CloseReturns, Open, NatsUp, Typed, ClosingOK
  <2>3. ASSUME ~CloseReturns, \A h \in Leases : ~Unsubscribe(h)
        PROVE  UNCHANGED pending
    BY <2>3
       DEF OpenIngress, SubscribeFails, LeaseEnds, CloseIngress, Handler, OpenRegisters, HandlerStops,
           HandlerTeardown, TeardownSteps, CancelStream, CloseConn, CloseBegins, CloseSteps,
           CloseSnapshot, CloseTearsDown, CloseTornDown, CloseOnly, natsVars
  <2> QED
    BY <2>1, <2>2, <2>3 DEF Open
<1>6. CASE Open(g)' \/ ~Open(g)
  <2>1. Subject(g)' = Subject(g)
    BY <1>2, <1>5, <1>6 DEF Subject
  <2>2. Line(g, r)' = Line(g, r)
    BY <1>4, <2>1, LineStays
  <2> QED
    BY <1>1, <1>2, <1>3, <2>2, WayStays
<1>7. CASE Open(g) /\ ~Open(g)'
  <2>1. PICK P \in Seq(VFrame), V \in Seq(VFrame) : P = Taken(g, r) /\ V = View(Subject(g), r)
    BY LineTyped
  <2>2. Line(g, r) = P \o V
    BY <2>1 DEF Line
  <2>3. Line(g, r)' = P
    <3>1. Subject(g)' = <<>> /\ View(<<>>, r) = <<>> /\ P \o <<>> = P
      <4>1. <<>> \in Seq(Frame)
        OBVIOUS
      <4>2. View(<<>>, r) \in Seq(VFrame) /\ Len(View(<<>>, r)) = 0
        BY <4>1, ViewOf
      <4> QED
        BY <1>7, <4>2, ConcatEmptySeq, EmptySeq DEF Subject
    <3>2. View(Subject(g)', r) = <<>>
      BY <3>1
    <3> QED
      BY <1>4, <2>1, <3>1, <3>2 DEF Line
  <2> SUFFICES ASSUME Active(g, r)', UpstreamLive(w)'
               PROVE  Good(P, Len(upstream[w].got), caller[r].data, caller[r].ended, FALSE)
    <3>1. Open(g)' = FALSE
      BY <1>7 DEF Open
    <3> QED
      BY <1>1, <2>3, <3>1 DEF OnTheWay
  <2>4. Good(P \o V, Len(upstream[w].got), caller[r].data, caller[r].ended, Open(g))
    BY <1>2, <1>3, <2>2 DEF OnTheWay
  <2>5. PICK a \in Nat, top \in Nat, e \in BOOLEAN, whole \in BOOLEAN, less \in BOOLEAN :
          /\ a = Len(upstream[w].got) /\ top = caller[r].data /\ e = caller[r].ended
          /\ whole = Open(g) /\ less = FALSE
    BY <1>c
  <2>6. Good(P \o V, a, top, e, whole)
    BY <2>4, <2>5
  <2>7. Good(P, a, top, e, less)
    BY <2>5, <2>6, GoodCut
  <2> QED
    BY <2>5, <2>7
<1> QED
  BY <1>6, <1>7

\* The callers keep what the app got: it is as much of what there is of more.
LEMMA CallerKeepsGot ==
  ASSUME Typed, CallInv, NEW g \in Leases, NEW r \in Replies,
         NEW w, w = <<g, r>>, GotFirst(w), NEW s \in Replies, Caller(s)
  PROVE  GotFirst(w)'
<1>0. w \in Worker /\ w[2] = r /\ CallerOK
  BY DEF Worker, Typed
<1>c. Len(upstream[w].got) \in Nat /\ caller[r].data \in Nat
      /\ caller[r] \in [kind : {"stream", "unary"}, called : BOOLEAN, data : 0..MaxFrames,
                        pings : 0..MaxFrames, ended : BOOLEAN]
  BY <1>0, Counts DEF CallerOK
<1>1. ASSUME UNCHANGED <<teardown, ctxDone, upstream>>, worker'[w].pc = "none" => worker[w].pc = "none",
             caller'[r].data = caller[r].data \/ (~caller[r].ended /\ caller'[r].data = caller[r].data + 1),
             caller[r].ended => caller'[r].ended
      PROVE  GotFirst(w)'
  <2>1. UpstreamLive(w)' => UpstreamLive(w)
    BY <1>1 DEF UpstreamLive, ConnOpen
  <2>2. /\ caller[w[2]].data \in Nat /\ caller'[w[2]].data \in Nat /\ caller'[w[2]].data >= caller[w[2]].data
        /\ caller[w[2]].ended => caller'[w[2]].ended /\ caller'[w[2]].data = caller[w[2]].data
    BY <1>0, <1>1, <1>c
  <2> QED
    BY <1>1, <1>c, <2>1, <2>2, GotStays
<1>2. CASE CallerRequests(s)
  <2>1. /\ UNCHANGED <<teardown, ctxDone, upstream>> /\ (r # s => caller'[r] = caller[r])
        /\ caller'[s] = [caller[s] EXCEPT !.called = TRUE]
        /\ \/ worker'[w] = worker[w] \/ worker'[w].pc \in {"invoke", "respond"}
    BY <1>2, RequestAlone
  <2>2. caller'[r].data = caller[r].data /\ caller'[r].ended = caller[r].ended
    BY <1>c, <2>1
  <2> QED
    BY <1>1, <2>1, <2>2
<1>3. CASE ~CallerRequests(s)
  <2>1. PICK f \in Frame :
          /\ UNCHANGED <<teardown, worker, ctxDone, upstream>>
          /\ r # s => caller'[r] = caller[r]
          /\ f.type = "Call" => caller'[s] = [caller[s] EXCEPT !.called = TRUE]
          /\ f.type = "Data" =>
               /\ ~caller[s].ended
               /\ caller'[s] = [caller[s] EXCEPT !.data = caller[s].data + 1]
          /\ f.type = "End" => caller'[s] = [caller[s] EXCEPT !.ended = TRUE]
          /\ f.type = "Ping" => caller'[s] = [caller[s] EXCEPT !.pings = caller[s].pings + 1]
    BY <1>3, CallerActs
  <2>2. f.type \in {"Call", "Data", "End", "Ping"}
    BY DEF Frame
  <2>3. /\ caller'[r].data = caller[r].data \/ (~caller[r].ended /\ caller'[r].data = caller[r].data + 1)
        /\ caller[r].ended => caller'[r].ended
    BY <1>c, <2>1, <2>2
  <2> QED
    BY <1>1, <2>1, <2>3
<1> QED
  BY <1>2, <1>3

\* The app got the first of what was sent, and what follows is on its way: inductive, with
\* one lease.
LEMMA NextGot ==
  ASSUME OneLease
  PROVE  Typed /\ CallInv /\ EnteredInv /\ EntryKeptInv /\ MadeInv /\ GotInv /\ [Next]_vars => GotInv'
<1> SUFFICES ASSUME Typed, CallInv, EnteredInv, EntryKeptInv, MadeInv, GotInv, [Next]_vars,
                    NEW g \in Leases, NEW r \in Replies
             PROVE  GotFirst(<<g, r>>)' /\ OnTheWay(g, r)'
  BY DEF GotInv
<1>0. PICK w \in Worker : w = <<g, r>>
  BY DEF Worker
<1>1. GotFirst(w) /\ OnTheWay(g, r) /\ w[2] = r
  BY <1>0 DEF GotInv
<1>c. Len(upstream[w].got) \in Nat /\ caller[r].data \in Nat
  BY <1>0, Counts
<1>g. ASSUME UNCHANGED <<caller, upstream>>, worker'[w].pc = "none" => worker[w].pc = "none"
      PROVE  GotFirst(w)'
  <2>1. UpstreamLive(w)' => UpstreamLive(w)
    BY LiveBefore
  <2>2. caller'[w[2]] = caller[w[2]] /\ caller[w[2]].data \in Nat /\ upstream'[w] = upstream[w]
    BY <1>1, <1>c, <1>g
  <2>3. caller'[w[2]].data >= caller[w[2]].data /\ caller'[w[2]].data \in Nat
    BY <2>2
  <2> QED
    BY <1>1, <1>c, <1>g, <2>1, <2>2, <2>3, GotStays
<1>2. CASE UNCHANGED vars
  <2>1. UNCHANGED <<pending, caller, closing, teardown, dispatcher, worker, frames, upstream>>
    BY <1>2 DEF vars, natsVars, leaseVars
  <2>2. /\ Open(g)' <=> Open(g)
        /\ Active(g, r)' <=> Active(g, r)
        /\ Held(g, r)' = Held(g, r) /\ Hand(w)' = Hand(w)
    BY <2>1 DEF Open, Torndown, NatsUp, Active, Making, Held, Hand
  <2>3. Taken(g, r)' = Taken(g, r) /\ Subject(g)' = Subject(g)
    BY <1>0, <2>1, <2>2, LineStays
  <2>4. Line(g, r)' = Line(g, r)
    BY <1>0, <2>3, LineStays
  <2>5. UpstreamLive(w)' => UpstreamLive(w)
    BY LiveBefore
  <2>6. OnTheWay(g, r)'
    BY <1>0, <1>1, <2>1, <2>2, <2>4, <2>5, WayStays
  <2> QED
    BY <1>0, <1>g, <2>1, <2>6
<1>3. ASSUME NEW s \in Replies, Caller(s)
      PROVE  GotFirst(<<g, r>>)' /\ OnTheWay(g, r)'
  <2>1. OnTheWay(g, r)'
    BY <1>0, <1>1, <1>3, CallerOnWay
  <2>2. GotFirst(w)'
    BY <1>0, <1>1, <1>3, CallerKeepsGot
  <2> QED
    BY <1>0, <2>1, <2>2
<1>4. ASSUME NEW h \in Leases, Dispatcher(h)
      PROVE  GotFirst(<<g, r>>)' /\ OnTheWay(g, r)'
  <2>1. h = g
    BY DEF OneLease
  <2>2. OnTheWay(g, r)'
    BY <1>1, <1>4, <2>1, DispatcherOnWay
  <2>3. UNCHANGED <<caller, upstream>> /\ (~StartWorker(g) => UNCHANGED worker)
    BY <1>4, <2>1, DispatcherMoves
  <2>4. worker'[w].pc = "none" => worker[w].pc = "none"
    BY <2>3 DEF StartWorker, Typed, WorkerOK
  <2> QED
    BY <1>0, <1>g, <2>2, <2>3, <2>4
<1>5. ASSUME NEW v \in Worker, RunWorker(v) \/ Pump(v) \/ App(v)
      PROVE  GotFirst(<<g, r>>)' /\ OnTheWay(g, r)'
  <2>1. GotFirst(w)' /\ OnTheWay(g, r)'
    BY <1>0, <1>1, <1>5, WorkerOnWay
  <2> QED
    BY <1>0, <2>1
<1>6. ASSUME \/ \E h \in Leases : \/ OpenIngress(h) \/ SubscribeFails(h) \/ LeaseEnds(h)
                                  \/ Handler(h) \/ TeardownSteps(h)
             \/ CloseBegins \/ CloseSteps \/ CloseReturns
      PROVE  GotFirst(<<g, r>>)' /\ OnTheWay(g, r)'
  <2>1. OnTheWay(g, r)'
    BY <1>0, <1>1, <1>6, LeaseOnWay
  <2>2. UNCHANGED <<caller, upstream, worker>>
    BY <1>6, LeaseLeaves
  <2> QED
    BY <1>0, <1>g, <2>1, <2>2
<1> QED
  BY <1>2, <1>3, <1>4, <1>5, <1>6 DEF Next

\* It holds at first: there is no call.
LEMMA InitGot == Init => GotInv
<1> SUFFICES ASSUME Init, NEW g \in Leases, NEW r \in Replies, NEW w, w = <<g, r>>
             PROVE  GotFirst(w) /\ OnTheWay(g, r)
  BY DEF GotInv
<1>1. /\ w \in Worker /\ w[2] = r /\ upstream[w].got = <<>> /\ upstream[w].half = FALSE
      /\ caller[w[2]].data = 0 /\ worker[w].pc = "none" /\ pending[g] = <<>> /\ dispatcher[g].pc = "idle"
  BY DEF Init, Worker
<1>2. GotFirst(w)
  BY <1>1, Bounds DEF GotFirst
<1>3. ~Active(g, r)
  BY <1>1, WaitsEmpty DEF Active, Making, Delivering
<1> QED
  BY <1>2, <1>3 DEF OnTheWay

\* With one lease of the service, the app receives a prefix of what the caller sent, with no
\* gap, and sees the half-close behind all of it: the frames of a call pass the subscription,
\* the dispatcher, which looks the worker up in two maps under two mutexes, the channel and
\* the worker, which the teardown cancels and the caller, the app and Close interrupt at will.
THEOREM AppSeesPrefix == OneLease => (Spec => []UpstreamSeesPrefix)
<1> SUFFICES ASSUME OneLease PROVE Spec => []UpstreamSeesPrefix
  OBVIOUS
<1>1. Typed /\ GotInv => UpstreamSeesPrefix
  <2> SUFFICES ASSUME Typed, GotInv, NEW w \in Worker
               PROVE  /\ IsPrefix(upstream[w].got, UpTo(caller[w[2]].data))
                      /\ upstream[w].half /\ UpstreamLive(w) => Len(upstream[w].got) = caller[w[2]].data
    BY DEF UpstreamSeesPrefix
  <2>1. GotFirst(w)
    BY DEF GotInv, Worker
  <2>2. w[2] \in Replies /\ caller[w[2]].data \in Nat /\ Len(upstream[w].got) \in Nat
    BY Counts DEF Worker
  <2>3. PICK n \in Nat : n = caller[w[2]].data
    BY <2>2
  <2>4. UpTo(n) \in Seq(Nat) /\ Len(UpTo(n)) = n /\ \A i \in 1..n : UpTo(n)[i] = i
    <3>1. UpTo(n) \in [1..n -> Nat]
      BY DEF UpTo
    <3> QED
      BY <3>1, IsASeq, LenProperties DEF UpTo
  <2>5. Len(upstream[w].got) <= n /\ \A i \in 1..Len(upstream[w].got) : upstream[w].got[i] = i
    BY <2>1, <2>3 DEF GotFirst
  <2>6. IsPrefix(upstream[w].got, UpTo(n))
    BY <2>2, <2>4, <2>5 DEF IsPrefix
  <2> QED
    BY <2>1, <2>3, <2>6 DEF GotFirst
<1>2. Typed /\ CallInv /\ EnteredInv /\ EntryKeptInv /\ [Next]_vars => EntryKeptInv'
  BY NextEntryKept
<1>3. Typed /\ CallInv /\ EnteredInv /\ MadeInv /\ [Next]_vars => MadeInv'
  BY NextMade
<1>4. Typed /\ CallInv /\ EnteredInv /\ EntryKeptInv /\ MadeInv /\ GotInv /\ [Next]_vars => GotInv'
  BY NextGot
<1>5. Init => EntryKeptInv
  BY DEF Init, EntryKeptInv, EntryKept, Placed, Worker
<1> QED
  BY <1>1, <1>2, <1>3, <1>4, <1>5, InitTyped, NextTyped, InitCallInv, NextCallInv, InitEntered,
     NextEntered, InitMade, InitGot, NextGot, PTL DEF Spec
=============================================================================
