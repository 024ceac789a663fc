-------------------------- MODULE StreamBridgeProofs --------------------------
(***************************************************************************)
(* Proofs about StreamBridge, for every set of variants and every number of *)
(* messages: its type correctness, HalfCloseComplete (what goes out) and    *)
(* AppOutcomeTrue (what the local app is told).                             *)
(***************************************************************************)
EXTENDS StreamBridge, SequenceTheorems, TLAPS

-----------------------------------------------------------------------------
(* Types                                                                    *)

Sent == [type : {"Unary", "Call", "Data", "End", "Abort"}, n : 0..MaxMsgs]
Received == [type : {"Data", "OK", "Status"}, n : 0..MaxMsgs]

\* Errors are those of the channels; a handler that is over returns one, or "OK".
Over == {"return", "gone"}

CallOK == call \in [variant : Variants, request : Request]
AppOK == app \in [sent : 0..MaxMsgs, half : BOOLEAN, cancelled : BOOLEAN,
                  got : Seq(1..MaxMsgs), result : Errors \cup {"none", "OK"}]
MainOK ==
  /\ main \in [pc : {"route", "unary", "invoke", "reply", "loop", "return", "gone"},
               err : Errors \cup {"nil", "OK"}]
  /\ main.pc \in Over => main.err # "nil"
S2COK ==
  /\ s2c \in [pc : {"none", "recv", "send", "publish", "done"}, n : 0..MaxMsgs]
  /\ s2cErr \in Errors \cup {"nil"}
C2SOK ==
  /\ c2s \in [pc : {"none", "recv", "send", "done"}, n : 0..MaxMsgs]
  /\ c2s.pc = "send" => c2s.n # 0
  /\ c2sErr \in Errors \cup {"nil"}
UpOK == up \in Seq(Sent)
RemoteOK == remote \in [sent : 0..MaxMsgs, ended : {"no", "OK", "Status"}]
DownOK ==
  /\ down \in Seq(Received)
  /\ \A i \in 1..Len(down) : down[i].type = "Data" => down[i].n # 0
LostOK == lost \subseteq {"Data", "End"}
NrpcOK ==
  /\ nrpc \in [recv : Seq(1..MaxMsgs), eof : BOOLEAN, closed : BOOLEAN, status : BOOLEAN,
               reader : {"run", "ok", "status", "record", "exit"},
               monitor : {"run", "abort", "over"}, cancel : BOOLEAN]
  /\ Len(nrpc.recv) <= 1

\* TypeOK, and that a message has a number and a handler that is over an error.
Typed ==
  CallOK /\ AppOK /\ MainOK /\ S2COK /\ C2SOK /\ UpOK /\ RemoteOK /\ DownOK /\ LostOK
  /\ NrpcOK

\* MaxMsgs is a number, and 1..MaxMsgs not empty.
LEMMA Bound == MaxMsgs \in Nat /\ MaxMsgs >= 1
BY BridgeAssumption

\* The first frame of a line, and those behind it.
LEMMA TailOf ==
  ASSUME NEW F, NEW q \in Seq(F), q # <<>>
  PROVE  /\ Len(q) \in Nat /\ Len(q) >= 1 /\ q[1] \in F /\ Head(q) = q[1]
         /\ Tail(q) \in Seq(F) /\ Len(Tail(q)) = Len(q) - 1
         /\ \A i \in 1..Len(Tail(q)) : i + 1 \in 1..Len(q) /\ Tail(q)[i] = q[i + 1]
BY HeadTailProperties

\* A line and one frame more.
LEMMA OneMore ==
  ASSUME NEW F, NEW q \in Seq(F), NEW f \in F
  PROVE  /\ Append(q, f) \in Seq(F) /\ Len(q) \in Nat /\ Len(Append(q, f)) = Len(q) + 1
         /\ Append(q, f)[Len(q) + 1] = f
         /\ \A i \in 1..Len(q) : Append(q, f)[i] = q[i]
         /\ \A i \in 1..Len(Append(q, f)) : i \in 1..Len(q) \/ i = Len(q) + 1
BY AppendProperties

\* What the step of an actor leaves alone keeps its type.
LEMMA TypeAside ==
  ASSUME Typed
  PROVE  /\ UNCHANGED call => CallOK'
         /\ UNCHANGED app => AppOK'
         /\ UNCHANGED main => MainOK'
         /\ UNCHANGED <<s2c, s2cErr>> => S2COK'
         /\ UNCHANGED <<c2s, c2sErr>> => C2SOK'
         /\ UNCHANGED up => UpOK'
         /\ UNCHANGED remote => RemoteOK'
         /\ UNCHANGED down => DownOK'
         /\ UNCHANGED lost => LostOK'
         /\ UNCHANGED nrpc => NrpcOK'
<1>1. /\ UNCHANGED call => CallOK'
      /\ UNCHANGED app => AppOK'
      /\ UNCHANGED main => MainOK'
      /\ UNCHANGED <<s2c, s2cErr>> => S2COK'
      /\ UNCHANGED <<c2s, c2sErr>> => C2SOK'
  BY DEF Typed, CallOK, AppOK, MainOK, S2COK, C2SOK
<1>2. /\ UNCHANGED up => UpOK'
      /\ UNCHANGED remote => RemoteOK'
      /\ UNCHANGED down => DownOK'
      /\ UNCHANGED lost => LostOK'
  BY DEF Typed, UpOK, RemoteOK, DownOK, LostOK
<1>3. UNCHANGED nrpc => NrpcOK'
  BY DEF Typed, NrpcOK
<1> QED
  BY <1>1, <1>2, <1>3

\* A frame is taken from, or added to, what comes from the server.
LEMMA DownTyped ==
  ASSUME DownOK
  PROVE  /\ down # <<>> /\ down' = Tail(down) => DownOK'
         /\ down # <<>> => Head(down) \in Received /\ (Head(down).type = "Data" => Head(down).n # 0)
         /\ \A f \in Received :
              down' = Append(down, f) /\ (f.type = "Data" => f.n # 0) => DownOK'
<1>1. ASSUME down # <<>> PROVE /\ Head(down) = down[1] /\ down[1] \in Received /\ 1 \in 1..Len(down)
                               /\ Tail(down) \in Seq(Received)
                               /\ \A i \in 1..Len(Tail(down)) :
                                    i + 1 \in 1..Len(down) /\ Tail(down)[i] = down[i + 1]
  BY <1>1, TailOf DEF DownOK
<1>2. ASSUME NEW f \in Received, down' = Append(down, f), f.type = "Data" => f.n # 0
      PROVE  DownOK'
  BY <1>2, OneMore DEF DownOK
<1>3. ASSUME down # <<>>, down' = Tail(down) PROVE DownOK'
  BY <1>1, <1>3 DEF DownOK
<1> QED
  BY <1>1, <1>2, <1>3 DEF DownOK

\* A frame of the server arrives, finds msgCh full, or comes after done.
LEMMA ArrivesTyped ==
  ASSUME DownOK, LostOK, NEW f \in Received, f.type = "Data" => f.n # 0,
         NEW kind \in {"Data", "End"}, Arrives(f, kind)
  PROVE  DownOK' /\ LostOK'
<1>1. CASE down' = Append(down, f) /\ UNCHANGED lost
  BY <1>1, DownTyped DEF LostOK
<1>2. CASE UNCHANGED down /\ lost' \in {lost, lost \cup {kind}}
  BY <1>2 DEF DownOK, LostOK
<1> QED
  BY <1>1, <1>2 DEF Arrives

\* A frame more goes out.
LEMMA UpTyped ==
  ASSUME UpOK, NEW f \in Sent, up' = Append(up, f)
  PROVE  UpOK'
BY OneMore DEF UpOK

\* The frames that go out.
LEMMA SentFrames ==
  /\ Frame("End", 0) \in Sent /\ Frame("Abort", 0) \in Sent /\ Frame("Unary", 0) \in Sent
  /\ Frame("Call", 0) \in Sent
  /\ \A n \in 0..MaxMsgs : Frame("Data", n) \in Sent
BY Bound DEF Frame, Sent

\* Sequences of no, one, and one more element.
LEMMA Sequences ==
  ASSUME NEW S
  PROVE  /\ \E e \in Seq(S) : e = <<>> /\ Len(e) <= 1
         /\ \A x \in S : \E q \in Seq(S) : q = <<x>> /\ Len(q) <= 1
         /\ \A q \in Seq(S), x \in S : \E p \in Seq(S) : p = Append(q, x)
<1>1. \A x \in S : <<x>> \in Seq(S) /\ Len(<<x>>) <= 1
  OBVIOUS
<1>2. <<>> \in Seq(S) /\ Len(<<>>) <= 1
  OBVIOUS
<1>3. \A q \in Seq(S), x \in S : Append(q, x) \in Seq(S)
  OBVIOUS
<1> QED
  BY <1>1, <1>2, <1>3

\* What the clientStream's channel holds changes.
LEMMA RecvTyped ==
  ASSUME NrpcOK, NEW q \in Seq(1..MaxMsgs), Len(q) <= 1, nrpc' = [nrpc EXCEPT !.recv = q]
  PROVE  NrpcOK' /\ nrpc'.recv = q
BY DEF NrpcOK

\* The environment keeps the types.
LEMMA EnvironmentTyped ==
  ASSUME Typed, AppSends \/ AppHalfCloses \/ AppCancels \/ RemoteSends \/ RemoteEnds
  PROVE  Typed'
<1> USE Bound
<1>0. AppOK /\ RemoteOK /\ DownOK /\ LostOK
  BY DEF Typed
<1>1. CASE AppSends
  <2>1. AppOK'
    BY <1>0, <1>1 DEF AppOK, AppSends
  <2> QED
    BY <1>1, <2>1, TypeAside DEF Typed, AppSends, AppOnly, bridgeVars, wireVars
<1>2. CASE AppHalfCloses
  <2>1. AppOK'
    BY <1>0, <1>2 DEF AppOK, AppHalfCloses
  <2> QED
    BY <1>2, <2>1, TypeAside DEF Typed, AppHalfCloses, AppOnly, bridgeVars, wireVars
<1>3. CASE AppCancels
  <2>1. AppOK'
    BY <1>0, <1>3 DEF AppOK, AppCancels
  <2> QED
    BY <1>3, <2>1, TypeAside DEF Typed, AppCancels, AppOnly, bridgeVars, wireVars
<1>4. CASE RemoteSends
  <2>1. RemoteOK' /\ remote.sent + 1 \in 1..MaxMsgs
    BY <1>0, <1>4 DEF RemoteOK, RemoteSends
  <2>2. Frame("Data", remote.sent + 1) \in Received /\ Frame("Data", remote.sent + 1).n # 0
    BY <2>1 DEF Frame, Received
  <2>3. DownOK' /\ LostOK'
    BY <1>0, <1>4, <2>2, ArrivesTyped DEF RemoteSends
  <2> QED
    BY <1>4, <2>1, <2>3, TypeAside DEF Typed, RemoteSends, bridgeVars
<1>5. CASE RemoteEnds
  <2>1. PICK s \in {"OK", "Status"} :
          remote' = [remote EXCEPT !.ended = s] /\ Arrives(Frame(s, 0), "End")
    BY <1>5 DEF RemoteEnds
  <2>2. Frame(s, 0) \in Received /\ Frame(s, 0).type # "Data" /\ RemoteOK'
    BY <1>0, <2>1 DEF Frame, Received, RemoteOK
  <2>3. DownOK' /\ LostOK'
    BY <1>0, <2>1, <2>2, ArrivesTyped
  <2> QED
    BY <1>5, <2>2, <2>3, TypeAside DEF Typed, RemoteEnds, bridgeVars
<1> QED
  BY <1>1, <1>2, <1>3, <1>4, <1>5

\* The goroutines of the clientStream keep the types.
LEMMA NrpcTyped ==
  ASSUME Typed, Nrpc
  PROVE  Typed'
<1> USE Bound
<1>0. DownOK /\ NrpcOK /\ UpOK
  BY DEF Typed
<1>1. CASE ReadData
  <2>1. Head(down).n \in 1..MaxMsgs /\ DownOK'
    BY <1>0, <1>1, DownTyped DEF ReadData, Received
  <2>2. PICK q \in Seq(1..MaxMsgs) : q = <<Head(down).n>> /\ Len(q) <= 1
    BY <2>1, Sequences
  <2>3. nrpc' = [nrpc EXCEPT !.recv = q]
    BY <1>1, <2>2 DEF ReadData
  <2>4. NrpcOK'
    BY <1>0, <2>2, <2>3, RecvTyped, Zenon
  <2> QED
    BY <1>1, <2>1, <2>4, TypeAside DEF Typed, ReadData, NrpcOnly
<1>2. CASE ReadEnd
  <2>1. DownOK' /\ NrpcOK'
    BY <1>0, <1>2, DownTyped DEF ReadEnd, NrpcOK
  <2> QED
    BY <1>2, <2>1, TypeAside DEF Typed, ReadEnd, NrpcOnly
<1>3. CASE ReaderDone \/ RecordStatus \/ ReadExit
  <2>1. NrpcOK'
    BY <1>0, <1>3 DEF ReaderDone, RecordStatus, ReadExit, NrpcOK
  <2> QED
    BY <1>3, <2>1, TypeAside DEF Typed, ReaderDone, RecordStatus, ReadExit, NrpcOnly
<1>4. CASE WatchContext \/ MonitorDone \/ ClientCloses
  <2>1. NrpcOK'
    BY <1>0, <1>4 DEF WatchContext, MonitorDone, ClientCloses, NrpcOK
  <2> QED
    BY <1>4, <2>1, TypeAside DEF Typed, WatchContext, MonitorDone, ClientCloses, NrpcOnly
<1>5. CASE MonitorFires
  <2>1. NrpcOK' /\ UpOK'
    BY <1>0, <1>5, UpTyped, SentFrames DEF MonitorFires, NrpcOK
  <2> QED
    BY <1>5, <2>1, TypeAside DEF Typed, MonitorFires, NrpcOnly
<1> QED
  BY <1>1, <1>2, <1>3, <1>4, <1>5 DEF Nrpc, Reader

\* The pumps keep the types.
LEMMA PumpsTyped ==
  ASSUME Typed, S2C \/ C2S
  PROVE  Typed'
<1> USE Bound
<1>0. AppOK /\ S2COK /\ C2SOK /\ UpOK /\ NrpcOK
  BY DEF Typed
<1>1. CASE S2CReceives
  <2>1. S2COK'
    BY <1>0, <1>1 DEF AppOK, S2COK, S2CReceives, Errors
  <2> QED
    BY <1>1, <2>1, TypeAside DEF Typed, S2CReceives, S2COnly, wireVars
<1>2. CASE S2CSends
  <2>1. S2COK'
    BY <1>0, <1>2 DEF S2COK, S2CSends, Errors
  <2> QED
    BY <1>2, <2>1, TypeAside DEF Typed, S2CSends, S2COnly, wireVars
<1>3. CASE S2CPublishes
  <2>1. S2COK' /\ s2c.n \in 0..MaxMsgs
    BY <1>0, <1>3 DEF S2COK, S2CPublishes
  <2>2. up' \in Seq(Sent)
    BY <1>0, <1>3, <2>1, SentFrames DEF S2CPublishes, UpOK
  <2> QED
    BY <1>3, <2>1, <2>2, TypeAside DEF Typed, S2CPublishes, S2COnly, UpOK, wireVars
<1>4. CASE C2SReceives
  <2>1. CASE nrpc.recv # <<>> /\ c2s' = [pc |-> "send", n |-> Head(nrpc.recv)]
             /\ nrpc' = [nrpc EXCEPT !.recv = <<>>] /\ UNCHANGED c2sErr
    <3>1. PICK q : q = nrpc.recv /\ q \in Seq(1..MaxMsgs) /\ q # <<>>
      BY <1>0, <2>1 DEF NrpcOK
    <3>2. Head(q) \in 1..MaxMsgs
      BY <3>1
    <3>3. C2SOK'
      BY <1>0, <2>1, <3>1, <3>2 DEF C2SOK
    <3>4. PICK e \in Seq(1..MaxMsgs) : e = <<>> /\ Len(e) <= 1
      BY Sequences
    <3>5. NrpcOK'
      BY <1>0, <2>1, <3>4, RecvTyped, Zenon
    <3> QED
      BY <1>4, <3>3, <3>5, TypeAside DEF Typed, C2SReceives, C2SOnly, wireVars
  <2>2. CASE c2s' = [c2s EXCEPT !.pc = "done"] /\ UNCHANGED nrpc /\ c2sErr' \in Errors
    <3>1. C2SOK'
      BY <1>0, <2>2 DEF C2SOK
    <3> QED
      BY <1>4, <2>2, <3>1, TypeAside DEF Typed, C2SReceives, C2SOnly, wireVars
  <2> QED
    BY <1>4, <2>1, <2>2 DEF C2SReceives, Errors
<1>5. CASE C2SSends
  <2>1. C2SOK'
    BY <1>0, <1>5 DEF C2SOK, C2SSends, Errors
  <2>2. AppOK'
    <3>1. PICK q \in Seq(1..MaxMsgs) : q = Append(app.got, c2s.n)
      <4>1. app.got \in Seq(1..MaxMsgs) /\ c2s.n \in 1..MaxMsgs
        BY <1>0, <1>5 DEF AppOK, C2SOK, C2SSends
      <4> QED
        BY <4>1, Sequences
    <3>2. app' = [app EXCEPT !.got = q]
      BY <1>5, <3>1 DEF C2SSends
    <3> QED
      BY <1>0, <3>2 DEF AppOK
  <2> QED
    BY <1>5, <2>1, <2>2, TypeAside DEF Typed, C2SSends, C2SOnly, wireVars
<1>6. CASE C2SFails
  <2>1. C2SOK'
    BY <1>0, <1>6 DEF C2SOK, C2SFails, Errors
  <2> QED
    BY <1>6, <2>1, TypeAside DEF Typed, C2SFails, C2SOnly, wireVars
<1> QED
  BY <1>1, <1>2, <1>3, <1>4, <1>5, <1>6 DEF S2C, C2S

\* So does the handler.
LEMMA MainTyped ==
  ASSUME Typed, Main
  PROVE  Typed'
<1> USE Bound, SentFrames
<1>0. AppOK /\ MainOK /\ S2COK /\ C2SOK /\ UpOK /\ DownOK /\ NrpcOK
  BY DEF Typed
<1>1. CASE Route
  <2>1. MainOK' /\ S2COK' /\ C2SOK'
    BY <1>0, <1>1 DEF MainOK, S2COK, C2SOK, Over, Route, Errors
  <2> QED
    BY <1>1, <2>1, TypeAside DEF Typed, Route, wireVars
<1>2. CASE UnaryReceives
  <2>1. UpOK'
    BY <1>0, <1>2, UpTyped, TypeAside DEF UnaryReceives
  <2>2. MainOK'
    BY <1>0, <1>2 DEF MainOK, Over, UnaryReceives, Errors
  <2> QED
    BY <1>2, <2>1, <2>2, TypeAside DEF Typed, UnaryReceives, MainOnly
<1>3. CASE UnaryAnswers
  <2>1. DownOK'
    BY <1>0, <1>3, DownTyped, TypeAside DEF UnaryAnswers
  <2>2. MainOK'
    BY <1>0, <1>3 DEF MainOK, UnaryAnswers, Over, Errors
  <2> QED
    BY <1>3, <2>1, <2>2, TypeAside DEF Typed, UnaryAnswers, MainOnly
<1>8. CASE UnaryFails \/ UnaryReplyFails
  <2>1. MainOK'
    BY <1>8 DEF MainOK, UnaryFails, UnaryReplyFails, Over, Errors
  <2> QED
    BY <1>8, <2>1, TypeAside DEF Typed, UnaryFails, UnaryReplyFails, MainOnly
<1>9. CASE UnaryReplies
  <2>1. AppOK'
    <3>1. PICK q \in Seq(1..MaxMsgs) : q = Append(app.got, 1)
      <4>1. app.got \in Seq(1..MaxMsgs) /\ 1 \in 1..MaxMsgs
        BY <1>0 DEF AppOK
      <4> QED
        BY <4>1, Sequences
    <3>2. app' = [app EXCEPT !.got = q]
      BY <1>9, <3>1 DEF UnaryReplies
    <3> QED
      BY <1>0, <3>2 DEF AppOK
  <2>2. MainOK'
    BY <1>9 DEF MainOK, UnaryReplies, Over, Errors
  <2> QED
    BY <1>9, <2>1, <2>2, TypeAside DEF Typed, UnaryReplies, MainOnly
<1>4. CASE TakeHalfClose
  <2>1. UpOK'
    BY <1>0, <1>4, UpTyped, TypeAside DEF TakeHalfClose, CloseSend
  <2>2. S2COK'
    BY <1>0, <1>4 DEF S2COK, TakeHalfClose, LoopOnly
  <2> QED
    BY <1>4, <2>1, <2>2, TypeAside DEF Typed, TakeHalfClose, LoopOnly, wireVars
<1>5. CASE TakeS2CError
  <2>1. S2COK' /\ MainOK'
    BY <1>0, <1>5 DEF S2COK, MainOK, Over, TakeS2CError, LoopOnly, Errors
  <2>2. NrpcOK'
    BY <1>0, <1>5 DEF NrpcOK, TakeS2CError, Proxy
  <2> QED
    BY <1>5, <2>1, <2>2, TypeAside DEF Typed, TakeS2CError, LoopOnly, wireVars
<1>6. CASE TakeC2S
  <2>1. C2SOK' /\ MainOK'
    BY <1>0, <1>6 DEF C2SOK, MainOK, Over, TakeC2S, LoopOnly, Errors
  <2> QED
    BY <1>6, <2>1, TypeAside DEF Typed, TakeC2S, LoopOnly, wireVars
<1>7. CASE Return
  <2>1. UpOK'
    BY <1>0, <1>7, UpTyped, TypeAside DEF Return, CloseSend
  <2>2. main.err \in Errors \cup {"OK"}
    BY <1>0, <1>7 DEF MainOK, Over, Return
  <2>3. MainOK' /\ AppOK'
    BY <1>0, <1>7, <2>2 DEF MainOK, AppOK, Over, Return, Errors
  <2> QED
    BY <1>7, <2>1, <2>3, TypeAside DEF Typed, Return, MainOnly
<1> QED
  BY <1>1, <1>2, <1>3, <1>4, <1>5, <1>6, <1>7, <1>8, <1>9 DEF Main

\* The initial states have the types.
LEMMA InitTyped == Init => Typed
<1> SUFFICES ASSUME Init PROVE Typed
  OBVIOUS
<1>1. CallOK /\ MainOK /\ S2COK /\ C2SOK /\ RemoteOK
  BY Bound DEF Init, CallOK, MainOK, S2COK, C2SOK, RemoteOK, Over, Request, Errors
<1>2. PICK e \in Seq(1..MaxMsgs) : e = <<>> /\ Len(e) <= 1
  BY Sequences
<1>3. AppOK /\ NrpcOK
  BY <1>2, Bound DEF Init, AppOK, NrpcOK
<1>4. UpOK /\ DownOK /\ LostOK
  BY DEF Init, UpOK, DownOK, LostOK
<1> QED
  BY <1>1, <1>3, <1>4 DEF Typed

\* TypeOK and what it rests on is inductive.
LEMMA NextTyped == Typed /\ [Next]_vars => Typed'
<1> SUFFICES ASSUME Typed, [Next]_vars PROVE Typed'
  OBVIOUS
<1>1. CASE UNCHANGED vars
  BY <1>1, TypeAside DEF Typed, vars, bridgeVars, wireVars
<1> QED
  BY <1>1, EnvironmentTyped, NrpcTyped, PumpsTyped, MainTyped DEF Next

\* The variables keep their types, recv holds one message at most and each of the two
\* channels one error (StreamBridge's TypeOK).
THEOREM TypeCorrect == Spec => []TypeOK
<1>1. Typed => TypeOK
  BY DEF Typed, TypeOK, CallOK, AppOK, MainOK, S2COK, C2SOK, UpOK, RemoteOK, DownOK,
         LostOK, NrpcOK, Sent, Received
<1> QED
  BY <1>1, InitTyped, NextTyped, PTL DEF Spec

-----------------------------------------------------------------------------
(* Which calls get where                                                    *)

Waiting == {"route", "unary", "invoke", "reply", "loop"}

\* Only a streaming call has pumps, only a unary one invokes, an invalid one sends
\* nothing; before it is routed nothing has happened, and until a handler is over
\* neither its error nor the app's result is there.
RoutedInv ==
  /\ main.pc = "route" => s2c.pc = "none" /\ c2s.pc = "none" /\ up = <<>>
  /\ main.pc = "loop" => call.request = "streaming"
  /\ main.pc \in {"unary", "invoke", "reply"} => call.request = "unary"
  /\ s2c.pc # "none" \/ c2s.pc # "none" => call.request = "streaming"
  /\ call.request = "invalid" => up = <<>>
  /\ s2c.pc = "none" => s2c.n = 0
  /\ main.pc \in Waiting => main.err = "nil"
  /\ main.pc # "gone" => app.result = "none"

\* Every step preserves it.
LEMMA NextRouted == Typed /\ RoutedInv /\ [Next]_vars => RoutedInv'
<1> SUFFICES ASSUME Typed, RoutedInv, [Next]_vars PROVE RoutedInv'
  OBVIOUS
<1>0. AppOK /\ MainOK /\ S2COK /\ C2SOK
  BY DEF Typed
<1> USE <1>0 DEF AppOK, MainOK, S2COK, C2SOK
<1>1. CASE AppSends \/ AppHalfCloses \/ AppCancels
  BY <1>1 DEF RoutedInv, AppSends, AppHalfCloses, AppCancels, AppOnly, bridgeVars
<1>2. CASE RemoteSends \/ RemoteEnds \/ UNCHANGED vars
  BY <1>2 DEF RoutedInv, RemoteSends, RemoteEnds, bridgeVars, vars
<1>3. CASE Nrpc
  <2>1. UNCHANGED <<call, app, main, s2c, c2s>>
    BY <1>3 DEF Nrpc, Reader, ReadData, ReadEnd, ReaderDone, RecordStatus, ReadExit, WatchContext,
                MonitorFires, MonitorDone, ClientCloses, NrpcOnly
  <2>2. UNCHANGED up \/ s2c.pc # "none"
    BY <1>3 DEF Nrpc, Reader, ReadData, ReadEnd, ReaderDone, RecordStatus, ReadExit, WatchContext,
                MonitorFires, MonitorDone, ClientCloses
  <2> QED
    BY <2>1, <2>2 DEF RoutedInv
<1>4. CASE S2C
  BY <1>4 DEF RoutedInv, S2C, S2CReceives, S2CSends, S2CPublishes, S2COnly
<1>5. CASE C2S
  BY <1>5 DEF RoutedInv, C2S, C2SReceives, C2SSends, C2SFails, C2SOnly
<1>6. CASE Route
  BY <1>6 DEF RoutedInv, Route, Waiting
<1>7. CASE UnaryReceives
  BY <1>7 DEF RoutedInv, UnaryReceives, MainOnly, Waiting
<1>8. CASE UnaryFails \/ UnaryAnswers \/ UnaryReplies \/ UnaryReplyFails
  BY <1>8 DEF RoutedInv, UnaryFails, UnaryAnswers, UnaryReplies, UnaryReplyFails, MainOnly, Waiting
<1>9. CASE TakeHalfClose \/ TakeS2CError \/ TakeC2S
  BY <1>9 DEF RoutedInv, TakeHalfClose, TakeS2CError, TakeC2S, LoopOnly, Waiting
<1>10. CASE Return
  BY <1>10 DEF RoutedInv, Return, MainOnly, Waiting
<1> QED
  BY <1>1, <1>2, <1>3, <1>4, <1>5, <1>6, <1>7, <1>8, <1>9, <1>10 DEF Next, Main

\* It holds at the start.
LEMMA InitRouted == Init => RoutedInv
BY DEF Init, RoutedInv, Waiting

-----------------------------------------------------------------------------
(* What goes out                                                            *)

\* All of the app's messages up to the k-th are out.
Out(k) == \A m \in 1..k : Carries(up, Len(up), m)

\* The Data that are out: of the app, in order, none left out.
DataOut == \A i \in 1..Len(up) : up[i].type = "Data" =>
  /\ up[i].n \in 1..app.sent
  /\ \A j \in 1..(i - 1) : up[j].type = "Data" => up[j].n < up[i].n
  /\ \A m \in 1..(up[i].n - 1) : Carries(up, i, m)

\* An End while the loop runs has them all in front of it.
EndOut == \A i \in 1..Len(up) : up[i].type = "End" /\ main.pc = "loop" =>
  app.half /\ \A m \in 1..app.sent : Carries(up, i, m)

\* Where the sending pump is.
PumpAt ==
  /\ s2c.n <= app.sent
  /\ s2c.pc \in {"none", "recv"} => Out(s2c.n)
  /\ s2c.pc \in {"send", "publish"} => s2c.n >= 1 /\ Out(s2c.n - 1)
  /\ \A i \in 1..Len(up) : up[i].type = "Data" =>
       up[i].n <= s2c.n /\ (s2c.pc \in {"send", "publish"} => up[i].n < s2c.n)
  /\ s2cErr = "EOF" => s2c.pc = "done" /\ app.half /\ Out(app.sent)

OutInv == DataOut /\ EndOut /\ PumpAt

\* The numbers of the sending side are naturals.
LEMMA SendingSide ==
  ASSUME Typed
  PROVE  app.sent \in Nat /\ s2c.n \in 0..MaxMsgs /\ s2c.n \in Nat /\ \A i \in 1..Len(up) : up[i].n \in Nat
<1>1. app.sent \in Nat /\ s2c.n \in 0..MaxMsgs /\ s2c.n \in Nat
  BY Bound DEF Typed, AppOK, S2COK
<1>2. \A i \in 1..Len(up) : up[i] \in Sent
  BY DEF Typed, UpOK
<1> QED
  BY <1>1, <1>2, Bound DEF Sent

\* A frame more goes out: what was carried still is.
LEMMA StillOut ==
  ASSUME Typed, NEW f \in Sent, up' = Append(up, f)
  PROVE  /\ Len(up) \in Nat /\ Len(up') = Len(up) + 1 /\ up'[Len(up) + 1] = f
         /\ \A i \in 1..Len(up) : up'[i] = up[i]
         /\ \A i \in 1..Len(up') : i \in 1..Len(up) \/ i = Len(up) + 1
         /\ \A m : \A i \in 0..Len(up) : Carries(up, i, m) =>
              Carries(up', i, m) /\ Carries(up', Len(up), m) /\ Carries(up', Len(up'), m)
<1>1. up \in Seq(Sent)
  BY DEF Typed, UpOK
<1>2. /\ Len(up) \in Nat /\ Len(up') = Len(up) + 1 /\ up'[Len(up) + 1] = f
      /\ \A i \in 1..Len(up) : up'[i] = up[i]
      /\ \A i \in 1..Len(up') : i \in 1..Len(up) \/ i = Len(up) + 1
  BY <1>1, OneMore
<1>3. ASSUME NEW i \in 0..Len(up), NEW m, Carries(up, i, m)
      PROVE  Carries(up', i, m) /\ Carries(up', Len(up), m) /\ Carries(up', Len(up'), m)
  <2>1. PICK j \in 1..i : up[j] = Frame("Data", m)
    BY <1>3 DEF Carries
  <2>2. j \in 1..Len(up) /\ j \in 1..Len(up') /\ up'[j] = Frame("Data", m)
    BY <1>2, <2>1
  <2> QED
    BY <2>1, <2>2 DEF Carries
<1> QED
  BY <1>2, <1>3

\* A frame that is no Data goes out: an End of the loop has everything in front of it.
LEMMA ControlOut ==
  ASSUME Typed, OutInv, NEW f \in Sent, up' = Append(up, f), f.type # "Data",
         UNCHANGED s2c, app'.sent = app.sent, app'.half = app.half,
         s2cErr' \in {s2cErr, "nil"}, main'.pc = "loop" => main.pc = "loop",
         f.type = "End" /\ main'.pc = "loop" => app.half /\ Out(app.sent)
  PROVE  OutInv'
<1>0. /\ app.sent \in Nat /\ s2c.n \in Nat
      /\ \A i \in 1..Len(up) : up[i].n \in Nat
  BY SendingSide
<1> DEFINE n == Len(up) 
<1>1. /\ n \in Nat /\ Len(up') = n + 1 /\ up'[n + 1] = f
      /\ \A i \in 1..n : up'[i] = up[i]
      /\ \A i \in 1..Len(up') : i \in 1..n \/ i = n + 1
      /\ \A m : \A i \in 0..n : Carries(up, i, m) =>
              Carries(up', i, m) /\ Carries(up', n, m) /\ Carries(up', Len(up'), m)
  BY StillOut
<1>2. \A k : Out(k) => Out(k)'
  BY <1>1 DEF Out
<1>3. DataOut'
  <2> SUFFICES ASSUME NEW i \in 1..Len(up'), up'[i].type = "Data"
               PROVE  /\ up'[i].n \in 1..app'.sent
                      /\ \A j \in 1..(i - 1) : up'[j].type = "Data" => up'[j].n < up'[i].n
                      /\ \A m \in 1..(up'[i].n - 1) : Carries(up', i, m)
    BY DEF DataOut
  <2>1. i \in 1..n /\ up'[i] = up[i]
    BY <1>1
  <2>2. \A j \in 1..(i - 1) : j \in 1..n /\ up'[j] = up[j]
    BY <1>1, <2>1
  <2> QED
    BY <1>1, <2>1, <2>2 DEF OutInv, DataOut
<1>4. EndOut'
  <2> SUFFICES ASSUME NEW i \in 1..Len(up'), up'[i].type = "End", main'.pc = "loop"
               PROVE  app'.half /\ \A m \in 1..app'.sent : Carries(up', i, m)
    BY DEF EndOut
  <2>1. CASE i \in 1..n
    BY <1>1, <2>1 DEF OutInv, EndOut
  <2>2. CASE i = n + 1
    BY <1>1, <2>2 DEF Out
  <2> QED
    BY <1>1, <2>1, <2>2
<1>5. PumpAt'
  BY <1>1, <1>2 DEF OutInv, PumpAt
<1> QED
  BY <1>3, <1>4, <1>5 DEF OutInv

\* Nothing goes out, and the pump stays where it is.
LEMMA OutAside ==
  ASSUME Typed, OutInv, UNCHANGED <<up, s2c>>, s2cErr' \in {s2cErr, "nil"},
         main'.pc = "loop" => main.pc = "loop" \/ up = <<>>,
         app'.sent = app.sent \/ (app'.sent = app.sent + 1 /\ ~app.half),
         app.half => app'.half
  PROVE  OutInv'
<1>0. /\ app.sent \in Nat /\ s2c.n \in Nat
      /\ \A i \in 1..Len(up) : up[i].n \in Nat
  BY SendingSide
<1>1. \A k : Out(k) => Out(k)'
  BY DEF Out
<1>2. DataOut'
  BY <1>0 DEF OutInv, DataOut
<1>3. EndOut'
  BY <1>0 DEF OutInv, EndOut
<1>4. PumpAt'
  BY <1>0, <1>1 DEF OutInv, PumpAt
<1> QED
  BY <1>2, <1>3, <1>4 DEF OutInv

\* A line and two frames more, or none and one.
LEMMA TwoMore ==
  ASSUME NEW F, NEW q \in Seq(F), NEW c \in F, NEW f \in F, NEW p, p = q \o <<c>> \o <<f>>
  PROVE  /\ p \in Seq(F)
         /\ Len(q) \in Nat /\ Len(p) = Len(q) + 2 /\ p[Len(q) + 1] = c /\ p[Len(q) + 2] = f
         /\ \A i \in 1..Len(q) : p[i] = q[i]
<1>1. q \o <<c>> \in Seq(F) /\ <<f>> \in Seq(F)
  OBVIOUS
<1>2. p \in Seq(F)
  BY <1>1
<1> QED
  BY <1>2

\* The same without the first of them.
LEMMA NoneAndOneMore ==
  ASSUME NEW F, NEW q \in Seq(F), NEW f \in F, NEW p, p = q \o <<>> \o <<f>>
  PROVE  /\ p \in Seq(F)
         /\ Len(q) \in Nat /\ Len(p) = Len(q) + 1 /\ p[Len(q) + 1] = f
         /\ \A i \in 1..Len(q) : p[i] = q[i]
<1>1. q \o <<>> \in Seq(F) /\ <<f>> \in Seq(F)
  OBVIOUS
<1>2. p \in Seq(F)
  BY <1>1
<1> QED
  BY <1>2

\* The pump publishes a message, the first one behind the Call: what was carried still
\* is, and the message is the last.
LEMMA Published ==
  ASSUME Typed, S2CPublishes
  PROVE  /\ Len(up) \in Nat /\ Len(up') \in Nat /\ Len(up') > Len(up)
         /\ up'[Len(up')] = Frame("Data", s2c.n)
         /\ \A i \in 1..Len(up) : up'[i] = up[i]
         /\ \A i \in 1..Len(up') : i \in 1..Len(up) \/ i = Len(up') \/ up'[i] = Frame("Call", 0)
         /\ \A m : \A i \in 0..Len(up) : Carries(up, i, m) =>
              \A k \in i..Len(up') : Carries(up', k, m)
<1>1. PICK q \in Seq(Sent) : q = up
  BY DEF Typed, UpOK
<1>2. PICK f \in Sent : f = Frame("Data", s2c.n)
  BY SendingSide, SentFrames
<1>3. PICK c \in Sent : c = Frame("Call", 0)
  BY SentFrames
<1> USE <1>1
<1>4. PICK p \in Seq(Sent) :
        /\ p = up' /\ Len(q) \in Nat /\ Len(p) \in {Len(q) + 1, Len(q) + 2} /\ p[Len(p)] = f
        /\ \A i \in 1..Len(q) : p[i] = q[i]
        /\ \A i \in 1..Len(p) : i \in 1..Len(q) \/ i = Len(p) \/ p[i] = c
  <2>1. CASE s2c.n = 1
    <3>1. up' = q \o <<c>> \o <<f>>
      BY <1>2, <1>3, <2>1 DEF S2CPublishes
    <3>2. PICK p : p = q \o <<c>> \o <<f>>
      OBVIOUS
    <3>4. /\ p \in Seq(Sent)
          /\ Len(q) \in Nat /\ Len(p) = Len(q) + 2 /\ p[Len(q) + 1] = c /\ p[Len(q) + 2] = f
          /\ \A i \in 1..Len(q) : p[i] = q[i]
      BY <3>2, TwoMore
    <3>3. \A i \in 1..Len(p) : i \in 1..Len(q) \/ i = Len(p) \/ p[i] = c
      BY <3>4
    <3> QED
      BY <3>1, <3>2, <3>3, <3>4
  <2>2. CASE s2c.n # 1
    <3>1. up' = q \o <<>> \o <<f>>
      BY <1>2, <2>2 DEF S2CPublishes
    <3>2. PICK p : p = q \o <<>> \o <<f>>
      OBVIOUS
    <3>4. /\ p \in Seq(Sent)
          /\ Len(q) \in Nat /\ Len(p) = Len(q) + 1 /\ p[Len(q) + 1] = f
          /\ \A i \in 1..Len(q) : p[i] = q[i]
      BY <3>2, NoneAndOneMore
    <3>3. \A i \in 1..Len(p) : i \in 1..Len(q) \/ i = Len(p) \/ p[i] = c
      BY <3>4
    <3> QED
      BY <3>1, <3>2, <3>3, <3>4
  <2> QED
    BY <2>1, <2>2
<1>5. ASSUME NEW m, NEW i \in 0..Len(q), Carries(q, i, m), NEW k \in i..Len(p)
      PROVE  Carries(p, k, m)
  <2>1. PICK j \in 1..i : q[j] = Frame("Data", m)
    BY <1>5 DEF Carries
  <2>2. j \in 1..Len(q) /\ j \in 1..k
    BY <1>4, <2>1
  <2> QED
    BY <1>4, <2>1, <2>2 DEF Carries
<1>6. Len(p) \in Nat /\ Len(p) > Len(q)
  BY <1>4
<1> QED
  BY <1>2, <1>3, <1>4, <1>5, <1>6

\* It is the next message of the app.
LEMMA PublishOut ==
  ASSUME Typed, OutInv, S2CPublishes
  PROVE  OutInv'
<1>0. app.sent \in Nat /\ s2c.n \in Nat /\ \A i \in 1..Len(up) : up[i].n \in Nat
  BY SendingSide
<1> DEFINE n == Len(up)
           l == Len(up')
<1>1. /\ n \in Nat /\ l \in Nat /\ l > n
      /\ up'[l] = Frame("Data", s2c.n)
      /\ \A i \in 1..n : up'[i] = up[i]
      /\ \A i \in 1..l : i \in 1..n \/ i = l \/ up'[i] = Frame("Call", 0)
      /\ \A m : \A i \in 0..n : Carries(up, i, m) => \A k \in i..l : Carries(up', k, m)
  BY Published
<1>2. UNCHANGED <<app, main, s2cErr>> /\ s2c.pc = "publish"
      /\ s2c'.pc = "recv" /\ s2c'.n = s2c.n
  BY DEF S2CPublishes, S2COnly, Typed, S2COK
<1>3. /\ up'[l].type = "Data" /\ up'[l].n = s2c.n
      /\ Frame("Call", 0).type \notin {"Data", "End"}
  BY <1>1 DEF Frame
<1>4. /\ s2c.n >= 1 /\ s2c.n <= app.sent /\ Out(s2c.n - 1)
      /\ \A i \in 1..n : up[i].type = "Data" => up[i].n < s2c.n
  BY <1>2 DEF OutInv, PumpAt
<1>5. \A m \in 1..s2c.n : Carries(up', l, m)
  <2> SUFFICES ASSUME NEW m \in 1..s2c.n PROVE Carries(up', l, m)
    OBVIOUS
  <2>1. CASE m \in 1..(s2c.n - 1)
    BY <1>0, <1>1, <1>4, <2>1 DEF Out
  <2>2. CASE m = s2c.n
    BY <1>1, <2>2 DEF Carries
  <2> QED
    BY <1>0, <2>1, <2>2
<1>6. DataOut'
  <2> SUFFICES ASSUME NEW i \in 1..l, up'[i].type = "Data"
               PROVE  /\ up'[i].n \in 1..app.sent
                      /\ \A j \in 1..(i - 1) : up'[j].type = "Data" => up'[j].n < up'[i].n
                      /\ \A m \in 1..(up'[i].n - 1) : Carries(up', i, m)
    BY <1>2 DEF DataOut
  <2>1. CASE i \in 1..n
    <3>1. \A j \in 1..(i - 1) : j \in 1..n /\ up'[j] = up[j]
      BY <1>1, <2>1
    <3>2. \A m : Carries(up, i, m) => Carries(up', i, m)
      BY <1>1, <2>1
    <3> QED
      BY <1>1, <2>1, <3>1, <3>2 DEF OutInv, DataOut
  <2>2. CASE i = l
    <3>1. \A j \in 1..(i - 1) : up'[j].type = "Data" => j \in 1..n /\ up'[j] = up[j]
      BY <1>1, <1>3, <2>2
    <3>2. \A m \in 1..(s2c.n - 1) : Carries(up', l, m)
      BY <1>0, <1>5
    <3> QED
      BY <1>0, <1>3, <1>4, <2>2, <3>1, <3>2
  <2> QED
    BY <1>1, <1>3, <2>1, <2>2
<1>7. EndOut'
  <2> SUFFICES ASSUME NEW i \in 1..l, up'[i].type = "End", main.pc = "loop"
               PROVE  app.half /\ \A m \in 1..app.sent : Carries(up', i, m)
    BY <1>2 DEF EndOut
  <2>1. i \in 1..n /\ up'[i] = up[i]
    BY <1>1, <1>3
  <2> QED
    BY <1>1, <2>1 DEF OutInv, EndOut
<1>8. PumpAt'
  <2>1. Out(s2c.n)'
    BY <1>2, <1>5 DEF Out
  <2>2. \A i \in 1..l : up'[i].type = "Data" => up'[i].n <= s2c.n
    BY <1>0, <1>1, <1>3, <1>4
  <2>3. s2cErr # "EOF"
    BY <1>2 DEF OutInv, PumpAt
  <2> QED
    BY <1>0, <1>2, <1>4, <2>1, <2>2, <2>3 DEF PumpAt
<1> QED
  BY <1>6, <1>7, <1>8 DEF OutInv

\* The pump receives, or fails: nothing goes out.
LEMMA PumpOut ==
  ASSUME Typed, OutInv, S2CReceives \/ S2CSends
  PROVE  OutInv'
<1>0. app.sent \in Nat /\ s2c.n \in Nat /\ \A i \in 1..Len(up) : up[i].n \in Nat
  BY SendingSide
<1>1. UNCHANGED <<app, main, up>>
  BY DEF S2CReceives, S2CSends, S2COnly
<1>2. \A k : Out(k) => Out(k)'
  BY <1>1 DEF Out
<1>3. DataOut' /\ EndOut'
  BY <1>1 DEF OutInv, DataOut, EndOut
<1>4. S2COK
  BY DEF Typed
<1>5. S2CReceives => PumpAt'
  <2> SUFFICES ASSUME S2CReceives PROVE PumpAt'
    OBVIOUS
  <2>1. CASE s2c'.pc = "send"
    <3>1. s2c.n < app.sent /\ s2c'.n = s2c.n + 1 /\ UNCHANGED s2cErr /\ s2c.pc = "recv"
      BY <1>4, <2>1 DEF S2CReceives, S2COK
    <3> QED
      BY <1>0, <1>1, <1>2, <2>1, <3>1 DEF OutInv, PumpAt
  <2>2. CASE s2c'.pc # "send"
    <3>1. /\ s2c.pc = "recv" /\ s2c'.n = s2c.n /\ s2c'.pc = "done"
          /\ s2cErr' = "EOF" => app.half /\ s2c.n = app.sent
      BY <1>4, <2>2 DEF S2CReceives, S2COK
    <3> QED
      BY <1>0, <1>1, <1>2, <3>1 DEF OutInv, PumpAt
  <2> QED
    BY <2>1, <2>2
<1>6. S2CSends => PumpAt'
  <2> SUFFICES ASSUME S2CSends PROVE PumpAt'
    OBVIOUS
  <2>1. /\ s2c.pc = "send" /\ s2c'.n = s2c.n /\ s2c'.pc \in {"publish", "done"}
        /\ s2cErr' \in {s2cErr, "Closed"}
    BY <1>4 DEF S2CSends, S2COK
  <2> QED
    BY <1>0, <1>1, <1>2, <2>1 DEF OutInv, PumpAt
<1> QED
  BY <1>3, <1>5, <1>6 DEF OutInv

\* Every step preserves it.
LEMMA NextOut == Typed /\ RoutedInv /\ OutInv /\ [Next]_vars => OutInv'
<1> SUFFICES ASSUME Typed, RoutedInv, OutInv, [Next]_vars PROVE OutInv'
  OBVIOUS
<1>0. AppOK /\ MainOK /\ S2COK /\ C2SOK
  BY DEF Typed
<1>1. CASE AppSends
  <2>1. ~app.half /\ app'.sent = app.sent + 1 /\ app'.half = app.half
    BY <1>0, <1>1 DEF AppSends, AppOK
  <2> QED
    BY <1>1, <2>1, OutAside DEF AppSends, AppOnly, bridgeVars
<1>2. CASE AppHalfCloses \/ AppCancels
  <2>1. app'.sent = app.sent /\ (app.half => app'.half)
    BY <1>0, <1>2 DEF AppHalfCloses, AppCancels, AppOK
  <2> QED
    BY <1>2, <2>1, OutAside DEF AppHalfCloses, AppCancels, AppOnly, bridgeVars
<1>3. CASE RemoteSends \/ RemoteEnds \/ UNCHANGED vars
  BY <1>3, OutAside DEF RemoteSends, RemoteEnds, bridgeVars, vars
<1>4. CASE Nrpc
  <2>1. UNCHANGED <<app, main, s2c, s2cErr>>
    BY <1>4 DEF Nrpc, Reader, ReadData, ReadEnd, ReaderDone, RecordStatus, ReadExit, WatchContext,
                MonitorFires, MonitorDone, ClientCloses, NrpcOnly
  <2>2. CASE MonitorFires
    <3>1. up' = Append(up, Frame("Abort", 0)) /\ Frame("Abort", 0) \in Sent
          /\ Frame("Abort", 0).type = "Abort"
      BY <2>2, SentFrames DEF MonitorFires, Frame
    <3> QED
      BY <2>1, <3>1, ControlOut
  <2>3. CASE UNCHANGED up
    BY <2>1, <2>3, OutAside
  <2> QED
    BY <1>4, <2>2, <2>3 DEF Nrpc, Reader, ReadData, ReadEnd, ReaderDone, RecordStatus, ReadExit,
                            WatchContext, MonitorDone, ClientCloses
<1>5. CASE S2C
  BY <1>5, PumpOut, PublishOut DEF S2C
<1>6. CASE C2S
  <2>1. app'.sent = app.sent /\ app'.half = app.half
    BY <1>0, <1>6 DEF C2S, C2SReceives, C2SSends, C2SFails, AppOK
  <2> QED
    BY <1>6, <2>1, OutAside DEF C2S, C2SReceives, C2SSends, C2SFails, C2SOnly
<1>7. CASE Route
  <2>1. up = <<>>
    BY <1>7 DEF Route, RoutedInv
  <2>2. CASE UNCHANGED s2c
    BY <1>7, <2>1, <2>2, OutAside DEF Route
  <2>3. CASE s2c' = [s2c EXCEPT !.pc = "recv"]
    <3>1. s2c.pc = "none" /\ s2c'.pc = "recv" /\ s2c'.n = s2c.n /\ UNCHANGED <<app, up, s2cErr>>
      BY <1>0, <1>7, <2>3 DEF Route, RoutedInv, S2COK
    <3>2. \A k : Out(k) => Out(k)'
      BY <3>1 DEF Out
    <3>3. DataOut' /\ EndOut'
      BY <2>1, <3>1 DEF OutInv, DataOut, EndOut
    <3>4. PumpAt'
      BY <2>1, <3>1, <3>2 DEF OutInv, PumpAt
    <3> QED
      BY <3>3, <3>4 DEF OutInv
  <2> QED
    BY <1>7, <2>2, <2>3 DEF Route
<1>8. CASE UnaryReceives
  <2>1. main'.pc \in {"invoke", "return"} /\ UNCHANGED <<app, s2c, s2cErr>>
    BY <1>0, <1>8 DEF UnaryReceives, MainOnly, MainOK
  <2>2. CASE UNCHANGED up
    BY <2>1, <2>2, OutAside
  <2>3. CASE up' = Append(up, Frame("Unary", 0))
    <3>1. Frame("Unary", 0) \in Sent /\ Frame("Unary", 0).type = "Unary"
      BY SentFrames DEF Frame
    <3> QED
      BY <2>1, <2>3, <3>1, ControlOut
  <2> QED
    BY <1>8, <2>2, <2>3 DEF UnaryReceives
<1>9. CASE UnaryFails \/ UnaryAnswers \/ UnaryReplies \/ UnaryReplyFails
  <2>1. main'.pc \in {"reply", "return"} /\ UNCHANGED <<up, s2c, s2cErr>>
    BY <1>0, <1>9 DEF UnaryFails, UnaryAnswers, UnaryReplies, UnaryReplyFails, MainOnly, MainOK
  <2>2. app'.sent = app.sent /\ app'.half = app.half
    BY <1>0, <1>9 DEF UnaryFails, UnaryAnswers, UnaryReplies, UnaryReplyFails, AppOK
  <2> QED
    BY <2>1, <2>2, OutAside
<1>10. CASE TakeHalfClose
  <2>1. UNCHANGED <<app, s2c, main>> /\ s2cErr' = "nil" /\ app.half /\ Out(app.sent)
    BY <1>10 DEF TakeHalfClose, LoopOnly, OutInv, PumpAt
  <2>2. CASE UNCHANGED up
    BY <2>1, <2>2, OutAside
  <2>3. CASE up' = Append(up, Frame("End", 0))
    <3>1. Frame("End", 0) \in Sent /\ Frame("End", 0).type = "End"
      BY SentFrames DEF Frame
    <3> QED
      BY <2>1, <2>3, <3>1, ControlOut
  <2> QED
    BY <1>10, <2>2, <2>3 DEF TakeHalfClose, CloseSend
<1>11. CASE TakeS2CError \/ TakeC2S
  <2>1. main'.pc = "return" /\ UNCHANGED <<app, up, s2c>> /\ s2cErr' \in {s2cErr, "nil"}
    BY <1>11 DEF TakeS2CError, TakeC2S, LoopOnly
  <2> QED
    BY <2>1, OutAside
<1>12. CASE Return
  <2>1. main'.pc = "gone" /\ UNCHANGED <<s2c, s2cErr>>
    BY <1>0, <1>12 DEF Return, MainOnly, MainOK
  <2>2. app'.sent = app.sent /\ app'.half = app.half
    BY <1>0, <1>12 DEF Return, AppOK
  <2>3. CASE UNCHANGED up
    BY <2>1, <2>2, <2>3, OutAside
  <2>4. CASE up' = Append(up, Frame("End", 0))
    <3>1. Frame("End", 0) \in Sent /\ Frame("End", 0).type = "End"
      BY SentFrames DEF Frame
    <3> QED
      BY <2>1, <2>2, <2>4, <3>1, ControlOut
  <2> QED
    BY <1>12, <2>3, <2>4 DEF Return, CloseSend
<1> QED
  BY <1>1, <1>2, <1>3, <1>4, <1>5, <1>6, <1>7, <1>8, <1>9, <1>10, <1>11, <1>12 DEF Next, Main

\* It holds at the start.
LEMMA InitOut == Init => OutInv
<1> SUFFICES ASSUME Init PROVE OutInv
  OBVIOUS
<1>1. up = <<>> /\ s2c.pc = "none" /\ s2c.n = 0 /\ app.sent = 0 /\ s2cErr = "nil"
  BY DEF Init
<1>2. Len(up) = 0 /\ \A k \in 1..0 : FALSE
  BY <1>1
<1> QED
  BY <1>1, <1>2 DEF OutInv, DataOut, EndOut, PumpAt, Out

\* What goes out towards the server is the app's messages in order, each once; a clean
\* End, the half-close of the protocol, goes out while the call runs only when the app
\* has half-closed and behind all its messages, although the goroutine that publishes it
\* is not the one that publishes them, and pongMonitor may publish its own End, which
\* carries Unavailable, anywhere between; an invalid call publishes nothing
\* (StreamBridge's HalfCloseComplete).
THEOREM HalfCloseComesLast == Spec => []HalfCloseComplete
<1>1. OutInv /\ RoutedInv => HalfCloseComplete
  BY DEF OutInv, DataOut, EndOut, RoutedInv, HalfCloseComplete
<1> QED
  BY <1>1, InitTyped, NextTyped, InitRouted, NextRouted, InitOut, NextOut, PTL DEF Spec

-----------------------------------------------------------------------------
(* How the server's end gets to the pump                                    *)

\* An End is the last frame and says how the server ended; once the clientStream has
\* read it nothing is left, and what it read is what the pump will report; the server of
\* a unary call sends nothing but the End.
EndsInv ==
  /\ \A i \in 1..Len(down) : down[i].type # "Data" => down[i].type = remote.ended /\ i = Len(down)
  /\ nrpc.eof => down = <<>> /\ remote.ended = "OK"
  /\ nrpc.reader = "ok" => nrpc.eof
  /\ nrpc.reader \in {"status", "record"} \/ nrpc.status => remote.ended = "Status"
  /\ call.request = "unary" => /\ \A i \in 1..Len(up) : up[i].type = "Unary"
                               /\ \A i \in 1..Len(down) : down[i].type # "Data"

\* The numbers of the receiving side.
LEMMA ReceivingSide ==
  ASSUME Typed
  PROVE  /\ down \in Seq(Received) /\ Len(down) \in Nat
         /\ \A i \in 1..Len(down) : down[i] \in Received /\ down[i].n \in Nat
         /\ remote.sent \in Nat /\ remote.ended \in {"no", "OK", "Status"}
         /\ nrpc.recv \in Seq(1..MaxMsgs) /\ Len(nrpc.recv) \in Nat /\ Len(nrpc.recv) <= 1
         /\ app.got \in Seq(1..MaxMsgs) /\ Len(app.got) \in Nat /\ c2s.n \in Nat
<1>1. down \in Seq(Received) /\ Len(down) \in Nat /\ \A i \in 1..Len(down) : down[i] \in Received
  BY DEF Typed, DownOK
<1>2. \A f \in Received : f.n \in Nat
  BY Bound DEF Received
<1>3. remote.sent \in Nat /\ remote.ended \in {"no", "OK", "Status"} /\ c2s.n \in Nat
  BY Bound DEF Typed, RemoteOK, C2SOK
<1>4. nrpc.recv \in Seq(1..MaxMsgs) /\ Len(nrpc.recv) <= 1 /\ app.got \in Seq(1..MaxMsgs)
  BY DEF Typed, NrpcOK, AppOK
<1>5. Len(nrpc.recv) \in Nat /\ Len(app.got) \in Nat
  BY <1>4
<1> QED
  BY <1>1, <1>2, <1>3, <1>4, <1>5

\* What becomes of a frame: it finds the subscription gone, or it waits, or it is lost.
LEMMA Arrival ==
  ASSUME NEW f, NEW kind, Arrives(f, kind)
  PROVE  \/ nrpc.closed /\ UNCHANGED <<down, lost>>
         \/ ~nrpc.closed /\ down' = Append(down, f) /\ UNCHANGED lost
         \/ UNCHANGED down /\ lost' = lost \cup {kind}
BY DEF Arrives

\* What a step of the clientStream that takes no frame leaves alone.
LEMMA NrpcAside ==
  ASSUME Typed, ReaderDone \/ RecordStatus \/ ReadExit \/ WatchContext \/ MonitorFires \/ MonitorDone
                \/ ClientCloses
  PROVE  /\ UNCHANGED <<call, main, s2c, c2s, s2cErr, c2sErr, app, remote, down, lost>>
         /\ nrpc'.recv = nrpc.recv /\ nrpc'.eof = nrpc.eof
         /\ nrpc.closed => nrpc'.closed
         /\ nrpc'.reader \in {nrpc.reader, "exit"} \/ (nrpc.reader = "status" /\ nrpc'.reader = "record")
         /\ nrpc'.status = nrpc.status \/ nrpc.reader = "record"
         /\ UNCHANGED up \/ s2c.pc # "none"
<1>0. NrpcOK
  BY DEF Typed
<1>1. CASE ReaderDone
  BY <1>0, <1>1 DEF NrpcOK, ReaderDone, NrpcOnly
<1>2. CASE RecordStatus
  BY <1>0, <1>2 DEF NrpcOK, RecordStatus, NrpcOnly
<1>3. CASE ReadExit
  BY <1>0, <1>3 DEF NrpcOK, ReadExit, NrpcOnly
<1>4. CASE WatchContext
  BY <1>0, <1>4 DEF NrpcOK, WatchContext, NrpcOnly
<1>5. CASE MonitorFires
  BY <1>0, <1>5 DEF NrpcOK, MonitorFires, NrpcOnly
<1>6. CASE MonitorDone
  BY <1>0, <1>6 DEF NrpcOK, MonitorDone, NrpcOnly
<1>7. CASE ClientCloses
  BY <1>0, <1>7 DEF NrpcOK, ClientCloses, NrpcOnly
<1> QED
  BY <1>1, <1>2, <1>3, <1>4, <1>5, <1>6, <1>7

\* What does not touch it.
LEMMA EndsAside ==
  ASSUME EndsInv, UNCHANGED <<call, down, remote>>,
         nrpc'.eof = nrpc.eof, nrpc'.reader = nrpc.reader, nrpc'.status = nrpc.status,
         call.request = "unary" => UNCHANGED up
  PROVE  EndsInv'
BY DEF EndsInv

\* The clientStream takes the first frame.
LEMMA TakeFrame ==
  ASSUME Typed, down # <<>>, down' = Tail(down)
  PROVE  /\ Head(down) = down[1] /\ 1 \in 1..Len(down)
         /\ Len(down) \in Nat /\ Len(down') = Len(down) - 1
         /\ \A i \in 1..Len(down') : i + 1 \in 1..Len(down) /\ down'[i] = down[i + 1]
         /\ Len(down) = 1 => down' = <<>>
<1>1. PICK q \in Seq(Received) : q = down
  BY ReceivingSide
<1>2. q # <<>> /\ down' = Tail(q)
  BY <1>1
<1>3. Len(Tail(q)) = 0 => Tail(q) = <<>>
  BY <1>2
<1> QED
  BY <1>1, <1>2, <1>3, TailOf

\* The server sends a message or ends the call.
LEMMA AddFrame ==
  ASSUME Typed, NEW f \in Received, down' = Append(down, f)
  PROVE  /\ Len(down) \in Nat /\ Len(down') = Len(down) + 1 /\ down'[Len(down) + 1] = f
         /\ \A i \in 1..Len(down) : down'[i] = down[i]
         /\ \A i \in 1..Len(down') : i \in 1..Len(down) \/ i = Len(down) + 1
<1>1. PICK q \in Seq(Received) : q = down
  BY ReceivingSide
<1> QED
  BY <1>1, OneMore

\* As long as the server has not ended the call, its Data are all there is.
LEMMA NotEnded ==
  ASSUME Typed, EndsInv, remote.ended = "no"
  PROVE  /\ \A i \in 1..Len(down) : down[i].type = "Data"
         /\ ~nrpc.eof /\ ~nrpc.status /\ nrpc.reader \notin {"ok", "status", "record"}
<1>1. \A i \in 1..Len(down) : down[i].type \in {"Data", "OK", "Status"}
  BY ReceivingSide DEF Received
<1> QED
  BY <1>1 DEF EndsInv

\* Every step preserves it.
LEMMA NextEnds == Typed /\ RoutedInv /\ EndsInv /\ [Next]_vars => EndsInv'
<1> SUFFICES ASSUME Typed, RoutedInv, EndsInv, [Next]_vars PROVE EndsInv'
  OBVIOUS
<1>0. MainOK /\ NrpcOK /\ UpOK /\ RemoteOK
  BY DEF Typed
<1>1. CASE AppSends \/ AppHalfCloses \/ AppCancels
  BY <1>1, EndsAside DEF AppSends, AppHalfCloses, AppCancels, AppOnly, bridgeVars, wireVars
<1>2. CASE RemoteSends
  <2> DEFINE f == Frame("Data", remote.sent + 1)
  <2>1. f \in Received /\ f.type = "Data"
    BY <1>0, <1>2, Bound DEF RemoteSends, RemoteOK, Frame, Received
  <2>2. /\ Arrives(f, "Data") /\ UNCHANGED <<call, nrpc, up>>
        /\ remote.ended = "no" /\ remote'.ended = "no" /\ Called
    BY <1>0, <1>2 DEF RemoteSends, bridgeVars, RemoteOK
  <2> HIDE DEF f
  <2>3. /\ \A i \in 1..Len(down) : down[i].type = "Data"
        /\ ~nrpc.eof /\ ~nrpc.status /\ nrpc.reader \notin {"ok", "status", "record"}
    BY <2>2, NotEnded
  <2>4. call.request # "unary"
    BY <2>2 DEF EndsInv, Called
  <2>5. \A i \in 1..Len(down') : down'[i].type = "Data"
    <3>1. CASE UNCHANGED down
      BY <2>3, <3>1
    <3>2. CASE down' = Append(down, f)
      BY <2>1, <2>3, <3>2, AddFrame
    <3> QED
      BY <2>2, <3>1, <3>2, Arrival
  <2> QED
    BY <2>2, <2>3, <2>4, <2>5 DEF EndsInv
<1>3. CASE RemoteEnds
  <2>1. PICK s \in {"OK", "Status"} :
          remote' = [remote EXCEPT !.ended = s] /\ Arrives(Frame(s, 0), "End")
    BY <1>3 DEF RemoteEnds
  <2>2. Frame(s, 0) \in Received /\ Frame(s, 0).type = s /\ remote'.ended = s /\ s # "Data"
    BY <1>0, <2>1, Bound DEF Frame, Received, RemoteOK
  <2>3. UNCHANGED <<call, nrpc, up>> /\ remote.ended = "no"
    BY <1>3 DEF RemoteEnds, bridgeVars
  <2>4. /\ \A i \in 1..Len(down) : down[i].type = "Data"
        /\ ~nrpc.eof /\ ~nrpc.status /\ nrpc.reader \notin {"ok", "status", "record"}
    BY <2>3, NotEnded
  <2>5. \A i \in 1..Len(down') :
          \/ i \in 1..Len(down) /\ down'[i] = down[i]
          \/ i = Len(down') /\ down'[i].type = s
    <3>1. CASE UNCHANGED down
      BY <3>1
    <3>2. CASE down' = Append(down, Frame(s, 0))
      BY <2>2, <3>2, AddFrame
    <3> QED
      BY <2>1, <3>1, <3>2, Arrival
  <2>6. \A i \in 1..Len(down') : down'[i].type # "Data" => down'[i].type = s /\ i = Len(down')
    BY <2>4, <2>5
  <2>7. call.request = "unary" => \A i \in 1..Len(down') : down'[i].type # "Data"
    BY <2>2, <2>5 DEF EndsInv
  <2> QED
    BY <2>2, <2>3, <2>4, <2>6, <2>7 DEF EndsInv
<1>4. ASSUME down # <<>>, down' = Tail(down), UNCHANGED <<call, remote, up>>,
             nrpc'.eof = nrpc.eof, nrpc'.reader = nrpc.reader, nrpc'.status = nrpc.status
      PROVE  EndsInv'
  <2>1. ~nrpc.eof
    BY <1>4 DEF EndsInv
  <2>2. \A i \in 1..Len(down') : down'[i].type # "Data" => down'[i].type = remote.ended /\ i = Len(down')
    <3> SUFFICES ASSUME NEW i \in 1..Len(down'), down'[i].type # "Data"
                 PROVE  down'[i].type = remote.ended /\ i = Len(down')
      OBVIOUS
    <3>1. i + 1 \in 1..Len(down) /\ down'[i] = down[i + 1] /\ Len(down') = Len(down) - 1
          /\ Len(down) \in Nat
      BY <1>4, TakeFrame
    <3>2. i + 1 = Len(down) /\ down[i + 1].type = remote.ended
      BY <3>1 DEF EndsInv
    <3> QED
      BY <3>1, <3>2
  <2>3. call.request = "unary" => \A i \in 1..Len(down') : down'[i].type # "Data"
    <3>1. \A i \in 1..Len(down') : i + 1 \in 1..Len(down) /\ down'[i] = down[i + 1]
      BY <1>4, TakeFrame, Zenon
    <3>2. call.request = "unary" => \A i \in 1..Len(down) : down[i].type # "Data"
      BY DEF EndsInv
    <3> QED
      BY <3>1, <3>2, Zenon
  <2> QED
    BY <1>4, <2>1, <2>2, <2>3 DEF EndsInv
<1>5. CASE ReadData
  <2>1. nrpc'.eof = nrpc.eof /\ nrpc'.reader = nrpc.reader /\ nrpc'.status = nrpc.status
    BY <1>0, <1>5 DEF ReadData, NrpcOK
  <2> QED
    BY <1>4, <1>5, <2>1 DEF ReadData, NrpcOnly
<1>6. CASE ReadEnd
  <2>1. /\ down # <<>> /\ Head(down).type # "Data" /\ down' = Tail(down)
        /\ nrpc' = IF Head(down).type = "OK" THEN [nrpc EXCEPT !.eof = TRUE, !.reader = "ok"]
                   ELSE [nrpc EXCEPT !.reader = "status"]
        /\ UNCHANGED <<call, remote, up>> /\ call.request = "streaming"
    BY <1>6 DEF ReadEnd, NrpcOnly
  <2>2. Head(down).type = remote.ended /\ Len(down) = 1 /\ down' = <<>> /\ Head(down) \in Received
    BY <2>1, TakeFrame, ReceivingSide DEF EndsInv
  <2>3. remote.ended = "OK" \/ remote.ended = "Status"
    BY <2>1, <2>2 DEF Received
  <2>4. \A i \in 1..Len(down') : FALSE
    BY <2>2
  <2>5. CASE Head(down).type = "OK"
    <3>1. nrpc'.eof /\ nrpc'.reader = "ok" /\ nrpc'.status = nrpc.status
      BY <1>0, <2>1, <2>5 DEF NrpcOK
    <3> QED
      BY <2>1, <2>2, <2>4, <2>5, <3>1 DEF EndsInv
  <2>6. CASE Head(down).type = "Status"
    <3>1. nrpc'.eof = nrpc.eof /\ nrpc'.reader = "status" /\ nrpc'.status = nrpc.status
      BY <1>0, <2>1, <2>6 DEF NrpcOK
    <3> QED
      BY <2>1, <2>2, <2>4, <2>6, <3>1 DEF EndsInv
  <2> QED
    BY <2>2, <2>3, <2>5, <2>6
<1>7. CASE ReaderDone \/ RecordStatus \/ ReadExit \/ WatchContext \/ MonitorFires \/ MonitorDone
           \/ ClientCloses
  <2>1. /\ UNCHANGED <<call, remote, down>> /\ nrpc'.eof = nrpc.eof
        /\ nrpc'.reader \in {nrpc.reader, "exit"} \/ (nrpc.reader = "status" /\ nrpc'.reader = "record")
        /\ nrpc'.status = nrpc.status \/ nrpc.reader = "record"
        /\ UNCHANGED up \/ s2c.pc # "none"
    BY <1>7, NrpcAside
  <2>2. call.request = "unary" => UNCHANGED up
    BY <2>1 DEF RoutedInv
  <2> QED
    BY <2>1, <2>2 DEF EndsInv
<1>9. CASE S2C
  <2>1. UNCHANGED <<call, down, remote, nrpc>> /\ call.request = "streaming"
    BY <1>9 DEF S2C, S2CReceives, S2CSends, S2CPublishes, S2COnly, RoutedInv, wireVars
  <2> QED
    BY <2>1, EndsAside
<1>10. CASE C2S
  <2>1. /\ UNCHANGED <<call, down, remote, up>>
        /\ nrpc'.eof = nrpc.eof /\ nrpc'.reader = nrpc.reader /\ nrpc'.status = nrpc.status
    BY <1>0, <1>10 DEF C2S, C2SReceives, C2SSends, C2SFails, C2SOnly, NrpcOK, wireVars
  <2> QED
    BY <2>1, EndsAside
<1>11. CASE Route
  BY <1>11, EndsAside DEF Route, wireVars
<1>12. CASE UnaryReceives
  <2>1. UNCHANGED <<call, down, remote, nrpc>>
    BY <1>12 DEF UnaryReceives, MainOnly
  <2>2. CASE UNCHANGED up
    BY <2>1, <2>2, EndsAside
  <2>3. CASE up' = Append(up, Frame("Unary", 0))
    <3>1. Frame("Unary", 0) \in Sent /\ Frame("Unary", 0).type = "Unary"
      BY SentFrames DEF Frame
    <3>2. call.request = "unary" => \A i \in 1..Len(up') : up'[i].type = "Unary"
      BY <2>3, <3>1, StillOut DEF EndsInv
    <3> QED
      BY <2>1, <3>2 DEF EndsInv
  <2> QED
    BY <1>12, <2>2, <2>3 DEF UnaryReceives
<1>13. CASE UnaryFails \/ UnaryAnswers \/ UnaryReplies \/ UnaryReplyFails
  <2>1. UNCHANGED <<call, remote, up, nrpc>>
    BY <1>13 DEF UnaryFails, UnaryAnswers, UnaryReplies, UnaryReplyFails, MainOnly
  <2>2. CASE UNCHANGED down
    BY <2>1, <2>2, EndsAside
  <2>3. CASE down # <<>> /\ down' = Tail(down)
    BY <1>4, <2>1, <2>3
  <2> QED
    BY <1>13, <2>2, <2>3 DEF UnaryFails, UnaryAnswers, UnaryReplies, UnaryReplyFails
<1>14. CASE TakeHalfClose \/ TakeS2CError \/ TakeC2S
  <2>1. /\ UNCHANGED <<call, down, remote>> /\ call.request = "streaming"
        /\ nrpc'.eof = nrpc.eof /\ nrpc'.reader = nrpc.reader /\ nrpc'.status = nrpc.status
    BY <1>0, <1>14 DEF TakeHalfClose, TakeS2CError, TakeC2S, LoopOnly, RoutedInv, NrpcOK, wireVars
  <2> QED
    BY <2>1, EndsAside
<1>15. CASE Return
  <2>1. call.request = "unary" => UNCHANGED up
    BY <1>15 DEF Return
  <2> QED
    BY <1>15, <2>1, EndsAside DEF Return, MainOnly
<1>16. CASE UNCHANGED vars
  BY <1>16, EndsAside DEF vars, bridgeVars, wireVars
<1> QED
  BY <1>1, <1>2, <1>3, <1>5, <1>6, <1>7, <1>9, <1>10, <1>11, <1>12, <1>13, <1>14, <1>15, <1>16
     DEF Next, Nrpc, Reader, Main

\* It holds at the start.
LEMMA InitEnds == Init => EndsInv
<1> SUFFICES ASSUME Init PROVE EndsInv
  OBVIOUS
<1>1. down = <<>> /\ up = <<>> /\ nrpc.reader = "run" /\ ~nrpc.eof /\ ~nrpc.status
  BY DEF Init
<1>2. Len(down) = 0 /\ Len(up) = 0
  BY <1>1
<1> QED
  BY <1>1, <1>2 DEF EndsInv

-----------------------------------------------------------------------------
(* What comes in                                                            *)

\* How many messages have left the wire: the app has them, the pump or the channel.
Taken == Len(app.got) + (IF c2s.pc = "send" THEN 1 ELSE 0) + Len(nrpc.recv)

\* The rest of the server's messages is on the wire, in order; what comes after done has
\* unsubscribed does not count, unless everything was read before.
OnWire(k) ==
  /\ \A i \in 1..Len(down) : down[i].type = "Data" => down[i].n = k + i
  /\ (\A i \in 1..Len(down) : down[i].type = "Data") =>
       /\ k + Len(down) <= remote.sent
       /\ ~nrpc.closed \/ nrpc.eof => remote.sent = k + Len(down)
  /\ (\E i \in 1..Len(down) : down[i].type # "Data") => remote.sent = k + Len(down) - 1

\* Unless a full msgCh dropped one, and until the pump gives up, the app's messages, the
\* pump's, the channel's and those on the wire are all that the server sent.
LineInv == call.request = "streaming" /\ "Data" \notin lost =>
  /\ \A i \in 1..Len(app.got) : app.got[i] = i
  /\ Len(app.got) <= remote.sent
  /\ c2s.pc # "done" =>
       /\ c2s.pc = "send" => c2s.n = Len(app.got) + 1
       /\ nrpc.recv # <<>> => nrpc.recv[1] = Taken
       /\ OnWire(Taken)

\* It is a number, of which the app has its part.
LEMMA TakenIs ==
  ASSUME Typed
  PROVE  /\ Taken \in Nat /\ Len(app.got) <= Taken
         /\ c2s.pc = "send" => Taken = Len(app.got) + 1 + Len(nrpc.recv) /\ Len(app.got) + 1 <= Taken
         /\ c2s.pc # "send" => Taken = Len(app.got) + Len(nrpc.recv)
<1>1. PICK a \in Nat, b \in Nat : a = Len(app.got) /\ b = Len(nrpc.recv)
  BY ReceivingSide
<1>2. CASE c2s.pc = "send"
  <2>1. Taken = a + 1 + b
    BY <1>1, <1>2 DEF Taken
  <2>2. a + 1 + b \in Nat /\ a <= a + 1 + b /\ a + 1 <= a + 1 + b
    OBVIOUS
  <2> QED
    BY <1>1, <1>2, <2>1, <2>2, Zenon
<1>3. CASE c2s.pc # "send"
  <2>1. Taken = a + 0 + b
    BY <1>1, <1>3 DEF Taken
  <2>2. a + 0 + b \in Nat /\ a <= a + 0 + b /\ a + 0 + b = a + b
    OBVIOUS
  <2> QED
    BY <1>1, <1>3, <2>1, <2>2, Zenon
<1> QED
  BY <1>2, <1>3

\* What does not touch it.
LEMMA LineAside ==
  ASSUME LineInv, UNCHANGED <<call, down, c2s, remote, lost>>, nrpc'.recv = nrpc.recv,
         nrpc'.eof = nrpc.eof, nrpc.closed => nrpc'.closed, app'.got = app.got
  PROVE  LineInv'
<1>1. Taken' = Taken
  BY DEF Taken
<1>2. \A k : OnWire(k) => OnWire(k)'
  BY DEF OnWire
<1> QED
  BY <1>1, <1>2 DEF LineInv

\* What is taken is not more than what was sent.
LEMMA TakenSent ==
  ASSUME Typed, NEW k \in Nat, OnWire(k)
  PROVE  k <= remote.sent
BY ReceivingSide DEF OnWire

\* The server's steps and the clientStream's preserve it.
LEMMA WireLine ==
  ASSUME Typed, EndsInv, LineInv, RemoteSends \/ RemoteEnds \/ Nrpc
  PROVE  LineInv'
<1>0. MainOK /\ NrpcOK /\ UpOK /\ RemoteOK
  BY DEF Typed
<1>k. Taken \in Nat
  BY TakenIs
<1> DEFINE l == Len(down)
<1>n. l \in Nat /\ remote.sent \in Nat
  BY ReceivingSide
<1>1. CASE RemoteSends
  <2> DEFINE f == Frame("Data", remote.sent + 1)
  <2>1. f \in Received /\ f.type = "Data" /\ f.n = remote.sent + 1
    BY <1>0, <1>1, Bound DEF RemoteSends, RemoteOK, Frame, Received
  <2>2. /\ Arrives(f, "Data") /\ UNCHANGED <<call, nrpc, app, c2s>>
        /\ remote.ended = "no" /\ remote'.sent = remote.sent + 1
    BY <1>0, <1>1 DEF RemoteSends, bridgeVars, RemoteOK
  <2> HIDE DEF f
  <2>3. (\A i \in 1..l : down[i].type = "Data") /\ ~nrpc.eof
    BY <2>2, NotEnded
  <2>4. UNCHANGED <<call, nrpc, app, c2s>> /\ remote'.sent = remote.sent + 1
    BY <2>2
  <2>6. Taken' = Taken
    BY <2>4 DEF Taken
  <2>a. CASE nrpc.closed /\ UNCHANGED <<down, lost>>
    <3>1. ASSUME NEW k \in Nat, OnWire(k) PROVE OnWire(k)'
      BY <1>n, <2>2, <2>3, <2>a, <3>1 DEF OnWire
    <3> QED
      BY <1>k, <1>n, <2>2, <2>6, <2>a, <3>1, ReceivingSide DEF LineInv
  <2>b. CASE ~nrpc.closed /\ down' = Append(down, f) /\ UNCHANGED lost
    <3>4. /\ Len(down') = l + 1
          /\ \A i \in 1..Len(down') : (i \in 1..l /\ down'[i] = down[i]) \/ (i = l + 1 /\ down'[i] = f)
      BY <2>1, <2>b, AddFrame
    <3>5. ASSUME NEW k \in Nat, OnWire(k) PROVE OnWire(k)'
      <4>1. remote.sent = k + l
        BY <2>3, <2>b, <3>5 DEF OnWire
      <4>2. \A i \in 1..Len(down') : down'[i].type = "Data" /\ down'[i].n = k + i
        <5>1. \A i \in 1..l : down[i].type = "Data" /\ down[i].n = k + i
          BY <2>3, <3>5 DEF OnWire
        <5>2. f.type = "Data" /\ f.n = k + (l + 1)
          BY <1>n, <2>1, <4>1
        <5> QED
          BY <3>4, <5>1, <5>2
      <4>3. remote'.sent = k + Len(down')
        BY <1>n, <2>4, <3>4, <4>1
      <4>4. k + Len(down') <= remote'.sent
        BY <1>n, <3>4, <4>3
      <4> QED
        BY <4>2, <4>3, <4>4 DEF OnWire
    <3>6. LineInv /\ UNCHANGED <<call, nrpc, app, c2s>> /\ (Len(app.got) <= remote.sent =>
                                                        Len(app.got) <= remote'.sent)
      BY <1>n, <2>4, ReceivingSide
    <3> QED
      BY <1>k, <2>6, <2>b, <3>5, <3>6 DEF LineInv
  <2>c. CASE "Data" \in lost'
    BY <2>c DEF LineInv
  <2> QED
    BY <2>2, <2>a, <2>b, <2>c, Arrival
<1>2. CASE RemoteEnds
  <2>1. PICK s \in {"OK", "Status"} :
          remote' = [remote EXCEPT !.ended = s] /\ Arrives(Frame(s, 0), "End")
    BY <1>2 DEF RemoteEnds
  <2>2. Frame(s, 0) \in Received /\ Frame(s, 0).type = s /\ remote'.sent = remote.sent /\ s # "Data"
    BY <1>0, <2>1, Bound DEF Frame, Received, RemoteOK
  <2>3. UNCHANGED <<call, nrpc, app, c2s>> /\ remote.ended = "no"
    BY <1>2 DEF RemoteEnds, bridgeVars
  <2>4. \A i \in 1..l : down[i].type = "Data"
    BY <2>3, NotEnded
  <2>7. Taken' = Taken
    BY <2>3 DEF Taken
  <2>a. CASE UNCHANGED down /\ ("Data" \in lost => "Data" \in lost')
    <3>1. ASSUME NEW k \in Nat, OnWire(k) PROVE OnWire(k)'
      BY <2>2, <2>3, <2>a, <3>1 DEF OnWire
    <3> QED
      BY <1>k, <2>2, <2>3, <2>7, <2>a, <3>1 DEF LineInv
  <2>b. CASE ~nrpc.closed /\ down' = Append(down, Frame(s, 0)) /\ UNCHANGED lost
    <3>5. /\ Len(down') = l + 1
          /\ \A i \in 1..Len(down') :
               (i \in 1..l /\ down'[i] = down[i]) \/ (i = l + 1 /\ down'[i].type = s)
          /\ down'[l + 1].type = s
      BY <2>2, <2>b, AddFrame
    <3>6. ASSUME NEW k \in Nat, OnWire(k) PROVE OnWire(k)'
      <4>1. remote.sent = k + l
        BY <2>4, <2>b, <3>6 DEF OnWire
      <4>2. \A i \in 1..Len(down') : down'[i].type = "Data" => down'[i].n = k + i
        BY <2>2, <3>5, <3>6 DEF OnWire
      <4>3. l + 1 \in 1..Len(down') /\ down'[l + 1].type # "Data" /\ remote.sent = k + Len(down') - 1
        BY <1>n, <2>2, <3>5, <4>1
      <4> QED
        BY <2>2, <4>2, <4>3 DEF OnWire
    <3> QED
      BY <1>k, <2>2, <2>3, <2>7, <2>b, <3>6 DEF LineInv
  <2> QED
    BY <2>1, <2>a, <2>b, Arrival
<1>3. CASE ReadData
  <2>1. /\ down # <<>> /\ Head(down).type = "Data" /\ down' = Tail(down) /\ nrpc.recv = <<>>
        /\ nrpc' = [nrpc EXCEPT !.recv = <<Head(down).n>>] /\ UNCHANGED <<call, app, c2s, remote, lost>>
    BY <1>3 DEF ReadData, NrpcOnly
  <2>2. /\ Head(down) = down[1] /\ 1 \in 1..l
        /\ Len(down') = l - 1
        /\ \A i \in 1..Len(down') : i + 1 \in 1..l /\ down'[i] = down[i + 1]
    BY <2>1, TakeFrame
  <2>3. nrpc'.recv = <<down[1].n>> /\ Len(nrpc'.recv) = 1 /\ nrpc'.recv[1] = down[1].n
    BY <1>0, <2>1, <2>2 DEF NrpcOK
  <2>r. nrpc'.eof = nrpc.eof /\ nrpc'.closed = nrpc.closed
    BY <1>0, <2>1 DEF NrpcOK
  <2>4. Len(nrpc.recv) = 0
    BY <2>1
  <2>5. Taken' = Taken + 1
    BY <2>1, <2>3, <2>4, ReceivingSide DEF Taken
  <2>7. (\A i \in 1..Len(down') : down'[i].type = "Data") => \A i \in 1..l : down[i].type = "Data"
    <3> SUFFICES ASSUME \A i \in 1..Len(down') : down'[i].type = "Data", NEW i \in 1..l, i # 1
                 PROVE  down[i].type = "Data"
      BY <2>1, <2>2
    <3>1. i - 1 \in 1..Len(down') /\ (i - 1) + 1 = i
      BY <1>n, <2>2
    <3> QED
      BY <2>2, <3>1
  <2>6. ASSUME NEW k \in Nat, OnWire(k) PROVE OnWire(k + 1)' /\ down[1].n = k + 1
    <3>1. down[1].n = k + 1
      BY <2>1, <2>2, <2>6 DEF OnWire
    <3>2. \A i \in 1..Len(down') : down'[i].type = "Data" => down'[i].n = (k + 1) + i
      BY <1>n, <2>2, <2>6 DEF OnWire
    <3>3. (\A i \in 1..Len(down') : down'[i].type = "Data") =>
             /\ (k + 1) + Len(down') <= remote.sent
             /\ ~nrpc.closed \/ nrpc.eof => remote.sent = (k + 1) + Len(down')
      BY <1>n, <2>2, <2>6, <2>7 DEF OnWire
    <3>4. (\E i \in 1..Len(down') : down'[i].type # "Data") =>
             remote.sent = (k + 1) + Len(down') - 1
      <4> SUFFICES ASSUME NEW i \in 1..Len(down'), down'[i].type # "Data"
                   PROVE  remote.sent = (k + 1) + Len(down') - 1
        OBVIOUS
      <4>1. i + 1 \in 1..l /\ down[i + 1].type # "Data"
        BY <2>2
      <4>2. remote.sent = k + l - 1
        BY <2>6, <4>1 DEF OnWire
      <4> QED
        BY <1>n, <2>2, <4>2
    <3> QED
      BY <2>1, <2>r, <3>1, <3>2, <3>3, <3>4 DEF OnWire
  <2> QED
    BY <1>k, <2>1, <2>3, <2>5, <2>6 DEF LineInv
<1>4. CASE ReadEnd
  <2>1. /\ down # <<>> /\ Head(down).type # "Data" /\ down' = Tail(down)
        /\ nrpc'.recv = nrpc.recv /\ UNCHANGED <<call, app, c2s, remote, lost>>
    BY <1>0, <1>4 DEF ReadEnd, NrpcOnly, NrpcOK
  <2>2. l = 1 /\ Len(down') = 0 /\ 1 \in 1..l /\ down[1].type # "Data"
    <3>1. Head(down) = down[1] /\ 1 \in 1..l
      BY <2>1, TakeFrame, Zenon
    <3>2. 1 = l /\ down[1].type # "Data"
      BY <2>1, <3>1 DEF EndsInv
    <3>3. Len(down') = l - 1
      BY <2>1, TakeFrame, Zenon
    <3>4. l - 1 = 0
      BY <3>2
    <3> QED
      BY <3>1, <3>2, <3>3, <3>4, Zenon
  <2>3. ASSUME NEW k \in Nat, OnWire(k) PROVE OnWire(k)'
    <3>1. remote.sent = k
      BY <2>2, <2>3 DEF OnWire
    <3>2. (\A i \in 1..Len(down') : FALSE) /\ remote.sent = k + Len(down')
      BY <2>2, <3>1
    <3> QED
      BY <1>n, <2>1, <3>1, <3>2 DEF OnWire
  <2>4. Taken' = Taken
    BY <2>1 DEF Taken
  <2> QED
    BY <1>k, <2>1, <2>3, <2>4 DEF LineInv
<1>6. CASE ReaderDone \/ RecordStatus \/ ReadExit \/ WatchContext \/ MonitorFires \/ MonitorDone
           \/ ClientCloses
  <2>1. UNCHANGED <<call, app, c2s, remote, down, lost>> /\ nrpc'.recv = nrpc.recv /\ nrpc'.eof = nrpc.eof
        /\ (nrpc.closed => nrpc'.closed)
    BY <1>6, NrpcAside
  <2> QED
    BY <2>1, LineAside
<1> QED
  BY <1>1, <1>2, <1>3, <1>4, <1>6 DEF Nrpc, Reader

\* The pump's steps.
LEMMA PumpLine ==
  ASSUME Typed, LineInv, C2S
  PROVE  LineInv'
<1>0. C2SOK /\ NrpcOK /\ AppOK
  BY DEF Typed
<1>k. Taken \in Nat
  BY TakenIs
<1>1. UNCHANGED <<call, down, remote, lost>> /\ nrpc'.eof = nrpc.eof /\ nrpc'.closed = nrpc.closed
  BY <1>0 DEF C2S, C2SReceives, C2SSends, C2SFails, C2SOnly, wireVars, NrpcOK
<1>2. \A k : OnWire(k) => OnWire(k)'
  BY <1>1 DEF OnWire
<1>3. CASE c2s'.pc = "done" /\ app'.got = app.got
  BY <1>1, <1>3 DEF LineInv
<1>4. CASE /\ C2SReceives /\ nrpc.recv # <<>> /\ c2s' = [pc |-> "send", n |-> Head(nrpc.recv)]
           /\ nrpc' = [nrpc EXCEPT !.recv = <<>>]
  <2>1. PICK q \in Seq(1..MaxMsgs) : q = nrpc.recv /\ q # <<>> /\ Len(q) <= 1
    BY <1>4, ReceivingSide
  <2>2. Len(q) = 1 /\ Head(q) = q[1]
    <3>1. Len(q) \in Nat /\ Len(q) >= 1 /\ Head(q) = q[1]
      BY <2>1, TailOf, Zenon
    <3>2. PICK k \in Nat : k = Len(q)
      BY <3>1, Zenon
    <3>3. k <= 1 /\ k >= 1
      BY <2>1, <3>1, <3>2, Zenon
    <3>4. k = 1
      BY <3>3
    <3> QED
      BY <3>1, <3>2, <3>4
  <2>3. nrpc'.recv = <<>> /\ Len(nrpc'.recv) = 0
    BY <1>0, <1>4 DEF NrpcOK
  <2>4. c2s.pc = "recv" /\ c2s'.pc = "send" /\ c2s'.n = q[1] /\ UNCHANGED app
    BY <1>4, <2>1, <2>2 DEF C2SReceives
  <2>5. Taken' = Len(app.got) + 1 /\ Taken = Len(app.got) + 1
    <3>1. Taken = Len(app.got) + 0 + 1
      BY <2>1, <2>2, <2>4 DEF Taken
    <3>2. Taken' = Len(app.got) + 1 + 0
      BY <2>3, <2>4 DEF Taken
    <3> QED
      BY <3>1, <3>2, ReceivingSide
  <2> QED
    BY <1>1, <1>2, <2>1, <2>3, <2>4, <2>5 DEF LineInv
<1>5. CASE C2SSends
  <2>1. /\ c2s.pc = "send" /\ c2s'.pc = "recv" /\ UNCHANGED nrpc
        /\ app' = [app EXCEPT !.got = Append(app.got, c2s.n)]
    BY <1>0, <1>5 DEF C2SSends, C2SOK
  <2>2. PICK q \in Seq(1..MaxMsgs) : q = app.got
    BY ReceivingSide
  <2>3. c2s.n \in 1..MaxMsgs
    BY <1>0, <2>1 DEF C2SOK
  <2>4. app'.got = Append(q, c2s.n)
    BY <1>0, <2>1, <2>2 DEF AppOK
  <2>5. PICK p \in Seq(1..MaxMsgs) :
          /\ p = app'.got /\ Len(q) \in Nat /\ Len(p) = Len(q) + 1 /\ p[Len(q) + 1] = c2s.n
          /\ \A i \in 1..Len(q) : p[i] = q[i]
          /\ \A i \in 1..Len(p) : i \in 1..Len(q) \/ i = Len(q) + 1
    <3>1. /\ Append(q, c2s.n) \in Seq(1..MaxMsgs) /\ Len(q) \in Nat
          /\ Len(Append(q, c2s.n)) = Len(q) + 1 /\ Append(q, c2s.n)[Len(q) + 1] = c2s.n
          /\ \A i \in 1..Len(q) : Append(q, c2s.n)[i] = q[i]
          /\ \A i \in 1..Len(Append(q, c2s.n)) : i \in 1..Len(q) \/ i = Len(q) + 1
      BY <2>3, OneMore
    <3> QED
      BY <2>4, <3>1
  <2>6. Taken' = Taken
    BY <2>1, <2>2, <2>5, ReceivingSide DEF Taken
  <2> SUFFICES ASSUME call.request = "streaming", "Data" \notin lost
               PROVE  /\ \A i \in 1..Len(p) : p[i] = i
                      /\ Len(p) <= remote.sent
                      /\ nrpc.recv # <<>> => nrpc.recv[1] = Taken
                      /\ OnWire(Taken)
    BY <1>1, <1>2, <2>1, <2>5, <2>6 DEF LineInv
  <2>7. c2s.n = Len(q) + 1 /\ OnWire(Taken) /\ (nrpc.recv # <<>> => nrpc.recv[1] = Taken)
        /\ \A i \in 1..Len(q) : q[i] = i
    BY <2>1, <2>2 DEF LineInv
  <2>8. Taken <= remote.sent /\ Len(q) + 1 <= Taken
    BY <1>k, <2>1, <2>2, <2>7, TakenSent, TakenIs
  <2>9. Len(p) <= remote.sent
    BY <1>k, <2>5, <2>8, ReceivingSide
  <2> QED
    BY <2>5, <2>7, <2>9
<1>6. CASE C2SReceives /\ c2s' = [c2s EXCEPT !.pc = "done"]
  BY <1>0, <1>3, <1>6 DEF C2SReceives, C2SOK
<1>7. CASE C2SFails
  BY <1>0, <1>3, <1>7 DEF C2SFails, C2SOK
<1> QED
  BY <1>4, <1>5, <1>6, <1>7 DEF C2S, C2SReceives

\* Every step preserves it.
LEMMA NextLine == Typed /\ RoutedInv /\ EndsInv /\ LineInv /\ [Next]_vars => LineInv'
<1> SUFFICES ASSUME Typed, RoutedInv, EndsInv, LineInv, [Next]_vars PROVE LineInv'
  OBVIOUS
<1>0. AppOK /\ NrpcOK /\ C2SOK
  BY DEF Typed
<1>1. CASE AppSends \/ AppHalfCloses \/ AppCancels
  <2>1. app'.got = app.got
    BY <1>0, <1>1 DEF AppSends, AppHalfCloses, AppCancels, AppOK
  <2> QED
    BY <1>1, <2>1, LineAside DEF AppSends, AppHalfCloses, AppCancels, AppOnly, bridgeVars, wireVars
<1>2. CASE S2C \/ UNCHANGED vars
  BY <1>2, LineAside DEF S2C, S2CReceives, S2CSends, S2CPublishes, S2COnly, vars, bridgeVars, wireVars
<1>3. CASE Route
  <2>1. CASE UNCHANGED c2s
    BY <1>3, <2>1, LineAside DEF Route, wireVars
  <2>2. CASE c2s' = [c2s EXCEPT !.pc = "recv"]
    <3>1. c2s.pc = "none" /\ c2s'.pc = "recv" /\ UNCHANGED <<call, nrpc, app, remote, down, lost>>
      BY <1>0, <1>3, <2>2 DEF Route, RoutedInv, C2SOK, wireVars
    <3>2. Taken' = Taken
      BY <3>1 DEF Taken
    <3> QED
      BY <3>1, <3>2 DEF LineInv, OnWire
  <2> QED
    BY <1>3, <2>1, <2>2 DEF Route
<1>4. CASE UnaryReceives
  BY <1>4, LineAside DEF UnaryReceives, MainOnly
<1>5. CASE UnaryFails \/ UnaryAnswers \/ UnaryReplies \/ UnaryReplyFails
  BY <1>5 DEF UnaryFails, UnaryAnswers, UnaryReplies, UnaryReplyFails, MainOnly, RoutedInv, LineInv
<1>6. CASE TakeHalfClose \/ TakeS2CError \/ TakeC2S
  <2>1. nrpc'.recv = nrpc.recv /\ nrpc'.eof = nrpc.eof /\ nrpc'.closed = nrpc.closed
    BY <1>0, <1>6 DEF TakeHalfClose, TakeS2CError, TakeC2S, NrpcOK
  <2> QED
    BY <1>6, <2>1, LineAside DEF TakeHalfClose, TakeS2CError, TakeC2S, LoopOnly, wireVars
<1>7. CASE Return
  <2>1. app'.got = app.got
    BY <1>0, <1>7 DEF Return, AppOK
  <2> QED
    BY <1>7, <2>1, LineAside DEF Return, MainOnly
<1> QED
  BY <1>1, <1>2, <1>3, <1>4, <1>5, <1>6, <1>7, WireLine, PumpLine DEF Next, Main

\* It holds at the start.
LEMMA InitLine == Init => LineInv
<1> SUFFICES ASSUME Init PROVE LineInv
  OBVIOUS
<1>1. /\ down = <<>> /\ app.got = <<>> /\ nrpc.recv = <<>> /\ c2s.pc = "none" /\ remote.sent = 0
      /\ Len(<<>>) = 0
  BY DEF Init
<1>2. Taken = 0
  BY <1>1 DEF Taken
<1> QED
  BY <1>1, <1>2 DEF LineInv, OnWire

-----------------------------------------------------------------------------
(* The order of what comes in, whatever was dropped                         *)

\* The message m comes before those of the server that are on the wire or still to be
\* sent, before the one in the channel, before the one in the pump's hand.
WireAfter(m) ==
  /\ m <= remote.sent
  /\ \A i \in 1..Len(down) : down[i].type = "Data" => m < down[i].n
RecvAfter(m) == WireAfter(m) /\ (nrpc.recv # <<>> => m < nrpc.recv[1])
PumpAfter(m) == RecvAfter(m) /\ (c2s.pc = "send" => m < c2s.n)

\* The app's messages are in the server's order, and so is what is on its way.
GotOrder ==
  /\ \A i, j \in 1..Len(app.got) : i < j => app.got[i] < app.got[j]
  /\ \A i \in 1..Len(app.got) : PumpAfter(app.got[i])
WireOrder == \A i \in 1..Len(down) : down[i].type = "Data" =>
  /\ down[i].n <= remote.sent
  /\ \A j \in 1..(i - 1) : down[j].type = "Data" => down[j].n < down[i].n
OrderInv == call.request = "streaming" =>
  /\ GotOrder /\ WireOrder
  /\ c2s.pc = "send" => RecvAfter(c2s.n)
  /\ nrpc.recv # <<>> => WireAfter(nrpc.recv[1])

\* What does not touch it.
LEMMA OrderAside ==
  ASSUME OrderInv, UNCHANGED <<call, down, remote>>, nrpc'.recv = nrpc.recv, app'.got = app.got,
         c2s'.pc = "send" => UNCHANGED c2s
  PROVE  OrderInv'
<1>1. \A m : WireAfter(m) => WireAfter(m)'
  BY DEF WireAfter
<1>2. \A m : RecvAfter(m) => RecvAfter(m)'
  BY <1>1 DEF RecvAfter
<1>3. \A m : PumpAfter(m) => PumpAfter(m)'
  BY <1>2 DEF PumpAfter
<1>4. GotOrder => GotOrder'
  BY <1>3 DEF GotOrder
<1>5. WireOrder => WireOrder'
  BY DEF WireOrder
<1> QED
  BY <1>1, <1>2, <1>4, <1>5 DEF OrderInv

\* Neither does what the server adds behind everything, or the clientStream takes away.
LEMMA OrderWire ==
  ASSUME OrderInv, UNCHANGED <<call, c2s>>, nrpc'.recv = nrpc.recv, app'.got = app.got,
         \A m : m \in Nat /\ WireAfter(m) => WireAfter(m)', Typed, WireOrder => WireOrder'
  PROVE  OrderInv'
<1>0. /\ \A i \in 1..Len(app.got) : app.got[i] \in Nat
      /\ c2s.n \in Nat /\ (nrpc.recv # <<>> => nrpc.recv[1] \in Nat)
  <2>1. PICK q \in Seq(1..MaxMsgs), g \in Seq(1..MaxMsgs) : q = nrpc.recv /\ g = app.got
    BY ReceivingSide
  <2>2. q # <<>> => q[1] \in 1..MaxMsgs
    BY <2>1, TailOf, Zenon
  <2>3. \A i \in 1..Len(g) : g[i] \in 1..MaxMsgs
    BY ElementOfSeq, Zenon
  <2>4. \A n \in 1..MaxMsgs : n \in Nat
    BY Bound
  <2>5. c2s.n \in Nat
    BY ReceivingSide
  <2> QED
    BY <2>1, <2>2, <2>3, <2>4, <2>5, Zenon
<1>2. \A m : m \in Nat /\ RecvAfter(m) => RecvAfter(m)'
  BY DEF RecvAfter
<1>3. \A m : m \in Nat /\ PumpAfter(m) => PumpAfter(m)'
  BY <1>2 DEF PumpAfter
<1>4. GotOrder => GotOrder'
  BY <1>0, <1>3 DEF GotOrder
<1> QED
  BY <1>0, <1>2, <1>4 DEF OrderInv

\* A frame leaves the line.
LEMMA OrderTail ==
  ASSUME Typed, down # <<>>, down' = Tail(down), UNCHANGED remote
  PROVE  /\ \A m : WireAfter(m) => WireAfter(m)'
         /\ WireOrder => WireOrder'
<1>1. /\ Len(down) \in Nat /\ Len(down') = Len(down) - 1
      /\ \A i \in 1..Len(down') : i + 1 \in 1..Len(down) /\ down'[i] = down[i + 1]
  BY TakeFrame
<1>2. \A m : WireAfter(m) => WireAfter(m)'
  BY <1>1 DEF WireAfter
<1>3. ASSUME WireOrder PROVE WireOrder'
  <2> SUFFICES ASSUME NEW i \in 1..Len(down'), down'[i].type = "Data"
               PROVE  /\ down'[i].n <= remote'.sent
                      /\ \A j \in 1..(i - 1) : down'[j].type = "Data" => down'[j].n < down'[i].n
    BY DEF WireOrder
  <2>1. i + 1 \in 1..Len(down) /\ down'[i] = down[i + 1] /\ (i + 1) - 1 = i
    BY <1>1
  <2>2. \A j \in 1..(i - 1) : j + 1 \in 1..i /\ down'[j] = down[j + 1]
    BY <1>1
  <2> QED
    BY <1>3, <2>1, <2>2 DEF WireOrder
<1> QED
  BY <1>2, <1>3

\* The server's steps and the clientStream's preserve it.
LEMMA WireOrdered ==
  ASSUME Typed, EndsInv, OrderInv, RemoteSends \/ RemoteEnds \/ Nrpc
  PROVE  OrderInv'
<1>0. MainOK /\ NrpcOK /\ UpOK /\ RemoteOK
  BY DEF Typed
<1> DEFINE l == Len(down)
<1>n. l \in Nat /\ remote.sent \in Nat /\ \A i \in 1..l : down[i].n \in Nat
  BY ReceivingSide
<1>1. CASE RemoteSends
  <2> DEFINE f == Frame("Data", remote.sent + 1)
  <2>1. f \in Received /\ f.type = "Data" /\ f.n = remote.sent + 1
    BY <1>0, <1>1, Bound DEF RemoteSends, RemoteOK, Frame, Received
  <2>2. Arrives(f, "Data") /\ UNCHANGED <<call, nrpc, app, c2s>> /\ remote'.sent = remote.sent + 1
    BY <1>0, <1>1 DEF RemoteSends, bridgeVars, RemoteOK
  <2> HIDE DEF f
  <2>3. \A i \in 1..Len(down') :
          (i \in 1..l /\ down'[i] = down[i]) \/ (i = l + 1 /\ down'[i] = f /\ Len(down') = l + 1)
    <3>1. CASE UNCHANGED down
      BY <3>1
    <3>2. CASE down' = Append(down, f)
      BY <2>1, <3>2, AddFrame
    <3> QED
      BY <2>2, <3>1, <3>2, Arrival
  <2>4. \A j \in 1..l : j \in 1..Len(down') => down'[j] = down[j]
    BY <1>n, <2>3
  <2>5. ASSUME NEW m \in Nat, WireAfter(m) PROVE WireAfter(m)'
    <3>1. m <= remote.sent + 1 /\ m < f.n
      BY <1>n, <2>1, <2>5 DEF WireAfter
    <3>2. \A i \in 1..Len(down') : down'[i].type = "Data" => m < down'[i].n
      BY <2>3, <2>5, <3>1 DEF WireAfter
    <3> QED
      BY <2>2, <3>1, <3>2 DEF WireAfter
  <2>6. ASSUME WireOrder PROVE WireOrder'
    <3> SUFFICES ASSUME NEW i \in 1..Len(down'), down'[i].type = "Data"
                 PROVE  /\ down'[i].n <= remote'.sent
                        /\ \A j \in 1..(i - 1) : down'[j].type = "Data" => down'[j].n < down'[i].n
      BY DEF WireOrder
    <3>1. CASE i \in 1..l
      <4>1. down'[i] = down[i] /\ \A j \in 1..(i - 1) : down'[j] = down[j]
        BY <1>n, <2>4, <3>1
      <4>2. down[i].n <= remote.sent
        BY <2>6, <3>1, <4>1 DEF WireOrder
      <4>3. down[i].n <= remote.sent + 1
        BY <1>n, <3>1, <4>2
      <4> QED
        BY <2>2, <2>6, <3>1, <4>1, <4>3 DEF WireOrder
    <3>2. CASE i = l + 1
      <4>1. down'[i] = f /\ Len(down') = l + 1
        BY <1>n, <2>3, <3>2
      <4>2. \A j \in 1..(i - 1) : down'[j] = down[j] /\ j \in 1..l
        BY <1>n, <2>4, <3>2, <4>1
      <4>3. \A j \in 1..l : down[j].type = "Data" => down[j].n < remote.sent + 1
        BY <1>n, <2>6 DEF WireOrder
      <4> QED
        BY <1>n, <2>1, <2>2, <4>1, <4>2, <4>3
    <3> QED
      BY <2>3, <3>1, <3>2
  <2> QED
    BY <2>2, <2>5, <2>6, OrderWire
<1>2. CASE RemoteEnds
  <2>1. PICK s \in {"OK", "Status"} :
          remote' = [remote EXCEPT !.ended = s] /\ Arrives(Frame(s, 0), "End")
    BY <1>2 DEF RemoteEnds
  <2>2. Frame(s, 0) \in Received /\ Frame(s, 0).type = s /\ remote'.sent = remote.sent /\ s # "Data"
    BY <1>0, <2>1, Bound DEF Frame, Received, RemoteOK
  <2>3. UNCHANGED <<call, nrpc, app, c2s>>
    BY <1>2 DEF RemoteEnds, bridgeVars
  <2>4. \A i \in 1..Len(down') : down'[i].type = "Data" => i \in 1..l
    <3>1. CASE UNCHANGED down
      BY <3>1
    <3>2. CASE down' = Append(down, Frame(s, 0))
      BY <2>2, <3>2, AddFrame
    <3> QED
      BY <2>1, <3>1, <3>2, Arrival
  <2>5. \A i \in 1..l : down'[i] = down[i]
    <3>1. CASE UNCHANGED down
      BY <3>1
    <3>2. CASE down' = Append(down, Frame(s, 0))
      BY <2>2, <3>2, AddFrame
    <3> QED
      BY <2>1, <3>1, <3>2, Arrival
  <2>6. \A m : WireAfter(m) => WireAfter(m)'
    BY <2>2, <2>4, <2>5 DEF WireAfter
  <2>7. ASSUME WireOrder PROVE WireOrder'
    <3> SUFFICES ASSUME NEW i \in 1..Len(down'), down'[i].type = "Data"
                 PROVE  /\ down'[i].n <= remote'.sent
                        /\ \A j \in 1..(i - 1) : down'[j].type = "Data" => down'[j].n < down'[i].n
      BY DEF WireOrder
    <3>1. i \in 1..l /\ \A j \in 1..(i - 1) : j \in 1..l
      BY <1>n, <2>4
    <3>2. down'[i] = down[i] /\ \A j \in 1..(i - 1) : down'[j] = down[j]
      BY <2>5, <3>1
    <3> QED
      BY <2>2, <2>7, <3>1, <3>2 DEF WireOrder
  <2> QED
    BY <2>3, <2>6, <2>7, OrderWire
<1>3. CASE ReadData
  <2>1. /\ down # <<>> /\ Head(down).type = "Data" /\ down' = Tail(down) /\ nrpc.recv = <<>>
        /\ nrpc' = [nrpc EXCEPT !.recv = <<Head(down).n>>] /\ UNCHANGED <<call, app, c2s, remote>>
    BY <1>3 DEF ReadData, NrpcOnly
  <2>2. /\ Head(down) = down[1] /\ 1 \in 1..l /\ Len(down') = l - 1
        /\ \A i \in 1..Len(down') : i + 1 \in 1..l /\ down'[i] = down[i + 1]
    BY <2>1, TakeFrame
  <2>3. nrpc'.recv = <<down[1].n>> /\ nrpc'.recv[1] = down[1].n
    BY <1>0, <2>1, <2>2 DEF NrpcOK
  <2>4. (\A m : WireAfter(m) => WireAfter(m)') /\ (WireOrder => WireOrder')
    BY <2>1, OrderTail
  <2>5. \A m : WireAfter(m) => RecvAfter(m)'
    BY <2>1, <2>2, <2>3, <2>4 DEF WireAfter, RecvAfter
  <2>6. \A m : PumpAfter(m) => PumpAfter(m)'
    BY <2>1, <2>5 DEF PumpAfter, RecvAfter
  <2>7. WireOrder => WireAfter(nrpc.recv[1])'
    <3> SUFFICES ASSUME WireOrder
                 PROVE  /\ down[1].n <= remote.sent
                        /\ \A i \in 1..Len(down') : down'[i].type = "Data" => down[1].n < down'[i].n
      BY <2>1, <2>3 DEF WireAfter
    <3>1. down[1].n <= remote.sent
      BY <2>1, <2>2 DEF WireOrder
    <3>2. ASSUME NEW i \in 1..Len(down'), down'[i].type = "Data" PROVE down[1].n < down'[i].n
      <4>1. i + 1 \in 1..l /\ down'[i] = down[i + 1] /\ 1 \in 1..((i + 1) - 1)
        BY <2>2
      <4> QED
        BY <2>1, <2>2, <3>2, <4>1 DEF WireOrder
    <3> QED
      BY <3>1, <3>2
  <2>8. GotOrder => GotOrder'
    BY <2>1, <2>6 DEF GotOrder
  <2>9. c2s.pc = "send" /\ RecvAfter(c2s.n) => RecvAfter(c2s.n)'
    BY <2>1, <2>5 DEF RecvAfter
  <2> QED
    BY <2>1, <2>4, <2>7, <2>8, <2>9 DEF OrderInv
<1>4. CASE ReadEnd
  <2>1. /\ down # <<>> /\ down' = Tail(down)
        /\ nrpc'.recv = nrpc.recv /\ UNCHANGED <<call, app, c2s, remote>>
    BY <1>0, <1>4 DEF ReadEnd, NrpcOnly, NrpcOK
  <2>2. (\A m : WireAfter(m) => WireAfter(m)') /\ (WireOrder => WireOrder')
    BY <2>1, OrderTail
  <2> QED
    BY <2>1, <2>2, OrderWire
<1>5. CASE ReaderDone \/ RecordStatus \/ ReadExit \/ WatchContext \/ MonitorFires \/ MonitorDone
           \/ ClientCloses
  <2>1. UNCHANGED <<call, app, c2s, remote, down>> /\ nrpc'.recv = nrpc.recv
    BY <1>5, NrpcAside
  <2> QED
    BY <2>1, OrderAside
<1> QED
  BY <1>1, <1>2, <1>3, <1>4, <1>5 DEF Nrpc, Reader

\* The pump's steps.
LEMMA PumpOrdered ==
  ASSUME Typed, OrderInv, C2S
  PROVE  OrderInv'
<1>0. C2SOK /\ NrpcOK /\ AppOK
  BY DEF Typed
<1>1. UNCHANGED <<call, down, remote>>
  BY DEF C2S, C2SReceives, C2SSends, C2SFails, C2SOnly, wireVars
<1>2. \A m : WireAfter(m) => WireAfter(m)'
  BY <1>1 DEF WireAfter
<1>3. WireOrder => WireOrder'
  BY <1>1 DEF WireOrder
<1>4. CASE c2s'.pc = "done" /\ app'.got = app.got /\ nrpc'.recv = nrpc.recv
  BY <1>1, <1>4, OrderAside
<1>5. CASE /\ C2SReceives /\ nrpc.recv # <<>> /\ c2s' = [pc |-> "send", n |-> Head(nrpc.recv)]
           /\ nrpc' = [nrpc EXCEPT !.recv = <<>>]
  <2>1. PICK q \in Seq(1..MaxMsgs) : q = nrpc.recv /\ q # <<>>
    BY <1>5, ReceivingSide
  <2>2. Head(q) = q[1]
    BY <2>1, TailOf
  <2>3. nrpc'.recv = <<>> /\ c2s'.n = nrpc.recv[1] /\ UNCHANGED app
    BY <1>0, <1>5, <2>1, <2>2 DEF NrpcOK, C2SReceives
  <2>4. \A m : WireAfter(m) => RecvAfter(m)'
    BY <1>2, <2>3 DEF RecvAfter
  <2>5. \A m : PumpAfter(m) => PumpAfter(m)'
    BY <1>5, <2>3, <2>4 DEF PumpAfter, RecvAfter
  <2>6. GotOrder => GotOrder'
    BY <2>3, <2>5 DEF GotOrder
  <2>7. WireAfter(nrpc.recv[1]) => RecvAfter(c2s.n)'
    BY <2>3, <2>4
  <2> QED
    BY <1>1, <1>3, <1>5, <2>3, <2>6, <2>7 DEF OrderInv
<1>6. CASE C2SSends
  <2>1. /\ c2s.pc = "send" /\ c2s'.pc = "recv" /\ UNCHANGED nrpc
        /\ app' = [app EXCEPT !.got = Append(app.got, c2s.n)]
    BY <1>0, <1>6 DEF C2SSends, C2SOK
  <2>2. PICK q \in Seq(1..MaxMsgs) : q = app.got
    BY ReceivingSide
  <2>3. c2s.n \in 1..MaxMsgs
    BY <1>0, <2>1 DEF C2SOK
  <2>4. app'.got = Append(q, c2s.n)
    BY <1>0, <2>1, <2>2 DEF AppOK
  <2>5. /\ Len(q) \in Nat /\ Append(q, c2s.n)[Len(q) + 1] = c2s.n
        /\ Len(Append(q, c2s.n)) = Len(q) + 1
        /\ \A i \in 1..Len(q) : Append(q, c2s.n)[i] = q[i]
        /\ \A i \in 1..Len(Append(q, c2s.n)) : i \in 1..Len(q) \/ i = Len(q) + 1
    BY <2>3, OneMore
  <2>6. PICK p : /\ p = app'.got /\ Len(q) \in Nat /\ p[Len(q) + 1] = c2s.n
                 /\ \A i \in 1..Len(q) : p[i] = q[i]
                 /\ \A i \in 1..Len(p) : i \in 1..Len(q) \/ i = Len(q) + 1
    BY <2>4, <2>5
  <2>7. \A m : RecvAfter(m) => PumpAfter(m)'
    BY <1>2, <2>1 DEF RecvAfter, PumpAfter
  <2>8. call.request = "streaming" => GotOrder'
    <3> SUFFICES ASSUME call.request = "streaming"
                 PROVE  /\ \A i, j \in 1..Len(p) : i < j => p[i] < p[j]
                        /\ \A i \in 1..Len(p) : PumpAfter(p[i])'
      BY <2>6 DEF GotOrder
    <3>1. GotOrder /\ RecvAfter(c2s.n)
      BY <2>1 DEF OrderInv
    <3>2. /\ \A i, j \in 1..Len(q) : i < j => q[i] < q[j]
          /\ \A i \in 1..Len(q) : PumpAfter(q[i])
      BY <2>2, <3>1 DEF GotOrder
    <3>3. \A i \in 1..Len(q) : q[i] < c2s.n /\ RecvAfter(q[i])
      BY <2>1, <3>2 DEF PumpAfter
    <3>4. \A i \in 1..Len(p) : PumpAfter(p[i])'
      BY <2>6, <2>7, <3>1, <3>3
    <3>5. \A i, j \in 1..Len(p) : i < j => p[i] < p[j]
      BY <2>6, <3>2, <3>3
    <3> QED
      BY <3>4, <3>5
  <2> QED
    BY <1>1, <1>2, <1>3, <2>1, <2>8 DEF OrderInv
<1>7. CASE C2SFails
  BY <1>0, <1>4, <1>7 DEF C2SFails, C2SOK
<1>8. CASE C2SReceives /\ c2s' = [c2s EXCEPT !.pc = "done"] /\ UNCHANGED nrpc
  BY <1>0, <1>4, <1>8 DEF C2SReceives, C2SOK
<1> QED
  BY <1>5, <1>6, <1>7, <1>8 DEF C2S, C2SReceives

\* Every step preserves it.
LEMMA NextOrder == Typed /\ RoutedInv /\ EndsInv /\ OrderInv /\ [Next]_vars => OrderInv'
<1> SUFFICES ASSUME Typed, RoutedInv, EndsInv, OrderInv, [Next]_vars PROVE OrderInv'
  OBVIOUS
<1>0. AppOK /\ NrpcOK /\ C2SOK
  BY DEF Typed
<1>1. CASE AppSends \/ AppHalfCloses \/ AppCancels
  <2>1. app'.got = app.got
    BY <1>0, <1>1 DEF AppSends, AppHalfCloses, AppCancels, AppOK
  <2> QED
    BY <1>1, <2>1, OrderAside DEF AppSends, AppHalfCloses, AppCancels, AppOnly, bridgeVars, wireVars
<1>2. CASE S2C \/ UNCHANGED vars
  BY <1>2, OrderAside DEF S2C, S2CReceives, S2CSends, S2CPublishes, S2COnly, vars, bridgeVars, wireVars
<1>3. CASE Route
  <2>1. UNCHANGED <<call, nrpc, app, remote, down>> /\ (c2s'.pc = "send" => UNCHANGED c2s)
    BY <1>0, <1>3 DEF Route, C2SOK, wireVars
  <2> QED
    BY <2>1, OrderAside
<1>4. CASE UnaryReceives
  BY <1>4, OrderAside DEF UnaryReceives, MainOnly
<1>5. CASE UnaryFails \/ UnaryAnswers \/ UnaryReplies \/ UnaryReplyFails
  BY <1>5 DEF UnaryFails, UnaryAnswers, UnaryReplies, UnaryReplyFails, MainOnly, RoutedInv, OrderInv
<1>6. CASE TakeHalfClose \/ TakeS2CError \/ TakeC2S
  <2>1. nrpc'.recv = nrpc.recv
    BY <1>0, <1>6 DEF TakeHalfClose, TakeS2CError, TakeC2S, NrpcOK
  <2> QED
    BY <1>6, <2>1, OrderAside DEF TakeHalfClose, TakeS2CError, TakeC2S, LoopOnly, wireVars
<1>7. CASE Return
  <2>1. app'.got = app.got
    BY <1>0, <1>7 DEF Return, AppOK
  <2> QED
    BY <1>7, <2>1, OrderAside DEF Return, MainOnly
<1> QED
  BY <1>1, <1>2, <1>3, <1>4, <1>5, <1>6, <1>7, WireOrdered, PumpOrdered DEF Next, Main

\* It holds at the start.
LEMMA InitOrder == Init => OrderInv
<1> SUFFICES ASSUME Init PROVE OrderInv
  OBVIOUS
<1>1. down = <<>> /\ app.got = <<>> /\ nrpc.recv = <<>> /\ c2s.pc = "none" /\ Len(<<>>) = 0
  BY DEF Init
<1> QED
  BY <1>1 DEF OrderInv, GotOrder, WireOrder

-----------------------------------------------------------------------------
(* What the app is told                                                     *)

\* Every message of the server that msgCh did not drop has got to the app, and the server
\* ended with OK.
Complete == c2s.pc = "done" /\ remote.ended = "OK" /\ ("Data" \in lost \/ Len(app.got) = remote.sent)

\* What a report on its way to the app rests on.
ReportInv ==
  /\ c2sErr = "EOF" => Complete
  /\ c2sErr = "Status" => remote.ended = "Status"
  /\ s2cErr # "Status"
  /\ main.err = "OK" => call.request # "invalid" /\ remote.ended = "OK"
  /\ main.err = "OK" /\ call.request = "streaming" => Complete
  /\ call.request = "unary" /\ main.pc \in Waiting => app.got = <<>>
  /\ main.pc = "reply" => remote.ended = "OK"
  /\ main.err = "OK" /\ call.request = "unary" => Len(app.got) = 1
  /\ main.err = "Status" => remote.ended = "Status"
  /\ app.result = "OK" => main.err = "OK"
  /\ app.result = "Status" => main.err = "Status"

\* What touches neither the app's messages nor a report.
LEMMA ReportAside ==
  ASSUME ReportInv, UNCHANGED <<call, main, c2sErr>>, s2cErr' # "Status",
         app'.got = app.got, app'.result = app.result,
         remote.ended # "no" => UNCHANGED remote, "Data" \in lost => "Data" \in lost',
         c2s.pc = "done" => c2s'.pc = "done"
  PROVE  ReportInv'
BY DEF ReportInv, Complete

\* Every step preserves it.
LEMMA NextReport ==
  Typed /\ RoutedInv /\ EndsInv /\ LineInv /\ ReportInv /\ [Next]_vars => ReportInv'
<1> SUFFICES ASSUME Typed, RoutedInv, EndsInv, LineInv, ReportInv, [Next]_vars PROVE ReportInv'
  OBVIOUS
<1>0. AppOK /\ NrpcOK /\ C2SOK /\ S2COK /\ MainOK /\ RemoteOK
  BY DEF Typed
<1>s. s2cErr # "Status"
  BY DEF ReportInv
<1>1. CASE AppSends \/ AppHalfCloses \/ AppCancels
  <2>1. app'.got = app.got /\ app'.result = app.result
    BY <1>0, <1>1 DEF AppSends, AppHalfCloses, AppCancels, AppOK
  <2> QED
    BY <1>1, <1>s, <2>1, ReportAside DEF AppSends, AppHalfCloses, AppCancels, AppOnly, bridgeVars,
                                         wireVars
<1>2. CASE RemoteSends \/ RemoteEnds
  <2>1. UNCHANGED <<call, main, c2s, s2cErr, c2sErr, app>> /\ remote.ended = "no"
    BY <1>2 DEF RemoteSends, RemoteEnds, bridgeVars
  <2>2. "Data" \in lost => "Data" \in lost'
    BY <1>2 DEF RemoteSends, RemoteEnds, Arrives
  <2> QED
    BY <1>s, <2>1, <2>2, ReportAside
<1>3. CASE Nrpc
  <2>1. UNCHANGED <<call, main, c2s, s2cErr, c2sErr, app, remote, lost>>
    BY <1>3 DEF Nrpc, Reader, ReadData, ReadEnd, ReaderDone, RecordStatus, ReadExit, WatchContext,
                MonitorFires, MonitorDone, ClientCloses, NrpcOnly
  <2> QED
    BY <1>s, <2>1, ReportAside
<1>4. CASE UNCHANGED vars
  BY <1>4, <1>s, ReportAside DEF vars, bridgeVars, wireVars
<1>5. CASE S2C
  <2>1. s2cErr' # "Status"
    BY <1>5, <1>s DEF S2C, S2CReceives, S2CSends, S2CPublishes
  <2> QED
    BY <1>5, <2>1, ReportAside DEF S2C, S2CReceives, S2CSends, S2CPublishes, S2COnly, wireVars
<1>6. CASE C2SReceives
  <2>1. /\ c2s.pc = "recv" /\ UNCHANGED <<call, main, app, remote, lost, s2cErr>>
        /\ call.request = "streaming"
    BY <1>6 DEF C2SReceives, C2SOnly, RoutedInv, wireVars
  <2>2. CASE UNCHANGED c2sErr
    BY <1>s, <2>1, <2>2, ReportAside
  <2>3. CASE /\ nrpc.recv = <<>> /\ nrpc.eof /\ c2sErr' = "EOF"
             /\ c2s' = [c2s EXCEPT !.pc = "done"]
    <3>1. down = <<>> /\ remote.ended = "OK" /\ Len(nrpc.recv) = 0 /\ Len(down) = 0
      BY <2>3 DEF EndsInv
    <3>2. Taken = Len(app.got) + 0
      BY <2>1, <3>1, TakenIs
    <3>3. ASSUME "Data" \notin lost PROVE remote.sent = Len(app.got)
      <4>1. OnWire(Taken)
        BY <2>1, <3>3 DEF LineInv
      <4>2. remote.sent = Taken + 0
        BY <2>3, <3>1, <4>1 DEF OnWire
      <4> QED
        BY <3>2, <4>2, ReceivingSide
    <3>5. c2s'.pc = "done"
      BY <1>0, <2>3 DEF C2SOK
    <3>6. Complete'
      BY <2>1, <3>1, <3>3, <3>5 DEF Complete
    <3> QED
      BY <2>1, <2>3, <3>6 DEF ReportInv, Complete
  <2>4. CASE /\ c2sErr' = IF nrpc.status THEN "Status" ELSE "Canceled"
             /\ c2s' = [c2s EXCEPT !.pc = "done"]
    <3>1. c2s'.pc = "done" /\ c2sErr' # "EOF" /\ (c2sErr' = "Status" => remote.ended = "Status")
      BY <1>0, <2>4 DEF C2SOK, EndsInv
    <3> QED
      BY <2>1, <3>1 DEF ReportInv, Complete
  <2> QED
    BY <1>6, <2>2, <2>3, <2>4 DEF C2SReceives
<1>7. CASE C2SSends \/ C2SFails
  <2>1. /\ c2s.pc = "send" /\ UNCHANGED <<call, main, remote, lost, s2cErr>>
        /\ call.request = "streaming"
    BY <1>7 DEF C2SSends, C2SFails, C2SOnly, RoutedInv, wireVars
  <2>2. app'.result = app.result /\ c2sErr' \in {c2sErr, "Broken"}
    BY <1>0, <1>7 DEF C2SSends, C2SFails, AppOK
  <2>3. c2sErr # "EOF" /\ main.err # "OK"
    BY <2>1 DEF ReportInv, Complete
  <2> QED
    BY <2>1, <2>2, <2>3 DEF ReportInv
<1>8. CASE Route
  <2>1. /\ main.err = "nil" /\ app.result = "none" /\ UNCHANGED <<call, s2cErr, c2sErr, app, remote>>
        /\ c2s.pc = "none" /\ main.pc = "route" /\ main'.pc # "reply"
    BY <1>0, <1>8 DEF Route, RoutedInv, Waiting, wireVars, MainOK
  <2>2. main'.err \in {"nil", "Invalid"}
    BY <1>0, <1>8, <2>1 DEF Route, MainOK
  <2>3. c2sErr # "EOF"
    BY <2>1 DEF ReportInv, Complete
  <2> QED
    BY <2>1, <2>2, <2>3 DEF ReportInv, Waiting
<1>9. CASE UnaryReceives
  <2>1. /\ main.err = "nil" /\ app.result = "none" /\ UNCHANGED <<call, c2s, s2cErr, c2sErr, app>>
        /\ main.pc = "unary" /\ main'.pc # "reply" /\ UNCHANGED <<remote, lost>>
    BY <1>0, <1>9 DEF UnaryReceives, MainOnly, RoutedInv, Waiting, MainOK
  <2>2. main'.err \in {"nil", "Broken", "Canceled"}
    BY <1>0, <1>9, <2>1 DEF UnaryReceives, MainOK
  <2> QED
    BY <2>1, <2>2 DEF ReportInv, Waiting, Complete
<1>10. CASE UnaryAnswers
  <2>1. /\ call.request = "unary" /\ app.result = "none" /\ main.pc = "invoke" /\ c2s.pc = "none"
        /\ UNCHANGED <<call, c2s, s2cErr, c2sErr, remote, app>> /\ main.err = "nil"
    BY <1>10 DEF UnaryAnswers, MainOnly, RoutedInv, Waiting
  <2>2. app.got = <<>> /\ c2sErr # "EOF"
    BY <2>1 DEF ReportInv, Waiting, Complete
  <2>4. ASSUME down # <<>> PROVE Head(down).type = remote.ended
    <3>1. Head(down) = down[1] /\ 1 \in 1..Len(down)
      BY <2>4, TailOf, ReceivingSide
    <3> QED
      BY <2>1, <3>1 DEF EndsInv
  <2>5. /\ main'.pc = "reply" => remote.ended = "OK"
        /\ main'.err = "Status" => remote.ended = "Status"
        /\ main'.err # "OK"
    <3>1. CASE app.cancelled /\ main' = [pc |-> "return", err |-> "Canceled"]
      BY <3>1
    <3>2. CASE down # <<>> /\ Head(down).type = "OK" /\ main' = [main EXCEPT !.pc = "reply"]
      BY <1>0, <2>1, <2>4, <3>2 DEF MainOK
    <3>3. CASE /\ down # <<>> /\ Head(down).type # "OK"
               /\ main' = [pc |-> "return", err |-> "Status"]
      <4>1. Head(down).type \in {"Data", "OK", "Status"} /\ remote.ended \in {"no", "OK", "Status"}
        BY <3>3, TailOf, ReceivingSide DEF Received
      <4> QED
        BY <2>4, <3>3, <4>1
    <3> QED
      BY <1>10, <3>1, <3>2, <3>3 DEF UnaryAnswers
  <2> QED
    BY <2>1, <2>2, <2>5 DEF ReportInv, Waiting
<1>15. CASE UnaryFails \/ UnaryReplyFails
  <2>1. /\ call.request = "unary" /\ app.result = "none" /\ c2s.pc = "none" /\ main.pc \in Waiting
        /\ UNCHANGED <<call, c2s, s2cErr, c2sErr, remote, app>> /\ main'.pc = "return"
        /\ main'.err \notin {"OK", "Status"}
    BY <1>15 DEF UnaryFails, UnaryReplyFails, MainOnly, RoutedInv, Waiting
  <2> QED
    BY <2>1 DEF ReportInv, Waiting, Complete
<1>16. CASE UnaryReplies
  <2>1. /\ call.request = "unary" /\ app.result = "none" /\ c2s.pc = "none" /\ main.pc = "reply"
        /\ UNCHANGED <<call, c2s, s2cErr, c2sErr, remote>>
        /\ main'.pc = "return" /\ main'.err = "OK"
    BY <1>16 DEF UnaryReplies, MainOnly, RoutedInv
  <2>2. app.got = <<>> /\ c2sErr # "EOF" /\ remote.ended = "OK"
    BY <2>1 DEF ReportInv, Waiting, Complete
  <2>3. app'.result = "none" /\ app'.got = Append(app.got, 1)
    BY <1>0, <1>16, <2>1 DEF UnaryReplies, AppOK
  <2>4. app.got = <<>> => Len(Append(app.got, 1)) = 1
    OBVIOUS
  <2>5. Len(app'.got) = 1
    BY <2>2, <2>3, <2>4, Zenon
  <2> QED
    BY <2>1, <2>2, <2>3, <2>5 DEF ReportInv, Waiting
<1>11. CASE TakeHalfClose
  BY <1>11, ReportAside DEF TakeHalfClose, LoopOnly, wireVars
<1>12. CASE TakeS2CError
  <2>1. /\ main.pc = "loop" /\ call.request = "streaming" /\ app.result = "none"
        /\ UNCHANGED <<call, c2s, c2sErr, app, remote, lost>> /\ s2cErr' = "nil"
        /\ main'.pc = "return"
    BY <1>12 DEF TakeS2CError, LoopOnly, RoutedInv, wireVars
  <2>2. main'.err \notin {"OK", "Status"}
    BY <1>0, <1>12, <1>s DEF TakeS2CError, S2COK, Errors
  <2> QED
    BY <2>1, <2>2 DEF ReportInv, Complete
<1>13. CASE TakeC2S
  <2>1. /\ main.pc = "loop" /\ call.request = "streaming" /\ app.result = "none"
        /\ UNCHANGED <<call, c2s, s2cErr, app, remote, lost>> /\ c2sErr' = "nil"
        /\ main'.pc = "return"
    BY <1>13 DEF TakeC2S, LoopOnly, RoutedInv, wireVars
  <2>2. /\ main'.err = "OK" => c2sErr = "EOF"
        /\ main'.err = "Status" => c2sErr = "Status"
    BY <1>0, <1>13 DEF TakeC2S, C2SOK, Errors
  <2> QED
    BY <2>1, <2>2 DEF ReportInv, Complete
<1>14. CASE Return
  <2>1. /\ main.pc = "return" /\ main'.pc = "gone" /\ main'.err = main.err
        /\ UNCHANGED <<call, c2s, s2cErr, c2sErr, remote, lost>>
    BY <1>0, <1>14 DEF Return, MainOnly, MainOK
  <2>2. /\ app'.got = app.got
        /\ app'.result = "OK" => main.err = "OK"
        /\ app'.result = "Status" => main.err = "Status"
    BY <1>0, <1>14 DEF Return, AppOK
  <2> QED
    BY <2>1, <2>2 DEF ReportInv, Complete, Waiting
<1> QED
  BY <1>1, <1>2, <1>3, <1>4, <1>5, <1>6, <1>7, <1>8, <1>9, <1>10, <1>11, <1>12, <1>13, <1>14,
     <1>15, <1>16 DEF Next, C2S, Main

\* It holds at the start.
LEMMA InitReport == Init => ReportInv
BY DEF Init, ReportInv, Waiting

\* The local app gets the server's messages in order, none twice, and a prefix of them
\* unless a full msgCh dropped one; it is told OK only when the server ended the call with
\* OK and, unless one was dropped, every message had got to it, and a status of the server
\* only when the server ended with one, although messages, the End, pongMonitor, the
\* client's Close and the two pumps' reports race to the loop (StreamBridge's
\* AppOutcomeTrue).
THEOREM OutcomeIsTrue == Spec => []AppOutcomeTrue
<1>1. Typed /\ RoutedInv /\ LineInv /\ OrderInv /\ ReportInv => AppOutcomeTrue
  <2> SUFFICES ASSUME Typed, RoutedInv, LineInv, OrderInv, ReportInv PROVE AppOutcomeTrue
    OBVIOUS
  <2>1. ASSUME call.request = "streaming", "Data" \notin lost
        PROVE  app.got = UpTo(Len(app.got)) /\ Len(app.got) <= remote.sent
    <3>1. PICK q \in Seq(1..MaxMsgs) : q = app.got
      BY ReceivingSide
    <3>2. \A i \in 1..Len(q) : q[i] = i
      BY <2>1, <3>1 DEF LineInv
    <3>3. q = [i \in 1..Len(q) |-> q[i]]
      OBVIOUS
    <3>4. q = [i \in 1..Len(q) |-> i]
      BY <3>2, <3>3
    <3> QED
      BY <2>1, <3>1, <3>4 DEF UpTo, LineInv
  <2>2. call.request \in {"streaming", "unary", "invalid"}
    BY DEF Typed, CallOK, Request
  <2>3. app.result = "OK" =>
          /\ remote.ended = "OK"
          /\ IF call.request = "unary" THEN Len(app.got) = 1
             ELSE "Data" \in lost \/ Len(app.got) = remote.sent
    BY <2>2 DEF ReportInv, Complete
  <2>4. call.request = "streaming" =>
          \A i, j \in 1..Len(app.got) : i < j => app.got[i] < app.got[j]
    BY DEF OrderInv, GotOrder
  <2>5. app.result = "Status" => remote.ended = "Status"
    BY DEF ReportInv
  <2> QED
    BY <2>1, <2>3, <2>4, <2>5 DEF AppOutcomeTrue
<1> QED
  BY <1>1, InitTyped, NextTyped, InitRouted, NextRouted, InitEnds, NextEnds, InitLine, NextLine,
     InitOrder, NextOrder, InitReport, NextReport, PTL DEF Spec
=============================================================================
