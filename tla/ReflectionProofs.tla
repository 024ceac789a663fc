--------------------------- MODULE ReflectionProofs ---------------------------
(***************************************************************************)
(* What Reflection promises, proved for every graph of descriptors (also    *)
(* one with cycles, on which only the termination of a walk depends), every *)
(* set of services and every number of streams.                             *)
(***************************************************************************)
EXTENDS Reflection, TLAPS

\* What a longer sequence holds.
LEMMA ElementsAppend ==
  ASSUME NEW S, NEW s \in Seq(S), NEW e
  PROVE  Elements(Append(s, e)) = Elements(s) \cup {e}
BY DEF Elements

\* What a sequence holds is its head and what its tail holds.
LEMMA ElementsHeadTail ==
  ASSUME NEW S, NEW s \in Seq(S), s # <<>>
  PROVE  /\ Head(s) \in S /\ Tail(s) \in Seq(S)
         /\ Elements(s) = {Head(s)} \cup Elements(Tail(s))
<1>1. Head(s) \in S /\ Tail(s) \in Seq(S)  OBVIOUS
<1>2. Len(s) \in Nat \ {0} /\ Head(s) = s[1] /\ Len(Tail(s)) = Len(s) - 1  OBVIOUS
<1>3. \A i \in 1..(Len(s) - 1) : Tail(s)[i] = s[i + 1]  OBVIOUS
<1>4. ASSUME NEW e \in Elements(s) PROVE e \in {Head(s)} \cup Elements(Tail(s))
  <2>1. PICK i \in 1..Len(s) : e = s[i]  BY <1>4 DEF Elements
  <2>2. CASE i = 1  BY <1>2, <2>1, <2>2
  <2>3. CASE i # 1
    <3>1. i - 1 \in 1..Len(Tail(s)) /\ Tail(s)[i - 1] = e  BY <1>2, <1>3, <2>1, <2>3
    <3>2. QED  BY <3>1 DEF Elements
  <2>4. QED  BY <2>2, <2>3
<1>5. ASSUME NEW e \in {Head(s)} \cup Elements(Tail(s)) PROVE e \in Elements(s)
  <2>1. CASE e = Head(s)  BY <1>2, <2>1 DEF Elements
  <2>2. CASE e \in Elements(Tail(s))
    <3>1. PICK i \in 1..Len(Tail(s)) : e = Tail(s)[i]  BY <2>2 DEF Elements
    <3>2. i + 1 \in 1..Len(s) /\ s[i + 1] = e  BY <1>2, <1>3, <3>1
    <3>3. QED  BY <3>2 DEF Elements
  <2>3. QED  BY <1>5, <2>1, <2>2
<1>6. QED  BY <1>1, <1>4, <1>5

-----------------------------------------------------------------------------
(* Types                                                                    *)

RunnerType == [left : SUBSET Services, info : SUBSET Services, files : SUBSET Known]

\* The parts of TypeOK that the index and the handlers change.
IndexTypeOK ==
  /\ services \subseteq Services /\ crashed \in BOOLEAN /\ requests \in 0..MaxRequests
  /\ once \in {"no", "reading", "indexing", "done"}
  /\ runner \in RunnerType
  /\ serviceNames \subseteq Services /\ processed \subseteq Known
  /\ symbols \in [Symbols -> Known \cup {NoFile}]

StreamTypeOK ==
  /\ stream \in [Streams -> StreamState]
  /\ \A x \in Streams : stream[x].pc = "deps" => stream[x].file \in Known

WalkTypeOK ==
  /\ queue \in [Streams -> Seq(Known)]
  /\ response \in [Streams -> Seq(Known)]
  /\ sentFileDescriptors \in [Streams -> SUBSET Known]
  /\ got \in [Streams -> Seq(Seq(Known))]

\* The parts make up TypeOK.
LEMMA TypeParts == TypeOK <=> IndexTypeOK /\ StreamTypeOK /\ WalkTypeOK
BY DEF TypeOK, IndexTypeOK, StreamTypeOK, WalkTypeOK, RunnerType

\* Where a program starts.
LEMMA InitType == Init => TypeOK
<1> SUFFICES ASSUME Init PROVE IndexTypeOK /\ StreamTypeOK /\ WalkTypeOK  BY TypeParts
<1>1. IndexTypeOK
  <2>1. runner \in RunnerType  BY DEF Init, RunnerType
  <2>2. crashed \in BOOLEAN  BY Zenon DEF Init
  <2>3. QED  BY <2>1, <2>2, ReflectionAssumption DEF Init, IndexTypeOK, ReflectionAssumption
<1>2. StreamTypeOK
  <2>1. Idle \in StreamState /\ Idle.pc = "recv"  BY DEF Idle, StreamState, Requests
  <2>2. QED  BY <2>1 DEF Init, StreamTypeOK
<1>3. WalkTypeOK
  <2>1. <<>> \in Seq(Known)  OBVIOUS
  <2>2. <<>> \in Seq(Seq(Known))  OBVIOUS
  <2>3. QED  BY <2>1, <2>2 DEF Init, WalkTypeOK
<1>4. QED  BY <1>1, <1>2, <1>3

\* Every step keeps the types of the index.
LEMMA IndexTypeStep == TypeOK /\ [Next]_vars => IndexTypeOK'
<1> SUFFICES ASSUME TypeOK, [Next]_vars PROVE IndexTypeOK'  OBVIOUS
<1>a. IndexTypeOK  BY TypeParts
<1>1. ASSUME NEW svc \in Services, RegisterService(svc) PROVE IndexTypeOK'
  <2>1. runner' = runner \/ runner' = [runner EXCEPT !.left = @ \cup {svc}]
    BY <1>1 DEF RegisterService
  <2>2. runner' \in RunnerType  BY <1>a, <2>1 DEF IndexTypeOK, RunnerType
  <2>3. crashed' \in BOOLEAN  BY <1>1, <1>a, Zenon DEF RegisterService, IndexTypeOK
  <2>4. QED  BY <1>1, <1>a, <2>2, <2>3 DEF RegisterService, IndexTypeOK
<1>2. ASSUME NEW x \in Streams, StartIndex(x) PROVE IndexTypeOK'
  <2>1. runner' \in RunnerType  BY <1>2, <1>a DEF StartIndex, IndexTypeOK, RunnerType
  <2>2. crashed' \in BOOLEAN  BY <1>2, <1>a, Zenon DEF StartIndex, IndexOnly, IndexTypeOK
  <2>3. QED  BY <1>2, <1>a, <2>1, <2>2 DEF StartIndex, IndexOnly, IndexTypeOK
<1>3. CASE GetServiceInfo
  <2>1. runner' = runner \/ \E svc \in runner.left :
          runner' = [runner EXCEPT !.left = @ \ {svc}, !.info = @ \cup {svc}]
    BY <1>3 DEF GetServiceInfo
  <2>2. runner' \in RunnerType
    <3>1. runner \in RunnerType /\ runner.left \subseteq Services  BY <1>a DEF IndexTypeOK, RunnerType
    <3>2. ASSUME NEW svc \in Services,
                 runner' = [runner EXCEPT !.left = @ \ {svc}, !.info = @ \cup {svc}]
          PROVE  runner' \in RunnerType
      BY <3>1, <3>2 DEF RunnerType
    <3>3. QED  BY <2>1, <3>1, <3>2
  <2>3. once' \in {once, "indexing"}  BY <1>3 DEF GetServiceInfo
  <2>4. crashed' \in BOOLEAN  BY <1>3, <1>a, Zenon DEF GetServiceInfo, IndexOnly, IndexTypeOK
  <2>5. QED  BY <1>3, <1>a, <2>2, <2>3, <2>4 DEF GetServiceInfo, IndexOnly, IndexTypeOK
<1>4. ASSUME NEW svc \in Services, VisitService(svc) PROVE IndexTypeOK'
  <2>1. runner' \in RunnerType  BY <1>4, <1>a DEF VisitService, IndexTypeOK, RunnerType
  <2>2. crashed' \in BOOLEAN  BY <1>4, <1>a, Zenon DEF VisitService, IndexOnly, IndexTypeOK
  <2>3. QED  BY <1>4, <1>a, <2>1, <2>2 DEF VisitService, IndexOnly, IndexTypeOK
<1>5. ASSUME NEW f \in Known, ProcessFile(f) PROVE IndexTypeOK'
  <2>1. DepsOf(f) \subseteq Known  BY DEF DepsOf
  <2>2. runner' \in RunnerType  BY <1>5, <1>a, <2>1 DEF ProcessFile, IndexTypeOK, RunnerType
  <2>3. crashed' \in BOOLEAN  BY <1>5, <1>a, Zenon DEF ProcessFile, IndexOnly, IndexTypeOK
  <2>4. QED  BY <1>5, <1>a, <2>2, <2>3 DEF ProcessFile, IndexOnly, IndexTypeOK
<1>6. CASE IndexDone
  <2>1. crashed' \in BOOLEAN  BY <1>6, <1>a, Zenon DEF IndexDone, IndexOnly, IndexTypeOK
  <2>2. QED  BY <1>6, <1>a, <2>1 DEF IndexDone, IndexOnly, IndexTypeOK
<1>7. ASSUME NEW x \in Streams, Recv(x) PROVE IndexTypeOK'
  <2>1. crashed' \in BOOLEAN  BY <1>7, <1>a, Zenon DEF Recv, StreamOnly, IndexTypeOK
  <2>2. requests' \in 0..MaxRequests
    BY <1>7, <1>a, ReflectionAssumption DEF Recv, IndexTypeOK, ReflectionAssumption
  <2>3. QED  BY <1>7, <1>a, <2>1, <2>2 DEF Recv, StreamOnly, indexVars, IndexTypeOK
<1>8. CASE UNCHANGED <<services, crashed, indexVars, requests>>
  <2>1. crashed' \in BOOLEAN  BY <1>8, <1>a, Zenon DEF IndexTypeOK
  <2>2. QED  BY <1>8, <1>a, <2>1 DEF indexVars, IndexTypeOK
<1>9. QED
  BY <1>1, <1>2, <1>3, <1>4, <1>5, <1>6, <1>7, <1>8
  DEF Next, Index, vars, StreamEnds, Handler, GetSymbols, FindFile, WalkFile, WalkDep, WalkNext,
      Send, StreamOnly

\* Every step keeps the types of the streams.
LEMMA StreamTypeStep == TypeOK /\ [Next]_vars => StreamTypeOK'
<1> SUFFICES ASSUME TypeOK, [Next]_vars PROVE StreamTypeOK'  OBVIOUS
<1> USE DEF StreamTypeOK
<1>a. StreamTypeOK /\ WalkTypeOK  BY TypeParts
<1>1. CASE stream' = stream  BY <1>1, <1>a
<1>2. ASSUME NEW x \in Streams, Recv(x) PROVE StreamTypeOK'
  <2>1. PICK q \in Requests : stream' = [stream EXCEPT ![x].req = q, ![x].pc =
         CASE q.kind \in {"symbol", "list"}    -> "symbols"
           [] q.kind \in {"file", "extension"} -> "found"
           [] q.kind = "numbers"               -> "send"
           [] q.kind = "invalid"               -> "closed"]
    BY <1>2 DEF Recv
  <2>2. q.kind \in {"symbol", "list", "file", "extension", "numbers", "invalid"}  BY DEF Requests
  <2>3. PICK p \in {"symbols", "found", "send", "closed"} :
          stream' = [stream EXCEPT ![x].req = q, ![x].pc = p]
    BY <2>1, <2>2
  <2>4. QED  BY <1>a, <2>3 DEF StreamState
<1>3. ASSUME NEW x \in Streams, StreamEnds(x) PROVE StreamTypeOK'
  BY <1>3, <1>a DEF StreamEnds, StreamState
<1>4. ASSUME NEW x \in Streams, GetSymbols(x) PROVE StreamTypeOK'
  BY <1>4, <1>a DEF GetSymbols, StreamState
<1>5. ASSUME NEW x \in Streams, FindFile(x) PROVE StreamTypeOK'
  BY <1>5, <1>a DEF FindFile, StreamState
<1>6. ASSUME NEW x \in Streams, WalkFile(x) PROVE StreamTypeOK'
  <2>1. queue[x] \in Seq(Known) /\ queue[x] # <<>>  BY <1>6, <1>a DEF WalkFile, WalkTypeOK
  <2>2. Head(queue[x]) \in Known  BY <2>1, ElementsHeadTail
  <2>3. stream' = [stream EXCEPT ![x].pc = "deps", ![x].file = Head(queue[x]), ![x].dep = 1]
    BY <1>6 DEF WalkFile
  <2>4. QED  BY <1>a, <2>2, <2>3 DEF StreamState
<1>7. ASSUME NEW x \in Streams, WalkDep(x) PROVE StreamTypeOK'
  <2>1. stream' = [stream EXCEPT ![x].dep = stream[x].dep + 1]  BY <1>7 DEF WalkDep
  <2>2. stream[x].dep + 1 \in Nat  BY <1>a DEF StreamState
  <2>3. QED  BY <1>a, <2>1, <2>2 DEF StreamState
<1>8. ASSUME NEW x \in Streams, WalkNext(x) PROVE StreamTypeOK'
  <2>1. PICK p \in {"send", "walk"} : stream' = [stream EXCEPT ![x].pc = p]  BY <1>8 DEF WalkNext
  <2>2. QED  BY <1>a, <2>1 DEF StreamState
<1>9. ASSUME NEW x \in Streams, Send(x) PROVE StreamTypeOK'
  <2>1. Idle \in StreamState /\ Idle.pc = "recv"  BY DEF Idle, StreamState, Requests
  <2>2. QED  BY <1>9, <1>a, <2>1 DEF Send
<1>10. QED
  BY <1>1, <1>2, <1>3, <1>4, <1>5, <1>6, <1>7, <1>8, <1>9
  DEF Next, vars, Handler, Index, RegisterService, StartIndex, GetServiceInfo, VisitService,
      ProcessFile, IndexDone, IndexOnly

\* Every step keeps the types of the walks.
LEMMA WalkTypeStep == TypeOK /\ [Next]_vars => WalkTypeOK'
<1> SUFFICES ASSUME TypeOK, [Next]_vars PROVE WalkTypeOK'  OBVIOUS
<1> USE DEF WalkTypeOK
<1>a. StreamTypeOK /\ WalkTypeOK  BY TypeParts
<1>1. CASE UNCHANGED <<walkVars, got>>  BY <1>1, <1>a DEF walkVars
<1>2. ASSUME NEW x \in Streams, FindFile(x) PROVE WalkTypeOK'
  <2>1. Candidates(stream[x].req) \subseteq Known
    <3>1. symbols \in [Symbols -> Known \cup {NoFile}] /\ stream[x].req \in Requests
      BY TypeParts DEF IndexTypeOK, StreamTypeOK, StreamState
    <3>2. stream[x].req.kind = "symbol" => stream[x].req.name \in Symbols  BY <3>1 DEF Requests
    <3>3. QED  BY <3>1, <3>2 DEF Candidates
  <2>2. queue' = queue \/ \E f \in Candidates(stream[x].req) : queue' = [queue EXCEPT ![x] = <<f>>]
    BY <1>2 DEF FindFile
  <2>3. queue' \in [Streams -> Seq(Known)]
    <3>1. CASE queue' = queue  BY <3>1, <1>a
    <3>2. ASSUME NEW f \in Known, queue' = [queue EXCEPT ![x] = <<f>>]
          PROVE  queue' \in [Streams -> Seq(Known)]
      <4>1. <<f>> \in Seq(Known)  OBVIOUS
      <4>2. QED  BY <1>a, <3>2, <4>1
    <3>3. QED  BY <2>1, <2>2, <3>1, <3>2
  <2>4. QED  BY <1>2, <1>a, <2>3 DEF FindFile
<1>3. ASSUME NEW x \in Streams, WalkFile(x) PROVE WalkTypeOK'
  <2>1. queue[x] \in Seq(Known) /\ queue[x] # <<>>  BY <1>3, <1>a DEF WalkFile
  <2>2. PICK f \in Known : f = Head(queue[x])  BY <2>1, ElementsHeadTail
  <2>3. Tail(queue[x]) \in Seq(Known)  BY <2>1, ElementsHeadTail
  <2>4. Append(response[x], f) \in Seq(Known)
    <3>1. response[x] \in Seq(Known)  BY <1>a
    <3>2. QED  BY <3>1
  <2>5. queue' \in [Streams -> Seq(Known)]  BY <1>3, <1>a, <2>3 DEF WalkFile
  <2>6. response' = response \/ response' = [response EXCEPT ![x] = Append(response[x], f)]
    BY <1>3, <2>2 DEF WalkFile
  <2>7. \/ sentFileDescriptors' = sentFileDescriptors
        \/ sentFileDescriptors' = [sentFileDescriptors EXCEPT ![x] = sentFileDescriptors[x] \cup {f}]
    BY <1>3, <2>2 DEF WalkFile
  <2>8. response' \in [Streams -> Seq(Known)]  BY <1>a, <2>4, <2>6
  <2>9. sentFileDescriptors' \in [Streams -> SUBSET Known]  BY <1>a, <2>7
  <2>10. got' = got  BY <1>3 DEF WalkFile
  <2>11. QED  BY <1>a, <2>5, <2>8, <2>9, <2>10
<1>4. ASSUME NEW x \in Streams, WalkDep(x) PROVE WalkTypeOK'
  BY <1>4, <1>a DEF WalkDep
<1>5. ASSUME NEW x \in Streams, Send(x) PROVE WalkTypeOK'
  <2>1. Append(got[x], response[x]) \in Seq(Seq(Known))  BY <1>a
  <2>2. <<>> \in Seq(Known)  OBVIOUS
  <2>3. QED  BY <1>5, <1>a, <2>1, <2>2 DEF Send
<1>6. QED
  BY <1>1, <1>2, <1>3, <1>4, <1>5
  DEF Next, vars, Handler, Index, RegisterService, StartIndex, GetServiceInfo, VisitService,
      ProcessFile, IndexDone, IndexOnly, Recv, StreamEnds, GetSymbols, WalkNext

(* Theorem: every variable of Reflection keeps its type. *)
THEOREM TypeCorrect == Spec => []TypeOK
<1>1. TypeOK /\ [Next]_vars => TypeOK'
  <2>1. TypeOK' <=> IndexTypeOK' /\ StreamTypeOK' /\ WalkTypeOK'
    BY DEF TypeOK, IndexTypeOK, StreamTypeOK, WalkTypeOK, RunnerType
  <2>2. QED  BY <2>1, IndexTypeStep, StreamTypeStep, WalkTypeStep
<1>2. QED  BY <1>1, InitType, PTL DEF Spec

-----------------------------------------------------------------------------
(* The index                                                                *)

\* While the index is made, what is still to be processed stands for the files of
\* the services visited and for the imports of the files processed.
IndexInv ==
  /\ once \in {"no", "reading"} => serviceNames = {} /\ processed = {} /\ runner.files = {}
  /\ once = "done" => runner.files = {}
  /\ \A svc \in serviceNames : FileOf[svc] \in Known => FileOf[svc] \in processed \cup runner.files
  /\ \A f \in processed : DepsOf(f) \subseteq processed \cup runner.files
  /\ \A s \in Symbols :
       IF \E f \in processed : s \in Defines[f]
       THEN symbols[s] \in processed /\ s \in Defines[symbols[s]]
       ELSE symbols[s] = NoFile

\* Every step keeps the invariant of the index.
LEMMA IndexStep == TypeOK /\ IndexInv /\ [Next]_vars => IndexInv'
<1> SUFFICES ASSUME TypeOK, IndexInv, [Next]_vars PROVE IndexInv'  OBVIOUS
<1>a. IndexTypeOK  BY TypeParts
<1> USE DEF IndexInv, DepsOf
<1>1. ASSUME NEW svc \in Services, RegisterService(svc) PROVE IndexInv'
  <2>1. runner'.files = runner.files
    <3>1. runner' = runner \/ runner' = [runner EXCEPT !.left = @ \cup {svc}]
      BY <1>1 DEF RegisterService
    <3>2. QED  BY <1>a, <3>1 DEF IndexTypeOK, RunnerType
  <2>2. QED  BY <1>1, <2>1 DEF RegisterService
<1>2. ASSUME NEW x \in Streams, StartIndex(x) PROVE IndexInv'
  <2>1. runner'.files = runner.files  BY <1>2, <1>a DEF StartIndex, IndexTypeOK, RunnerType
  <2>2. QED  BY <1>2, <2>1 DEF StartIndex
<1>3. CASE GetServiceInfo
  <2>1. once = "reading" /\ once' \in {"reading", "indexing"}
        /\ UNCHANGED <<serviceNames, processed, symbols>>
    BY <1>3 DEF GetServiceInfo
  <2>2. runner' = runner \/ \E svc \in runner.left :
          runner' = [runner EXCEPT !.left = @ \ {svc}, !.info = @ \cup {svc}]
    BY <1>3 DEF GetServiceInfo
  <2>3. runner'.files = runner.files  BY <1>a, <2>2 DEF IndexTypeOK, RunnerType
  <2>4. QED  BY <2>1, <2>3
<1>4. ASSUME NEW svc \in Services, VisitService(svc) PROVE IndexInv'
  <2>1. runner.files = {} /\ runner'.files = ({FileOf[svc]} \cap Known) \ processed
    BY <1>4, <1>a DEF VisitService, IndexTypeOK, RunnerType
  <2>2. QED  BY <1>4, <2>1 DEF VisitService
<1>5. ASSUME NEW f \in Known, ProcessFile(f) PROVE IndexInv'
  <2>1. runner'.files = (runner.files \cup DepsOf(f)) \ (processed \cup {f})
    BY <1>5, <1>a DEF ProcessFile, IndexTypeOK, RunnerType
  <2>2. once = "indexing" /\ once' = once /\ serviceNames' = serviceNames /\ f \in runner.files
        /\ processed' = processed \cup {f}
        /\ symbols' = [s \in Symbols |-> IF s \in Defines[f] THEN f ELSE symbols[s]]
    BY <1>5 DEF ProcessFile
  <2>3. \A svc \in serviceNames' : FileOf[svc] \in Known => FileOf[svc] \in (processed \cup runner.files)'
    BY <2>1, <2>2
  <2>4. \A g \in processed' : DepsOf(g) \subseteq (processed \cup runner.files)'
    BY <2>1, <2>2
  <2>5. ASSUME NEW s \in Symbols
        PROVE  IF \E g \in processed' : s \in Defines[g]
               THEN symbols'[s] \in processed' /\ s \in Defines[symbols'[s]]
               ELSE symbols'[s] = NoFile
    BY <2>2
  <2>6. QED  BY <2>2, <2>3, <2>4, <2>5
<1>6. CASE IndexDone  BY <1>6 DEF IndexDone
<1>7. CASE UNCHANGED indexVars  BY <1>7 DEF indexVars
<1>8. QED
  BY <1>1, <1>2, <1>3, <1>4, <1>5, <1>6, <1>7
  DEF Next, Index, vars, Recv, StreamEnds, Handler, GetSymbols, FindFile, WalkFile, WalkDep,
      WalkNext, Send, StreamOnly

(* Theorem: the index, once made, is complete for its services, whatever the graph
   and whichever services are registered while it is made. *)
THEOREM IndexAlwaysComplete == Spec => []IndexComplete
<1>1. Init => IndexInv
  <2>1. Init => runner.files = {}  BY DEF Init
  <2>2. QED  BY <2>1 DEF Init, IndexInv
<1>2. TypeOK /\ IndexInv => IndexComplete
  BY DEF IndexInv, IndexComplete
<1>3. QED  BY <1>1, <1>2, IndexStep, TypeCorrect, PTL DEF Spec

-----------------------------------------------------------------------------
(* The walk                                                                 *)

\* The imports of the current file that are still to be queued.
Unqueued(x) ==
  IF stream[x].pc = "deps"
  THEN {Deps[stream[x].file][i] : i \in stream[x].dep..Len(Deps[stream[x].file])} \cap Known
  ELSE {}

\* What a stream was sent is what its client received and what the response holds;
\* its imports were sent, or are queued, or are about to be.
SentCovered(x) ==
  /\ sentFileDescriptors[x] = Received(x) \cup Elements(response[x])
  /\ \A f \in sentFileDescriptors[x] :
       DepsOf(f) \subseteq sentFileDescriptors[x] \cup Elements(queue[x]) \cup Unqueued(x)

ResponseFresh(x) ==
  \A j \in 2..Len(response[x]) :
    /\ \A k \in 1..(j - 1) : response[x][k] # response[x][j]
    /\ response[x][j] \notin Received(x)

WalkInv(x) ==
  /\ stream[x].pc \in {"recv", "symbols", "found"} => response[x] = <<>>
  /\ stream[x].pc \notin {"walk", "deps"} => queue[x] = <<>>
  /\ SentCovered(x)
  /\ ResponseFresh(x)

WalksInv == \A x \in Streams : WalkInv(x)

\* The files of a longer sequence of answers.
LEMMA FilesAppend ==
  ASSUME NEW S, NEW g \in Seq(Seq(S)), NEW r \in Seq(S)
  PROVE  Files(Append(g, r)) = Files(g) \cup Elements(r)
<1> DEFINE h == Append(g, r)
<1>1. Len(h) = Len(g) + 1 /\ Len(g) \in Nat /\ h[Len(g) + 1] = r
      /\ \A i \in 1..Len(g) : h[i] = g[i]
  OBVIOUS
<1> HIDE DEF h
<1>2. ASSUME NEW e \in Files(h) PROVE e \in Files(g) \cup Elements(r)
  <2>1. PICK i \in 1..Len(h) : e \in Elements(h[i])  BY <1>2 DEF Files
  <2>2. CASE i = Len(g) + 1
    <3>1. h[i] = r  BY <1>1, <2>2
    <3>2. QED  BY <2>1, <3>1
  <2>3. CASE i # Len(g) + 1
    <3>1. i \in 1..Len(g) /\ h[i] = g[i]  BY <1>1, <2>3
    <3>2. QED  BY <2>1, <3>1 DEF Files
  <2>4. QED  BY <2>2, <2>3
<1>3. ASSUME NEW e \in Files(g) PROVE e \in Files(h)
  <2>1. PICK i \in 1..Len(g) : e \in Elements(g[i])  BY <1>3 DEF Files
  <2>2. i \in 1..Len(h) /\ e \in Elements(h[i])  BY <1>1, <2>1
  <2>3. QED  BY <2>2 DEF Files
<1>4. ASSUME NEW e \in Elements(r) PROVE e \in Files(h)
  <2>1. Len(g) + 1 \in 1..Len(h) /\ e \in Elements(h[Len(g) + 1])  BY <1>1
  <2>2. QED  BY <2>1 DEF Files
<1>5. Files(h) = Files(g) \cup Elements(r)  BY <1>2, <1>3, <1>4
<1>6. QED  BY <1>5 DEF h

\* What a client received grows by the answers sent to it.
LEMMA ReceivedStep ==
  ASSUME NEW x \in Streams, got[x] \in Seq(Seq(Known)), response[x] \in Seq(Known),
         got'[x] = Append(got[x], response[x])
  PROVE  Received(x)' = Received(x) \cup Elements(response[x])
BY FilesAppend DEF Received

\* A step of another stream, or of none, leaves WalkInv(x) alone.
LEMMA WalkFrame ==
  ASSUME NEW x \in Streams, WalkInv(x), stream'[x] = stream[x], queue'[x] = queue[x],
         response'[x] = response[x], sentFileDescriptors'[x] = sentFileDescriptors[x], got'[x] = got[x]
  PROVE  WalkInv(x)'
<1>1. Received(x)' = Received(x)  BY DEF Received
<1>2. Unqueued(x)' = Unqueued(x)  BY DEF Unqueued
<1>3. QED  BY <1>1, <1>2 DEF WalkInv, SentCovered, ResponseFresh

\* What the actions that only move a stream's pc do.
LEMMA PcStep ==
  ASSUME TypeOK, NEW x \in Streams, WalkInv(x), NEW p,
         p \in {"recv", "symbols", "found"} => response[x] = <<>>,
         p = "deps" => FALSE, Unqueued(x) = {},
         p # "walk" => queue[x] = <<>>,
         stream'[x].pc = p, UNCHANGED <<walkVars, got>>
  PROVE  WalkInv(x)'
<1>1. Received(x)' = Received(x)  BY DEF Received
<1>2. Unqueued(x)' = {}  BY DEF Unqueued
<1>3. SentCovered(x)'  BY <1>1, <1>2 DEF WalkInv, SentCovered, walkVars
<1>4. ResponseFresh(x)'  BY <1>1 DEF WalkInv, ResponseFresh, walkVars
<1>5. QED  BY <1>3, <1>4 DEF WalkInv, walkVars

\* Every step keeps the invariant of the walks.
LEMMA WalkStep == TypeOK /\ WalksInv /\ [Next]_vars => WalksInv'
<1> SUFFICES ASSUME TypeOK, WalksInv, [Next]_vars, NEW x \in Streams PROVE WalkInv(x)'
  BY DEF WalksInv
<1>a. WalkInv(x)  BY DEF WalksInv
<1>b. StreamTypeOK /\ WalkTypeOK  BY TypeParts
<1> USE DEF StreamTypeOK, WalkTypeOK
<1>1. CASE UNCHANGED <<stream, walkVars, got>>  BY <1>1, <1>a, WalkFrame DEF walkVars
<1>2. ASSUME NEW y \in Streams, y # x, Recv(y) \/ StreamEnds(y) \/ Handler(y)
      PROVE  WalkInv(x)'
  <2>1. stream'[x] = stream[x]
    BY <1>2, <1>b DEF Recv, StreamEnds, Handler, GetSymbols, FindFile, WalkFile, WalkDep, WalkNext, Send
  <2>2. queue'[x] = queue[x] /\ response'[x] = response[x]
    BY <1>2, <1>b
    DEF Recv, StreamEnds, Handler, GetSymbols, FindFile, WalkFile, WalkDep, WalkNext, Send, walkVars
  <2>3. sentFileDescriptors'[x] = sentFileDescriptors[x] /\ got'[x] = got[x]
    BY <1>2, <1>b
    DEF Recv, StreamEnds, Handler, GetSymbols, FindFile, WalkFile, WalkDep, WalkNext, Send, walkVars
  <2>4. QED  BY <1>a, <2>1, <2>2, <2>3, WalkFrame
<1>3. CASE Recv(x)
  <2>1. PICK q \in Requests : stream' = [stream EXCEPT ![x].req = q, ![x].pc =
         CASE q.kind \in {"symbol", "list"}    -> "symbols"
           [] q.kind \in {"file", "extension"} -> "found"
           [] q.kind = "numbers"               -> "send"
           [] q.kind = "invalid"               -> "closed"]
    BY <1>3 DEF Recv
  <2>2. q.kind \in {"symbol", "list", "file", "extension", "numbers", "invalid"}  BY DEF Requests
  <2>3. PICK p \in {"symbols", "found", "send", "closed"} :
          stream' = [stream EXCEPT ![x].req = q, ![x].pc = p]
    BY <2>1, <2>2
  <2>4. stream'[x].pc = p  BY <1>b, <2>3 DEF StreamState
  <2>5. stream[x].pc = "recv" /\ UNCHANGED <<walkVars, got>>  BY <1>3 DEF Recv
  <2>6. response[x] = <<>> /\ queue[x] = <<>> /\ Unqueued(x) = {}
    BY <1>a, <2>5 DEF WalkInv, Unqueued
  <2>7. QED  BY <1>a, <2>3, <2>4, <2>5, <2>6, PcStep
<1>4. CASE StreamEnds(x)
  <2>1. stream[x].pc \in {"recv", "send"} /\ stream'[x].pc = "closed" /\ UNCHANGED <<walkVars, got>>
    BY <1>4, <1>b DEF StreamEnds, StreamState
  <2>2. queue[x] = <<>> /\ Unqueued(x) = {}  BY <1>a, <2>1 DEF WalkInv, Unqueued
  <2>3. QED  BY <1>a, <2>1, <2>2, PcStep
<1>5. CASE GetSymbols(x)
  <2>1. stream[x].pc = "symbols" /\ stream'[x].pc \in {"send", "found"} /\ UNCHANGED <<walkVars, got>>
    BY <1>5, <1>b DEF GetSymbols, StreamState
  <2>2. response[x] = <<>> /\ queue[x] = <<>> /\ Unqueued(x) = {}
    BY <1>a, <2>1 DEF WalkInv, Unqueued
  <2>3. QED  BY <1>a, <2>1, <2>2, PcStep
<1>6. CASE FindFile(x)
  <2>1. stream[x].pc = "found" /\ stream'[x].pc \in {"send", "walk"}
        /\ UNCHANGED <<response, sentFileDescriptors, got>>
    BY <1>6, <1>b DEF FindFile, StreamState
  <2>2. stream'[x].pc = "send" => queue' = queue  BY <1>6, <1>b DEF FindFile, StreamState
  <2>3. response[x] = <<>> /\ queue[x] = <<>> /\ Unqueued(x) = {}
    BY <1>a, <2>1 DEF WalkInv, Unqueued
  <2>4. Received(x)' = Received(x) /\ Unqueued(x)' = {}  BY <2>1 DEF Received, Unqueued
  <2>5. Elements(queue[x]) = {}  BY <2>3 DEF Elements
  <2>6. SentCovered(x)'  BY <1>a, <2>1, <2>3, <2>4, <2>5 DEF WalkInv, SentCovered
  <2>7. ResponseFresh(x)'  BY <1>a, <2>1, <2>4 DEF WalkInv, ResponseFresh
  <2>8. QED  BY <2>1, <2>2, <2>3, <2>6, <2>7 DEF WalkInv
<1>7. CASE WalkFile(x)
  <2> DEFINE f == Head(queue[x])
  <2>1. stream[x].pc = "walk" /\ queue[x] # <<>> /\ queue[x] \in Seq(Known) /\ response[x] \in Seq(Known)
    BY <1>7, <1>b DEF WalkFile
  <2>2. f \in Known /\ Elements(queue[x]) = {f} \cup Elements(Tail(queue[x]))
    BY <2>1, ElementsHeadTail
  <2> HIDE DEF f
  <2>3. queue'[x] = Tail(queue[x]) /\ stream'[x].pc = "deps" /\ stream'[x].file = f /\ stream'[x].dep = 1
    BY <1>7, <1>b DEF WalkFile, StreamState, f
  <2>4. Received(x)' = Received(x)  BY <1>7 DEF WalkFile, Received
  <2>5. Unqueued(x) = {} /\ Unqueued(x)' = DepsOf(f)
    BY <2>1, <2>3 DEF Unqueued, DepsOf, Elements
  <2>6. CASE response[x] = <<>> \/ f \notin sentFileDescriptors[x]
    <3>1. response'[x] = Append(response[x], f)
          /\ sentFileDescriptors'[x] = sentFileDescriptors[x] \cup {f}
      BY <1>7, <1>b, <2>6 DEF WalkFile, f
    <3>2. Elements(response'[x]) = Elements(response[x]) \cup {f}  BY <2>1, <3>1, ElementsAppend
    <3>3. SentCovered(x)'
      BY <1>a, <2>2, <2>3, <2>4, <2>5, <3>1, <3>2 DEF WalkInv, SentCovered
    <3>4. ResponseFresh(x)'
      <4>1. Len(response'[x]) = Len(response[x]) + 1 /\ Len(response[x]) \in Nat
            /\ response'[x][Len(response[x]) + 1] = f
            /\ \A k \in 1..Len(response[x]) : response'[x][k] = response[x][k]
        BY <2>1, <3>1
      <4>2. Len(response[x]) >= 1 => f \notin Received(x) \cup Elements(response[x])
        BY <1>a, <2>1, <2>6 DEF WalkInv, SentCovered
      <4>3. \A k \in 1..Len(response[x]) : response[x][k] \in Elements(response[x])  BY DEF Elements
      <4>4. ASSUME NEW j \in 2..Len(response'[x])
            PROVE  /\ \A k \in 1..(j - 1) : response'[x][k] # response'[x][j]
                   /\ response'[x][j] \notin Received(x)
        <5>1. CASE j = Len(response[x]) + 1  BY <4>1, <4>2, <4>3, <5>1
        <5>2. CASE j # Len(response[x]) + 1
          <6>1. j \in 2..Len(response[x])  BY <4>1, <5>2
          <6>2. \A k \in 1..(j - 1) : k \in 1..Len(response[x])  BY <4>1, <6>1
          <6>3. j \in 1..Len(response[x])  BY <6>1
          <6>4. QED  BY <1>a, <4>1, <6>1, <6>2, <6>3 DEF WalkInv, ResponseFresh
        <5>3. QED  BY <5>1, <5>2
      <4>5. QED  BY <2>4, <4>4 DEF ResponseFresh
    <3>5. QED  BY <2>3, <3>3, <3>4 DEF WalkInv
  <2>7. CASE ~(response[x] = <<>> \/ f \notin sentFileDescriptors[x])
    <3>1. response' = response /\ sentFileDescriptors' = sentFileDescriptors
      BY <1>7, <2>7 DEF WalkFile, f
    <3>2. SentCovered(x)'
      BY <1>a, <2>2, <2>3, <2>4, <2>5, <2>7, <3>1 DEF WalkInv, SentCovered
    <3>3. ResponseFresh(x)'  BY <1>a, <2>4, <3>1 DEF WalkInv, ResponseFresh
    <3>4. QED  BY <2>3, <3>2, <3>3 DEF WalkInv
  <2>8. QED  BY <2>6, <2>7
<1>8. CASE WalkDep(x)
  <2> DEFINE f == stream[x].file
             d == Deps[f][stream[x].dep]
  <2>1. stream[x].pc = "deps" /\ f \in Known /\ stream[x].dep \in Nat /\ stream[x].dep <= Len(Deps[f])
        /\ Deps[f] \in Seq(Names) /\ queue[x] \in Seq(Known)
    BY <1>8, <1>b, ReflectionAssumption DEF WalkDep, StreamState, ReflectionAssumption
  <2>2. stream'[x].pc = "deps" /\ stream'[x].file = f /\ stream'[x].dep = stream[x].dep + 1
        /\ UNCHANGED <<response, sentFileDescriptors, got>>
    BY <1>8, <1>b DEF WalkDep, StreamState
  <2>3. Received(x)' = Received(x)  BY <2>2 DEF Received
  <2>4. Unqueued(x) = Unqueued(x)' \cup ({d} \cap Known)
    <3>1. Unqueued(x) = {Deps[f][i] : i \in stream[x].dep..Len(Deps[f])} \cap Known
      BY <2>1 DEF Unqueued
    <3>2. Unqueued(x)' = {Deps[f][i] : i \in (stream[x].dep + 1)..Len(Deps[f])} \cap Known
      BY <2>2 DEF Unqueued
    <3>3. Len(Deps[f]) \in Nat  BY <2>1
    <3> HIDE DEF f
    <3>4. stream[x].dep..Len(Deps[f]) = {stream[x].dep} \cup ((stream[x].dep + 1)..Len(Deps[f]))
      BY <2>1, <3>3
    <3>5. QED  BY <3>1, <3>2, <3>4
  <2>5. Elements(queue'[x]) = Elements(queue[x]) \cup ({d} \cap Known)
    <3>1. CASE d \in Known
      <4>1. queue'[x] = Append(queue[x], d)  BY <1>8, <1>b, <3>1 DEF WalkDep
      <4>2. QED  BY <2>1, <3>1, <4>1, ElementsAppend
    <3>2. CASE d \notin Known  BY <1>8, <1>b, <3>2 DEF WalkDep
    <3>3. QED  BY <3>1, <3>2
  <2> HIDE DEF f, d
  <2>6. SentCovered(x)'  BY <1>a, <2>2, <2>3, <2>4, <2>5 DEF WalkInv, SentCovered
  <2>7. ResponseFresh(x)'  BY <1>a, <2>2, <2>3 DEF WalkInv, ResponseFresh
  <2>8. QED  BY <2>2, <2>6, <2>7 DEF WalkInv
<1>9. CASE WalkNext(x)
  <2>1. stream[x].pc = "deps" /\ stream[x].file \in Known /\ stream[x].dep \in Nat
        /\ stream[x].dep > Len(Deps[stream[x].file]) /\ Deps[stream[x].file] \in Seq(Names)
    BY <1>9, <1>b, ReflectionAssumption DEF WalkNext, StreamState, ReflectionAssumption
  <2>2. stream'[x].pc = (IF queue[x] = <<>> THEN "send" ELSE "walk") /\ UNCHANGED <<walkVars, got>>
    BY <1>9, <1>b DEF WalkNext, StreamState
  <2>3. Unqueued(x) = {}
    <3>1. stream[x].dep..Len(Deps[stream[x].file]) = {}  BY <2>1
    <3>2. QED  BY <3>1 DEF Unqueued
  <2>4. QED  BY <1>a, <2>2, <2>3, PcStep
<1>10. CASE Send(x)
  <2>1. stream[x].pc = "send" /\ stream'[x] = Idle /\ response'[x] = <<>>
        /\ got'[x] = Append(got[x], response[x]) /\ UNCHANGED <<queue, sentFileDescriptors>>
    BY <1>10, <1>b DEF Send
  <2>2. got[x] \in Seq(Seq(Known)) /\ response[x] \in Seq(Known)  BY <1>b
  <2>3. Received(x)' = Received(x) \cup Elements(response[x])
    BY <2>1, <2>2, ReceivedStep
  <2>4. Elements(response'[x]) = {} /\ Unqueued(x)' = {} /\ Unqueued(x) = {} /\ stream'[x].pc = "recv"
    BY <2>1 DEF Elements, Unqueued, Idle
  <2>5. SentCovered(x)'  BY <1>a, <2>1, <2>3, <2>4 DEF WalkInv, SentCovered
  <2>6. ResponseFresh(x)'  BY <2>1 DEF ResponseFresh
  <2>7. QED  BY <1>a, <2>1, <2>4, <2>5, <2>6 DEF WalkInv
<1>11. QED
  BY <1>1, <1>2, <1>3, <1>4, <1>5, <1>6, <1>7, <1>8, <1>9, <1>10
  DEF Next, Index, vars, Handler, RegisterService, StartIndex, GetServiceInfo, VisitService,
      ProcessFile, IndexDone, IndexOnly

\* Of the whole history of answers only the last step of the walk adds to it.
LEMMA GotStep ==
  ASSUME TypeOK, [Next]_vars, NEW x \in Streams
  PROVE  \/ got'[x] = got[x]
         \/ /\ stream[x].pc = "send" /\ got'[x] = Append(got[x], response[x])
<1>1. CASE got' = got  BY <1>1
<1>2. ASSUME NEW y \in Streams, Send(y)
      PROVE  got'[x] = got[x] \/ (stream[x].pc = "send" /\ got'[x] = Append(got[x], response[x]))
  BY <1>2, TypeParts DEF Send, WalkTypeOK
<1>3. QED
  BY <1>1, <1>2
  DEF Next, Index, vars, walkVars, Handler, RegisterService, StartIndex, GetServiceInfo, VisitService,
      ProcessFile, IndexDone, IndexOnly, Recv, StreamEnds, GetSymbols, FindFile, WalkFile, WalkDep,
      WalkNext

\* Every step keeps the client closed under imports.
LEMMA ClosedStep == TypeOK /\ WalksInv /\ ClientClosed /\ [Next]_vars => ClientClosed'
<1> SUFFICES ASSUME TypeOK, WalksInv, ClientClosed, [Next]_vars, NEW x \in Streams
             PROVE  \A f \in Received(x)' : DepsOf(f) \subseteq Received(x)'
  BY DEF ClientClosed, DepsOf
<1>1. CASE got'[x] = got[x]
  <2>1. Received(x)' = Received(x)  BY <1>1 DEF Received
  <2>2. QED  BY <2>1 DEF ClientClosed
<1>2. CASE stream[x].pc = "send" /\ got'[x] = Append(got[x], response[x])
  <2>1. WalkInv(x)  BY DEF WalksInv
  <2>2. queue[x] = <<>> /\ Unqueued(x) = {} /\ Elements(queue[x]) = {}
    BY <1>2, <2>1 DEF WalkInv, Unqueued, Elements
  <2>3. got[x] \in Seq(Seq(Known)) /\ response[x] \in Seq(Known)  BY TypeParts DEF WalkTypeOK
  <2>4. Received(x)' = sentFileDescriptors[x]
    <3>1. Received(x)' = Received(x) \cup Elements(response[x])  BY <1>2, <2>3, ReceivedStep
    <3>2. QED  BY <2>1, <3>1 DEF WalkInv, SentCovered
  <2>5. \A f \in sentFileDescriptors[x] : DepsOf(f) \subseteq sentFileDescriptors[x]
    BY <2>1, <2>2 DEF WalkInv, SentCovered
  <2>6. QED  BY <2>4, <2>5
<1>3. QED  BY <1>1, <1>2, GotStep

\* No step sends a file again.
LEMMA NoResendStep == TypeOK /\ WalksInv /\ NoResend /\ [Next]_vars => NoResend'
<1> SUFFICES ASSUME TypeOK, WalksInv, NoResend, [Next]_vars, NEW x \in Streams,
                    NEW i \in 1..Len(got'[x]), NEW j \in 2..Len(got'[x][i])
             PROVE  /\ \A k \in 1..(j - 1) : got'[x][i][k] # got'[x][i][j]
                    /\ \A h \in 1..(i - 1) : got'[x][i][j] \notin Elements(got'[x][h])
  BY DEF NoResend, Elements
<1>a. got[x] \in Seq(Seq(Known)) /\ response[x] \in Seq(Known)  BY TypeParts DEF WalkTypeOK
<1>1. CASE got'[x] = got[x]  BY <1>1 DEF NoResend
<1>2. CASE stream[x].pc = "send" /\ got'[x] = Append(got[x], response[x])
  <2>1. Len(got'[x]) = Len(got[x]) + 1 /\ Len(got[x]) \in Nat
        /\ got'[x][Len(got[x]) + 1] = response[x]
        /\ \A k \in 1..Len(got[x]) : got'[x][k] = got[x][k]
    BY <1>2, <1>a
  <2>2. CASE i = Len(got[x]) + 1
    <3>1. ResponseFresh(x) /\ got'[x][i] = response[x]  BY <2>1, <2>2 DEF WalksInv, WalkInv
    <3>2. \A h \in 1..(i - 1) : h \in 1..Len(got[x]) /\ got'[x][h] = got[x][h]  BY <2>1, <2>2
    <3>3. \A h \in 1..Len(got[x]) : Elements(got[x][h]) \subseteq Received(x)  BY DEF Received, Files
    <3>4. QED  BY <3>1, <3>2, <3>3 DEF ResponseFresh
  <2>3. CASE i # Len(got[x]) + 1
    <3>1. i \in 1..Len(got[x]) /\ got'[x][i] = got[x][i]  BY <2>1, <2>3
    <3>2. \A h \in 1..(i - 1) : got'[x][h] = got[x][h]  BY <2>1, <3>1
    <3>3. j \in 2..Len(got[x][i])  BY <3>1
    <3>4. /\ \A k \in 1..(j - 1) : got[x][i][k] # got[x][i][j]
          /\ \A h \in 1..(i - 1) : got[x][i][j] \notin Elements(got[x][h])
      BY <3>1, <3>3 DEF NoResend
    <3>5. QED  BY <3>1, <3>2, <3>4
  <2>4. QED  BY <2>2, <2>3
<1>3. QED  BY <1>1, <1>2, GotStep

\* No stream has walked at first.
LEMMA InitWalks == Init => WalksInv /\ ClientClosed /\ NoResend
<1> SUFFICES ASSUME Init, NEW x \in Streams PROVE WalkInv(x) /\ Received(x) = {} /\ got[x] = <<>>
  BY DEF WalksInv, ClientClosed, NoResend
<1>1. queue[x] = <<>> /\ response[x] = <<>> /\ sentFileDescriptors[x] = {} /\ got[x] = <<>>
      /\ stream[x].pc = "recv"
  BY DEF Init, Idle
<1>2. Received(x) = {} /\ Elements(response[x]) = {}  BY <1>1 DEF Received, Files, Elements
<1>3. QED  BY <1>1, <1>2 DEF WalkInv, SentCovered, ResponseFresh

(* Theorem: after every answer the client can resolve all linked imports of all it
   was sent, whatever the graph, the requests and what was left out as sent. *)
THEOREM ClientAlwaysClosed == Spec => []ClientClosed
BY InitWalks, WalkStep, ClosedStep, TypeCorrect, PTL DEF Spec

(* Theorem: nothing but the first file of an answer is sent twice on a stream. *)
THEOREM NothingResent == Spec => []NoResend
BY InitWalks, WalkStep, NoResendStep, TypeCorrect, PTL DEF Spec
=============================================================================
