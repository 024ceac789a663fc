------------------------------ MODULE Reflection ------------------------------
(***************************************************************************)
(* pkg/rpc/reflection/serverreflection.go: the handler of the reflection    *)
(* service, the index of symbols it makes once, and the walk that answers a *)
(* request with a file and the dependencies its stream was not sent yet.    *)
(*                                                                          *)
(* The descriptors linked into the process are the constants: the files     *)
(* that can be found and decoded (Known), what each imports (Deps) and      *)
(* defines (Defines).  A file may import one that is not linked.  Services  *)
(* can be registered while streams are served: GetServiceInfo reads         *)
(* Server.services without the lock RegisterService holds, which the Go     *)
(* runtime may notice and answer by ending the process.                     *)
(***************************************************************************)
EXTENDS Naturals, Sequences

CONSTANTS
  Names, NoFile,  \* names of files, and none
  Known,     \* files proto.FileDescriptor finds and decodeFileDesc decodes
  Deps,      \* per known file: the names it imports, in order
  Symbols, Defines,  \* per known file: the symbols it defines
  Services,  \* services that may be registered
  FileOf,    \* per service: the file its metadata names
  Streams,   \* reflection streams
  MaxRequests  \* bound: requests on all streams

ASSUME ReflectionAssumption ==
  /\ NoFile \notin Names /\ Known \subseteq Names /\ Deps \in [Known -> Seq(Names)]
  /\ Defines \in [Known -> SUBSET Symbols] /\ FileOf \in [Services -> Names]
  /\ MaxRequests \in Nat

Requests ==
  [kind : {"file", "extension"}, name : Names] \cup [kind : {"symbol"}, name : Symbols]
    \cup [kind : {"list", "numbers", "invalid"}, name : {"-"}]

VARIABLES
  services,  \* the keys of Server.services
  crashed,   \* the runtime has ended the process
  once,      \* initSymbols: no, reading (GetServiceInfo), indexing, done
  runner,    \* in it: the services left to read, those left to visit, the files left to process
  serviceNames, processed, symbols,  \* the index; symbols: a symbol's file, or NoFile
  stream,    \* per stream: pc, the request, the walk's current file and dependency
  queue,     \* per stream: queue of fileDescWithDependencies
  response,  \* per stream: r, the files of the answer
  sentFileDescriptors,  \* per stream
  got,       \* history, per stream: the answers its client received
  requests   \* how many requests there were

indexVars == <<once, runner, serviceNames, processed, symbols>>
walkVars == <<queue, response, sentFileDescriptors>>
vars == <<services, crashed, indexVars, stream, walkVars, got, requests>>

Elements(s) == {s[i] : i \in 1..Len(s)}
DepsOf(f) == Elements(Deps[f]) \cap Known

Idle == [pc |-> "recv", req |-> [kind |-> "list", name |-> "-"], file |-> NoFile, dep |-> 0]

Init ==
  /\ services \in SUBSET Services
  /\ crashed = FALSE /\ once = "no" /\ requests = 0
  /\ runner = [left |-> {}, info |-> {}, files |-> {}]
  /\ serviceNames = {} /\ processed = {}
  /\ symbols = [s \in Symbols |-> NoFile]
  /\ stream = [x \in Streams |-> Idle]
  /\ queue = [x \in Streams |-> <<>>]
  /\ response = [x \in Streams |-> <<>>]
  /\ sentFileDescriptors = [x \in Streams |-> {}]
  /\ got = [x \in Streams |-> <<>>]

-----------------------------------------------------------------------------
(* RegisterService, and getSymbols                                          *)

\* A key added during an iteration may be visited or not; the runtime may also
\* find the iteration and the write, and ends the process.
RegisterService(svc) ==
  /\ ~crashed /\ svc \notin services
  /\ services' = services \cup {svc}
  /\ \/ UNCHANGED <<crashed, runner>>
     \/ once = "reading" /\ runner' = [runner EXCEPT !.left = @ \cup {svc}] /\ UNCHANGED crashed
     \/ once = "reading" /\ crashed' = TRUE /\ UNCHANGED runner
  /\ UNCHANGED <<once, serviceNames, processed, symbols, stream, walkVars, got, requests>>

IndexOnly == UNCHANGED <<services, crashed, stream, walkVars, got, requests>>

StartIndex(x) ==
  /\ ~crashed /\ once = "no" /\ stream[x].pc = "symbols"
  /\ once' = "reading"
  /\ runner' = [runner EXCEPT !.left = services]
  /\ IndexOnly /\ UNCHANGED <<serviceNames, processed, symbols>>

GetServiceInfo ==
  /\ ~crashed /\ once = "reading"
  /\ \/ \E svc \in runner.left :
          /\ runner' = [runner EXCEPT !.left = @ \ {svc}, !.info = @ \cup {svc}]
          /\ UNCHANGED once
     \/ runner.left = {} /\ once' = "indexing" /\ UNCHANGED runner
  /\ IndexOnly /\ UNCHANGED <<serviceNames, processed, symbols>>

VisitService(svc) ==
  /\ ~crashed /\ once = "indexing" /\ runner.files = {} /\ svc \in runner.info
  /\ serviceNames' = serviceNames \cup {svc}
  /\ runner' = [runner EXCEPT !.info = @ \ {svc}, !.files = ({FileOf[svc]} \cap Known) \ processed]
  /\ IndexOnly /\ UNCHANGED <<once, processed, symbols>>

\* Mutant: the files a file imports are not processed.
ProcessFileShallow(f) ==
  /\ ~crashed /\ once = "indexing" /\ f \in runner.files
  /\ processed' = processed \cup {f}
  /\ symbols' = [s \in Symbols |-> IF s \in Defines[f] THEN f ELSE symbols[s]]
  /\ runner' = [runner EXCEPT !.files = @ \ {f}]
  /\ IndexOnly /\ UNCHANGED <<once, serviceNames>>

\* processFile: one file and then its dependencies, each file once.
ProcessFile(f) ==
  /\ ~crashed /\ once = "indexing" /\ f \in runner.files
  /\ processed' = processed \cup {f}
  /\ symbols' = [s \in Symbols |-> IF s \in Defines[f] THEN f ELSE symbols[s]]
  /\ runner' = [runner EXCEPT !.files = (@ \cup DepsOf(f)) \ (processed \cup {f})]
  /\ IndexOnly /\ UNCHANGED <<once, serviceNames>>

IndexDone ==
  /\ ~crashed /\ once = "indexing" /\ runner.info = {} /\ runner.files = {}
  /\ once' = "done"
  /\ IndexOnly /\ UNCHANGED <<runner, serviceNames, processed, symbols>>

Index ==
  \/ \E x \in Streams : StartIndex(x)
  \/ GetServiceInfo
  \/ \E svc \in Services : VisitService(svc)
  \/ \E f \in Known : ProcessFile(f)
  \/ IndexDone

-----------------------------------------------------------------------------
(* ServerReflectionInfo                                                     *)

StreamOnly == ~crashed /\ UNCHANGED <<services, crashed, indexVars>>

Recv(x) ==
  /\ stream[x].pc = "recv" /\ requests < MaxRequests
  /\ requests' = requests + 1
  /\ \E q \in Requests :
       stream' = [stream EXCEPT ![x].req = q, ![x].pc =
         CASE q.kind \in {"symbol", "list"}    -> "symbols"
           [] q.kind \in {"file", "extension"} -> "found"
           [] q.kind = "numbers"               -> "send"
           [] q.kind = "invalid"               -> "closed"]
  /\ StreamOnly /\ UNCHANGED <<walkVars, got>>

\* EOF, or an error of Recv or Send.
StreamEnds(x) ==
  /\ stream[x].pc \in {"recv", "send"}
  /\ stream' = [stream EXCEPT ![x].pc = "closed"]
  /\ StreamOnly /\ UNCHANGED <<walkVars, got, requests>>

\* getSymbols returns: the list of services goes out, a symbol is looked up.
GetSymbols(x) ==
  /\ stream[x].pc = "symbols" /\ once = "done"
  /\ stream' = [stream EXCEPT ![x].pc = IF stream[x].req.kind = "list" THEN "send" ELSE "found"]
  /\ StreamOnly /\ UNCHANGED <<walkVars, got, requests>>

\* The file a request asks for: by name, by the index or else the registry of
\* types, or the one that registered the extension.  None is an error response.
Candidates(q) ==
  IF q.kind # "symbol" THEN {q.name} \cap Known
  ELSE IF symbols[q.name] # NoFile THEN {symbols[q.name]}
  ELSE {f \in Known : q.name \in Defines[f]}

FindFile(x) == LET found == Candidates(stream[x].req) IN
  /\ stream[x].pc = "found"
  /\ \/ /\ found = {} /\ stream' = [stream EXCEPT ![x].pc = "send"] /\ UNCHANGED queue
     \/ \E f \in found : /\ queue' = [queue EXCEPT ![x] = <<f>>]
                         /\ stream' = [stream EXCEPT ![x].pc = "walk"]
  /\ StreamOnly /\ UNCHANGED <<response, sentFileDescriptors, got, requests>>

\* Mutant: sentFileDescriptors is not read.
WalkFileAlways(x) == LET f == Head(queue[x]) IN
  /\ stream[x].pc = "walk" /\ queue[x] # <<>>
  /\ queue' = [queue EXCEPT ![x] = Tail(@)]
  /\ stream' = [stream EXCEPT ![x].pc = "deps", ![x].file = f, ![x].dep = 1]
  /\ sentFileDescriptors' = [sentFileDescriptors EXCEPT ![x] = @ \cup {f}]
  /\ response' = [response EXCEPT ![x] = Append(@, f)]
  /\ StreamOnly /\ UNCHANGED <<got, requests>>

\* One file of fileDescWithDependencies: the first is always sent.
WalkFile(x) == LET f == Head(queue[x]) IN
  /\ stream[x].pc = "walk" /\ queue[x] # <<>>
  /\ queue' = [queue EXCEPT ![x] = Tail(@)]
  /\ stream' = [stream EXCEPT ![x].pc = "deps", ![x].file = f, ![x].dep = 1]
  /\ IF response[x] = <<>> \/ f \notin sentFileDescriptors[x]
     THEN /\ sentFileDescriptors' = [sentFileDescriptors EXCEPT ![x] = @ \cup {f}]
          /\ response' = [response EXCEPT ![x] = Append(@, f)]
     ELSE UNCHANGED <<sentFileDescriptors, response>>
  /\ StreamOnly /\ UNCHANGED <<got, requests>>

\* Mutant: an import that cannot be decoded is queued all the same.
WalkDepUnchecked(x) == LET f == stream[x].file i == stream[x].dep IN
  /\ stream[x].pc = "deps" /\ i <= Len(Deps[f])
  /\ stream' = [stream EXCEPT ![x].dep = i + 1]
  /\ queue' = [queue EXCEPT ![x] = Append(@, Deps[f][i])]
  /\ StreamOnly /\ UNCHANGED <<response, sentFileDescriptors, got, requests>>

\* Mutant: an import counts as sent from the moment it is queued.
WalkDepMarks(x) == LET f == stream[x].file i == stream[x].dep IN
  /\ stream[x].pc = "deps" /\ i <= Len(Deps[f])
  /\ stream' = [stream EXCEPT ![x].dep = i + 1]
  /\ queue' = [queue EXCEPT ![x] = IF Deps[f][i] \in Known THEN Append(@, Deps[f][i]) ELSE @]
  /\ sentFileDescriptors' = [sentFileDescriptors EXCEPT ![x] = @ \cup ({Deps[f][i]} \cap Known)]
  /\ StreamOnly /\ UNCHANGED <<response, got, requests>>

\* A dependency that is not linked is skipped.
WalkDep(x) == LET f == stream[x].file i == stream[x].dep IN
  /\ stream[x].pc = "deps" /\ i <= Len(Deps[f])
  /\ stream' = [stream EXCEPT ![x].dep = i + 1]
  /\ queue' = [queue EXCEPT ![x] = IF Deps[f][i] \in Known THEN Append(@, Deps[f][i]) ELSE @]
  /\ StreamOnly /\ UNCHANGED <<response, sentFileDescriptors, got, requests>>

\* Mutant: the loop does not look at the length of the queue.
WalkNextForever(x) ==
  /\ stream[x].pc = "deps" /\ stream[x].dep > Len(Deps[stream[x].file])
  /\ stream' = [stream EXCEPT ![x].pc = "walk"]
  /\ StreamOnly /\ UNCHANGED <<walkVars, got, requests>>

WalkNext(x) ==
  /\ stream[x].pc = "deps" /\ stream[x].dep > Len(Deps[stream[x].file])
  /\ stream' = [stream EXCEPT ![x].pc = IF queue[x] = <<>> THEN "send" ELSE "walk"]
  /\ StreamOnly /\ UNCHANGED <<walkVars, got, requests>>

Send(x) ==
  /\ stream[x].pc = "send"
  /\ got' = [got EXCEPT ![x] = Append(@, response[x])]
  /\ response' = [response EXCEPT ![x] = <<>>]
  /\ stream' = [stream EXCEPT ![x] = Idle]
  /\ StreamOnly /\ UNCHANGED <<queue, sentFileDescriptors, requests>>

Handler(x) == GetSymbols(x) \/ FindFile(x) \/ WalkFile(x) \/ WalkDep(x) \/ WalkNext(x) \/ Send(x)

Next ==
  \/ \E svc \in Services : RegisterService(svc)
  \/ Index
  \/ \E x \in Streams : Recv(x) \/ StreamEnds(x) \/ Handler(x)

Spec == Init /\ [][Next]_vars

\* The handlers' goroutines run; clients send and leave when they want.
FairSpec == Spec /\ WF_vars(Index) /\ \A x \in Streams : WF_vars(Handler(x))

-----------------------------------------------------------------------------
Files(answers) == UNION {Elements(answers[i]) : i \in 1..Len(answers)}
Received(x) == Files(got[x])

StreamState ==
  [pc : {"recv", "symbols", "found", "walk", "deps", "send", "closed"},
   req : Requests, file : Known \cup {NoFile}, dep : Nat]

(* Every variable keeps its type; a walk is at a linked file, and its response
   and its queue hold linked files. *)
TypeOK ==
  /\ services \subseteq Services /\ crashed \in BOOLEAN /\ requests \in 0..MaxRequests
  /\ once \in {"no", "reading", "indexing", "done"}
  /\ runner \in [left : SUBSET Services, info : SUBSET Services, files : SUBSET Known]
  /\ serviceNames \subseteq Services /\ processed \subseteq Known
  /\ symbols \in [Symbols -> Known \cup {NoFile}]
  /\ stream \in [Streams -> StreamState]
  /\ \A x \in Streams : stream[x].pc = "deps" => stream[x].file \in Known
  /\ queue \in [Streams -> Seq(Known)]
  /\ response \in [Streams -> Seq(Known)]
  /\ sentFileDescriptors \in [Streams -> SUBSET Known]
  /\ got \in [Streams -> Seq(Seq(Known))]

(* Once made, the index has every service it was made for, the file of each, all
   files these import and every symbol they define, and no symbol it could not
   send a file for; services that are registered while it is made may be missing,
   and later ones are. *)
IndexComplete ==
  once = "done" =>
    /\ \A svc \in serviceNames : FileOf[svc] \in Known => FileOf[svc] \in processed
    /\ \A f \in processed : DepsOf(f) \subseteq processed
    /\ \A s \in Symbols :
         IF \E f \in processed : s \in Defines[f]
         THEN symbols[s] \in processed /\ s \in Defines[symbols[s]]
         ELSE symbols[s] = NoFile

(* The comment of fileDescWithDependencies: after each answer the client holds
   every linked file that is imported, however indirectly, by a file it holds,
   although what was sent before on the stream is left out of an answer. *)
ClientClosed ==
  \A x \in Streams : \A f \in Received(x) : DepsOf(f) \subseteq Received(x)

(* Only the first file of an answer is ever sent twice on a stream. *)
NoResend ==
  \A x \in Streams : \A i \in 1..Len(got[x]) : \A j \in 2..Len(got[x][i]) :
    /\ \A k \in 1..(j - 1) : got[x][i][k] # got[x][i][j]
    /\ \A h \in 1..(i - 1) : got[x][i][j] \notin Elements(got[x][h])

(* A request is answered or its stream ends, for every linked graph without a
   cycle and while other streams make or wait for the index; only the race of
   GetServiceInfo with RegisterService can prevent it, by ending the process. *)
RequestsAnswered ==
  \A x \in Streams :
    stream[x].pc \notin {"recv", "closed"} ~> (stream[x].pc \in {"recv", "closed"} \/ crashed)
=============================================================================
