--------------------------- MODULE HttpServerProofs ---------------------------
(***************************************************************************)
(* Theorems about HttpServer, for any pool, clients, callers of stop() and *)
(* limits: who owns each descriptor, that nobody is accepted once stop()   *)
(* has returned, and that no client's socket is closed without an answer.  *)
(*                                                                         *)
(* And about what is served to a browser.  StaticFiles, for any file that  *)
(* is being replaced and any requests for it: what 304, 206 and 416 say is *)
(* so.  Livewire, for any tree of components: no loading indicator stays.  *)
(***************************************************************************)
EXTENDS HttpServer, StaticFiles, Livewire, FiniteSetTheorems, TLAPS

(* The listening socket: published or in the hands of one stop() while it  *)
(* is open, from the moment serve() published it.                          *)
SocketInv ==
  /\ closes = IF listener = "closed" THEN 1 ELSE 0
  /\ main = "start" => listener = "none"
  /\ main \in {"listening", "running"} => listener = "open"
  /\ listener = "none" => main \in {"start", "returned"}
  /\ server_fd_ => main \in {"published", "pool", "joined"} /\ listener = "open"
  /\ \A s \in Stopper : stopper[s] = "took" =>
       /\ ~server_fd_ /\ listener = "open"
       /\ main \in {"published", "pool", "joined", "returned"}
       /\ \A r \in Stopper : stopper[r] = "took" => r = s
  /\ main \in {"published", "pool", "joined", "returned"} /\ listener = "open" =>
       server_fd_ \/ \E s \in Stopper : stopper[s] = "took"

(* serve() before it spawns the pool, and handle_client(). *)
Early == {"start", "listening", "running", "published"}
Handling == {"read", "dispatch", "ws", "send", "close"}

(* A worker inside handle_client() has one client's socket, no two workers *)
(* the same, and no socket is open without its worker.                     *)
OwnInv ==
  /\ \A w \in Worker : pc[w] \in Handling =>
       serving[w] \in Client /\ conn[serving[w]] \in {"open", "reset"}
  /\ \A w \in Worker : pc[w] \notin Handling => serving[w] = None
  /\ \A v, w \in Worker : serving[v] = serving[w] /\ serving[v] # None => v = w
  /\ \A c \in Client : conn[c] \in {"open", "reset"} => \E w \in Worker : serving[w] = c
  /\ main \in Early => \A w \in Worker : pc[w] = "none"

(* What a worker that is about to close knows. *)
AnswerInv ==
  \A w \in Worker :
    /\ pc[w] = "send" => answer[w] \in Status
    /\ pc[w] = "close" /\ conn[serving[w]] = "open" => reply[serving[w]] # None

(* stop() clears running_ for good, and a stop() that returned while the   *)
(* socket was not yet published leaves no worker to accept from it.        *)
StopInv ==
  /\ main \in {"start", "listening"} => \A s \in Stopper : stopper[s] = "ready"
  /\ (\E s \in Stopper : stopper[s] # "ready") => ~running_
  /\ server_fd_ /\ (\E s \in Stopper : stopper[s] = "stopped") =>
       \A w \in Worker : pc[w] # "accept"

ServerInv == SocketInv /\ (alive => OwnInv /\ AnswerInv)
-----------------------------------------------------------------------------
(* The parts of TypeOK. *)
SockTypeOK ==
  /\ main \in {"start", "listening", "running", "published", "pool", "joined",
               "returned"}
  /\ listener \in {"none", "open", "closed"}
  /\ stopper \in [Stopper -> {"ready", "flagged", "took", "stopped"}]

(* The sockets are part of the types. *)
LEMMA TypeParts == TypeOK => SockTypeOK
BY DEF TypeOK, SockTypeOK

(* What serve() and stop() may do to the listening socket, and that the    *)
(* workers and the peers leave it alone.                                   *)
LEMMA SocketStep ==
  ASSUME SockTypeOK, SocketInv, [Next]_vars
  PROVE  SocketInv'
<1> USE DEF SockTypeOK, SocketInv
<1>1. ASSUME UNCHANGED <<main, server_fd_, listener, closes, stopper>> PROVE SocketInv'
  BY <1>1
<1>2. CASE Listen
  BY <1>2 DEF Listen, Serve
<1>3. CASE SetupFails
  BY <1>3 DEF SetupFails, Serve, socket
<1>4. CASE SetRunning
  BY <1>4 DEF SetRunning, Serve, socket
<1>5. CASE Publish
  BY <1>5 DEF Publish, Serve, socket
<1>6. CASE SpawnPool \/ JoinPool
  BY <1>6 DEF SpawnPool, JoinPool, Serve, socket
<1>7. CASE FinalClose
  <2>1. CASE server_fd_
    BY <1>7, <2>1 DEF FinalClose, CloseListener
  <2>2. CASE ~server_fd_
    BY <1>7, <2>2 DEF FinalClose
  <2>. QED  BY <2>1, <2>2
<1>8. ASSUME NEW s \in Stopper, StopFlag(s) PROVE SocketInv'
  BY <1>8 DEF StopFlag, socket
<1>9. ASSUME NEW s \in Stopper, StopTake(s) PROVE SocketInv'
  <2>1. CASE server_fd_
    BY <1>9, <2>1 DEF StopTake
  <2>2. CASE ~server_fd_
    BY <1>9, <2>2 DEF StopTake
  <2>. QED  BY <2>1, <2>2
<1>10. ASSUME NEW s \in Stopper, StopClose(s) PROVE SocketInv'
  BY <1>10 DEF StopClose, CloseListener
<1>11. CASE Tick \/ \E c \in Client : Connect(c) \/ PeerResets(c)
  BY <1>1, <1>11 DEF Tick, Connect, PeerResets, socket
<1>12. ASSUME NEW w \in Worker, Loop(w) \/ Recv(w) \/ Handle(w) \/ WsHandlerThrows(w)
       PROVE  SocketInv'
  <2>1. \E from, to : At(w, from, to)
    BY <1>12 DEF Loop, Check, Accept, AcceptFails, Recv, RecvHeader, RecvBlankLine, RecvBody,
                 RecvEnds, Refuse, ReadReturns, ReadOk, KeepReading, Handle, Dispatch, Upgrade,
                 WsReturns, Send, SendSignals, Close, WsHandlerThrows
  <2>. QED  BY <1>1, <2>1 DEF At, socket
<1>13. CASE UNCHANGED vars
  BY <1>1, <1>13 DEF vars
<1>. QED
  BY <1>2, <1>3, <1>4, <1>5, <1>6, <1>7, <1>8, <1>9, <1>10, <1>11, <1>12, <1>13
  DEF Next, ServeStep, StopStep

(* What a round of read_request() leaves behind. *)
LEMMA RecvType ==
  ASSUME TypeOK, NEW w \in Worker, Recv(w)
  PROVE  TypeOK'
<1> USE ServerAssumption DEF TypeOK
<1>1. ASSUME NEW to \in {"dispatch", "send", "close"}, ReadReturns(w, to),
             answer' \in [Worker -> Status \union {None}],
             reply' \in [Client -> Status \union {None, "ws", "timeout", "refused"}]
      PROVE  TypeOK'
  BY <1>1 DEF ReadReturns, At, socket
<1>2. ASSUME NEW status \in Status, Refuse(w, status) PROVE TypeOK'
  <2>1. answer' \in [Worker -> Status \union {None}] /\ reply' = reply
    BY <1>2 DEF Refuse
  <2>. QED  BY <1>1, <1>2, <2>1 DEF Refuse
<1>3. ASSUME ReadOk(w) PROVE TypeOK'
  BY <1>1, <1>3 DEF ReadOk
<1>4. ASSUME NEW h \in 0..MaxHeader, NEW n \in -1..MaxBody, KeepReading(w, h, n) PROVE TypeOK'
  BY <1>4 DEF KeepReading, At, socket
<1>5. CASE RecvHeader(w)
  BY <1>2, <1>4, <1>5 DEF RecvHeader, Status
<1>6. CASE RecvBlankLine(w)
  <2>1. PICK more \in 0..1, chunked \in BOOLEAN, length \in 0..(MaxBody + 1) :
        \E here \in 0..length :
          \/ Refuse(w, "431") \/ Refuse(w, "411") \/ Refuse(w, "413")
          \/ /\ head[w] + more <= MaxHeader /\ length <= MaxBody
             /\ IF here = length THEN ReadOk(w) ELSE KeepReading(w, head[w] + more, length - here)
    BY <1>6 DEF RecvBlankLine
  <2>. QED  BY <1>2, <1>3, <1>4, <2>1 DEF Status
<1>7. CASE RecvBody(w)
  BY <1>3, <1>4, <1>7 DEF RecvBody
<1>8. CASE RecvEnds(w)
  BY <1>1, <1>8 DEF RecvEnds
<1>. QED  BY <1>5, <1>6, <1>7, <1>8 DEF Recv

(* Every step keeps the types. *)
LEMMA TypeStep ==
  ASSUME TypeOK, SocketInv, [Next]_vars
  PROVE  TypeOK'
<1> USE ServerAssumption DEF TypeOK
<1>1. CASE Listen \/ SetupFails \/ SetRunning \/ Publish \/ SpawnPool \/ JoinPool
  <2>1. running_' \in BOOLEAN /\ server_fd_' \in BOOLEAN
    BY <1>1, Zenon DEF Listen, SetupFails, SetRunning, Publish, SpawnPool, JoinPool, Serve, socket
  <2>2. listener' \in {"none", "open", "closed"} /\ closes' = closes
    BY <1>1 DEF Listen, SetupFails, SetRunning, Publish, SpawnPool, JoinPool, Serve, socket
  <2>3. pc' \in [Worker -> {"none", "check", "accept", "read", "dispatch", "ws", "send",
                            "close", "done"}] /\ conn' = conn
    BY <1>1 DEF Listen, SetupFails, SetRunning, Publish, SpawnPool, JoinPool, Serve, socket
  <2>4. \E from, to : Serve(from, to) /\ main' \in {"listening", "returned", "running", "published",
                                                     "pool", "joined"}
    BY <1>1 DEF Listen, SetupFails, SetRunning, Publish, SpawnPool, JoinPool, Serve
  <2>. QED  BY <2>1, <2>2, <2>3, <2>4 DEF Serve, local
<1>2. CASE FinalClose
  <2>1. server_fd_' \in BOOLEAN
    BY <1>2, Zenon DEF FinalClose
  <2>2. /\ conn' \in [Client -> {"new", "queued", "open", "reset", "closed"}]
        /\ listener' \in {"none", "open", "closed"} /\ closes' \in 0..2
    BY <1>2 DEF FinalClose, CloseListener, SocketInv
  <2>3. reply' \in [Client -> Status \union {None, "ws", "timeout", "refused"}]
    BY <1>2 DEF FinalClose
  <2>. QED  BY <1>2, <2>1, <2>2, <2>3 DEF FinalClose, local
<1>3. ASSUME NEW s \in Stopper, StopFlag(s) PROVE TypeOK'
  BY <1>3 DEF StopFlag, socket, local
<1>4. ASSUME NEW s \in Stopper, StopTake(s) PROVE TypeOK'
  BY <1>4 DEF StopTake, local
<1>5. ASSUME NEW s \in Stopper, StopClose(s) PROVE TypeOK'
  BY <1>5 DEF StopClose, CloseListener, SocketInv, local
<1>6. ASSUME NEW c \in Client, Connect(c) \/ PeerResets(c) PROVE TypeOK'
  BY <1>6 DEF Connect, PeerResets, socket, local
<1>7. CASE Tick
  BY <1>7 DEF Tick, socket, local
<1>8. ASSUME NEW w \in Worker, Check(w) \/ AcceptFails(w) PROVE TypeOK'
  BY <1>8 DEF Check, AcceptFails, At, socket, local
<1>9. ASSUME NEW w \in Worker, NEW c \in Client, Accept(w, c) PROVE TypeOK'
  BY <1>9 DEF Accept, At, socket
<1>10. ASSUME NEW w \in Worker, Dispatch(w) PROVE TypeOK'
  BY <1>10 DEF Dispatch, ParsedOr400, Status, At, socket
<1>11. ASSUME NEW w \in Worker, Upgrade(w) PROVE TypeOK'
  BY <1>11 DEF Upgrade, At, socket, local
<1>12. ASSUME NEW w \in Worker, WsReturns(w) \/ Close(w) PROVE TypeOK'
  BY <1>12 DEF WsReturns, Close, CloseClient, At, socket
<1>13. ASSUME NEW w \in Worker, Send(w) PROVE TypeOK'
  BY <1>13 DEF Send, CloseClient, At, socket
<1>14. ASSUME NEW w \in Worker, SendSignals(w) \/ WsHandlerThrows(w) PROVE TypeOK'
  BY <1>14 DEF SendSignals, WsHandlerThrows, At, socket, local
<1>15. CASE UNCHANGED vars
  BY <1>15 DEF vars
<1>. QED
  BY <1>1, <1>2, <1>3, <1>4, <1>5, <1>6, <1>7, <1>8, <1>9, <1>10, <1>11, <1>12, <1>13,
     <1>14, <1>15, RecvType
  DEF Next, ServeStep, StopStep, Loop, Handle

(***************************************************************************)
(* Every state has the type of the code's variables, and the listening     *)
(* socket is published, in one stop()'s hands, or closed, once.            *)
(***************************************************************************)
THEOREM ServerTypeCorrect == Spec => [](TypeOK /\ SocketInv)
<1>1. Init => TypeOK
  <2> SUFFICES ASSUME Init PROVE TypeOK
    OBVIOUS
  <2>1. running_ \in BOOLEAN /\ server_fd_ \in BOOLEAN /\ alive \in BOOLEAN
    BY Zenon DEF Init
  <2>2. /\ head \in [Worker -> 0..MaxHeader] /\ need \in [Worker -> -1..MaxBody]
        /\ quiet \in [Worker -> 0..ReadTimeout]
    BY ServerAssumption DEF Init
  <2>. QED  BY <2>1, <2>2 DEF Init, TypeOK
<1>2. Init => SocketInv
  BY DEF Init, SocketInv
<1>3. TypeOK /\ SocketInv /\ [Next]_vars => (TypeOK /\ SocketInv)'
  BY TypeParts, SocketStep, TypeStep
<1>. QED  BY <1>1, <1>2, <1>3, PTL DEF Spec

-----------------------------------------------------------------------------
(* The clients' sockets.                                                   *)

(* Each round of read_request() ends with a status to send, a request to   *)
(* dispatch, a socket to close, or another round.                          *)
LEMMA RecvCases ==
  ASSUME NEW w \in Worker, Recv(w)
  PROVE  \/ \E status \in Status : Refuse(w, status)
         \/ ReadOk(w)
         \/ \E h, n : KeepReading(w, h, n)
         \/ RecvEnds(w)
<1>1. CASE RecvHeader(w)
  BY <1>1 DEF RecvHeader, Status
<1>2. CASE RecvBlankLine(w)
  BY <1>2 DEF RecvBlankLine, Status
<1>3. CASE RecvBody(w)
  BY <1>3 DEF RecvBody
<1>. QED  BY <1>1, <1>2, <1>3 DEF Recv

(* Every step keeps one owner per descriptor. *)
LEMMA OwnStep ==
  ASSUME TypeOK, OwnInv, [Next]_vars, alive'
  PROVE  OwnInv'
<1> USE NoneAssumption DEF TypeOK, Handling, OwnInv
<1>0. \A w \in Worker : pc[w] # "none" => main \notin Early
  OBVIOUS
(* A worker that stays inside handle_client() keeps its client. *)
<1>1. ASSUME NEW w \in Worker, NEW from \in Handling, NEW to \in Handling, At(w, from, to),
             UNCHANGED <<serving, conn>>
      PROVE  OwnInv'
  BY <1>1 DEF At
<1>2. ASSUME NEW w \in Worker, NEW from \in Handling, At(w, from, "check"), CloseClient(w)
      PROVE  OwnInv'
  BY <1>2 DEF At, CloseClient
<1>3. ASSUME UNCHANGED <<serving, pc>>, main' \in Early => main \in Early,
             \A c \in Client : conn'[c] \in {"open", "reset"} <=> conn[c] \in {"open", "reset"}
      PROVE  OwnInv'
  BY <1>3
<1>4. CASE Listen \/ SetupFails \/ SetRunning \/ Publish \/ JoinPool
  BY <1>3, <1>4 DEF Listen, SetupFails, SetRunning, Publish, JoinPool, Serve, local, Early
<1>5. CASE SpawnPool
  BY <1>5 DEF SpawnPool, Serve, local, Early
<1>6. ASSUME CloseListener \/ conn' = conn
      PROVE  \A c \in Client : conn'[c] \in {"open", "reset"} <=> conn[c] \in {"open", "reset"}
  BY <1>6 DEF CloseListener
<1>7. CASE FinalClose
  BY <1>3, <1>6, <1>7 DEF FinalClose, local, Early
<1>8. ASSUME NEW s \in Stopper, StopFlag(s) \/ StopTake(s) \/ StopClose(s) PROVE OwnInv'
  BY <1>3, <1>6, <1>8 DEF StopFlag, StopTake, StopClose, local, Early
<1>9. ASSUME NEW c \in Client, Connect(c) PROVE OwnInv'
  BY <1>3, <1>9 DEF Connect, local
<1>10. ASSUME NEW c \in Client, PeerResets(c) PROVE OwnInv'
  BY <1>3, <1>10 DEF PeerResets, local
<1>11. CASE Tick \/ UNCHANGED vars
  <2>1. UNCHANGED <<main, serving, pc, conn>>
    BY <1>11 DEF Tick, vars, local
  <2>. QED  BY <1>3, <2>1
<1>12. ASSUME NEW w \in Worker, Check(w) \/ AcceptFails(w) PROVE OwnInv'
  <2>1. \E to \in {"check", "accept", "done"} : pc' = [pc EXCEPT ![w] = to]
    BY <1>12 DEF Check, AcceptFails, At
  <2>2. UNCHANGED <<main, serving, conn>> /\ pc[w] \in {"check", "accept"}
    BY <1>12 DEF Check, AcceptFails, At, local
  <2>. QED  BY <1>0, <2>1, <2>2
<1>13. ASSUME NEW w \in Worker, NEW c \in Client, Accept(w, c) PROVE OwnInv'
  BY <1>13 DEF Accept, At
<1>14. ASSUME NEW w \in Worker, Recv(w) PROVE OwnInv'
  BY <1>1, <1>14, RecvCases DEF Refuse, ReadOk, KeepReading, RecvEnds, ReadReturns
<1>15. ASSUME NEW w \in Worker, Dispatch(w) \/ Upgrade(w) PROVE OwnInv'
  BY <1>1, <1>15 DEF Dispatch, Upgrade, local
<1>16. ASSUME NEW w \in Worker, WsReturns(w) \/ Send(w) \/ Close(w) PROVE OwnInv'
  BY <1>2, <1>16 DEF WsReturns, Send, Close
<1>17. ASSUME NEW w \in Worker, SendSignals(w) \/ WsHandlerThrows(w) PROVE OwnInv'
  BY <1>17 DEF SendSignals, WsHandlerThrows
<1>. QED
  BY <1>4, <1>5, <1>7, <1>8, <1>9, <1>10, <1>11, <1>12, <1>13, <1>14, <1>15, <1>16, <1>17
  DEF Next, ServeStep, StopStep, Loop, Handle

(* Every step keeps what a client has been told. *)
LEMMA AnswerStep ==
  ASSUME TypeOK, OwnInv, AnswerInv, [Next]_vars, alive'
  PROVE  AnswerInv'
<1> USE NoneAssumption DEF AnswerInv
<1>a. \A v, w \in Worker : pc[w] \in Handling /\ serving[v] = serving[w] => v = w
  BY NoneAssumption DEF OwnInv
<1>1. ASSUME UNCHANGED <<answer, serving>>,
             \A w \in Worker : pc'[w] \in {"send", "close"} => pc'[w] = pc[w],
             \A w \in Worker : pc[w] = "close" =>
               /\ conn'[serving[w]] = "open" => conn[serving[w]] = "open"
               /\ reply'[serving[w]] = reply[serving[w]]
      PROVE  AnswerInv'
  BY <1>1
<1>b. \A w \in Worker : pc[w] = "close" => serving[w] \in Client /\ conn[serving[w]] # "queued"
  BY DEF OwnInv, Handling
<1>2. CASE ServeStep
  <2>1. CASE FinalClose
    <3>1. UNCHANGED <<answer, serving, pc>>
      BY <2>1 DEF FinalClose, local
    <3>2. \A c \in Client : conn[c] # "queued" => conn'[c] = conn[c] /\ reply'[c] = reply[c]
      BY <2>1 DEF FinalClose, CloseListener
    <3>. QED  BY <1>1, <1>b, <3>1, <3>2
  <2>2. CASE SpawnPool
    BY <1>1, <2>2 DEF SpawnPool, Serve, local
  <2>3. CASE Listen \/ SetupFails \/ SetRunning \/ Publish \/ JoinPool
    BY <1>1, <2>3 DEF Listen, SetupFails, SetRunning, Publish, JoinPool, Serve, local
  <2>. QED  BY <1>2, <2>1, <2>2, <2>3 DEF ServeStep
<1>3. ASSUME NEW s \in Stopper, StopFlag(s) \/ StopTake(s) PROVE AnswerInv'
  BY <1>1, <1>3 DEF StopFlag, StopTake, local
<1>4. ASSUME NEW s \in Stopper, StopClose(s) PROVE AnswerInv'
  <2>1. UNCHANGED <<answer, serving, pc>>
    BY <1>4 DEF StopClose, local
  <2>2. \A c \in Client : conn[c] # "queued" => conn'[c] = conn[c] /\ reply'[c] = reply[c]
    BY <1>4 DEF StopClose, CloseListener
  <2>. QED  BY <1>1, <1>b, <2>1, <2>2
<1>5. ASSUME NEW c \in Client, Connect(c) \/ PeerResets(c) PROVE AnswerInv'
  <2>1. UNCHANGED <<answer, serving, pc, reply>>
    BY <1>5 DEF Connect, PeerResets, local
  <2>2. \A d \in Client : conn'[d] = "open" => conn[d] = "open"
    BY <1>5 DEF Connect, PeerResets, TypeOK
  <2>. QED  BY <1>1, <1>b, <2>1, <2>2
<1>6. CASE Tick \/ UNCHANGED vars
  <2>1. UNCHANGED <<answer, serving, pc, conn, reply>>
    BY <1>6 DEF Tick, vars, local
  <2>. QED  BY <1>1, <2>1
<1>7. ASSUME NEW w \in Worker, Check(w) \/ AcceptFails(w) \/ Upgrade(w) PROVE AnswerInv'
  <2>1. PICK to \in {"check", "accept", "done", "ws"} : pc' = [pc EXCEPT ![w] = to]
    BY <1>7 DEF Check, AcceptFails, Upgrade, At
  <2>2. UNCHANGED <<answer, serving, conn>>
    BY <1>7 DEF Check, AcceptFails, Upgrade, At, local
  <2>3. \A v \in Worker : pc[v] = "close" => reply'[serving[v]] = reply[serving[v]]
    <3>1. CASE Upgrade(w)
      <4>1. pc[w] = "dispatch" /\ reply' = [reply EXCEPT ![serving[w]] = "ws"]
        BY <3>1 DEF Upgrade, At
      <4>. QED  BY <1>a, <1>b, <4>1 DEF TypeOK, Handling
    <3>2. CASE Check(w) \/ AcceptFails(w)
      BY <3>2 DEF Check, AcceptFails
    <3>. QED  BY <1>7, <3>1, <3>2
  <2>. QED  BY <1>1, <2>1, <2>2, <2>3 DEF TypeOK
<1>8. ASSUME NEW w \in Worker, NEW c \in Client, Accept(w, c) PROVE AnswerInv'
  <2>1. /\ pc' = [pc EXCEPT ![w] = "read"] /\ pc[w] = "accept"
        /\ serving' = [serving EXCEPT ![w] = c] /\ conn[c] = "queued"
        /\ conn' = [conn EXCEPT ![c] = "open"] /\ UNCHANGED <<answer, reply>>
    BY <1>8 DEF Accept, At
  <2>2. \A v \in Worker : pc'[v] \in {"send", "close"} =>
          /\ v # w /\ pc'[v] = pc[v] /\ serving'[v] = serving[v] /\ serving[v] \in Client
          /\ conn[serving[v]] # "queued"
    BY <2>1 DEF TypeOK, OwnInv, Handling
  <2>3. \A v \in Worker : pc'[v] \in {"send", "close"} => conn'[serving[v]] = conn[serving[v]]
    BY <2>1, <2>2 DEF TypeOK
  <2>. QED  BY <2>1, <2>2, <2>3
<1>9. ASSUME NEW w \in Worker, Recv(w) PROVE AnswerInv'
  <2>1. CASE \E status \in Status : Refuse(w, status)
    BY <2>1 DEF Refuse, ReadReturns, At, TypeOK
  <2>2. CASE ReadOk(w) \/ \E h, n : KeepReading(w, h, n)
    <3>1. PICK to \in {"dispatch", "read"} : pc' = [pc EXCEPT ![w] = to]
      BY <2>2 DEF ReadOk, KeepReading, ReadReturns, At
    <3>2. UNCHANGED <<answer, serving, conn, reply>>
      BY <2>2 DEF ReadOk, KeepReading, ReadReturns
    <3>. QED  BY <1>1, <3>1, <3>2 DEF TypeOK
  <2>3. CASE RecvEnds(w)
    <3>1. /\ pc' = [pc EXCEPT ![w] = "close"] /\ pc[w] = "read"
          /\ UNCHANGED <<serving, conn, answer>>
          /\ reply' = [reply EXCEPT ![serving[w]] =
                         IF conn[serving[w]] = "reset" THEN @ ELSE "timeout"]
      BY <2>3 DEF RecvEnds, ReadReturns, At
    <3>2. serving[w] \in Client
      BY <3>1 DEF OwnInv, Handling
    <3>3. conn[serving[w]] = "open" => reply'[serving[w]] # None
      BY <3>1, <3>2 DEF TypeOK
    <3>4. \A v \in Worker \ {w} : pc[v] \in Handling => reply'[serving[v]] = reply[serving[v]]
      BY <1>a, <3>1, <3>2 DEF TypeOK, Handling, OwnInv
    <3>5. pc'[w] = "close" /\ \A v \in Worker \ {w} : pc'[v] = pc[v]
      BY <3>1 DEF TypeOK
    <3>. QED  BY <3>1, <3>3, <3>4, <3>5 DEF Handling
  <2>. QED  BY <1>9, <2>1, <2>2, <2>3, RecvCases
<1>10. ASSUME NEW w \in Worker, Dispatch(w) PROVE AnswerInv'
  BY <1>10 DEF Dispatch, At, ParsedOr400, Status, TypeOK
<1>11. ASSUME NEW w \in Worker, WsReturns(w) \/ Send(w) \/ Close(w) PROVE AnswerInv'
  <2>1. /\ pc[w] \in Handling /\ pc' = [pc EXCEPT ![w] = "check"] /\ CloseClient(w)
        /\ reply' = reply \/ \E x : reply' = [reply EXCEPT ![serving[w]] = x]
    BY <1>11 DEF WsReturns, Send, Close, At, Handling
  <2>2. pc'[w] = "check" /\ \A v \in Worker \ {w} : pc'[v] = pc[v]
    BY <2>1 DEF TypeOK
  <2>3. \A v \in Worker \ {w} : serving'[v] = serving[v] /\ answer'[v] = answer[v]
    BY <2>1 DEF CloseClient, TypeOK
  <2>4. \A c \in Client : c # serving[w] => conn'[c] = conn[c] /\ reply'[c] = reply[c]
    BY <2>1 DEF CloseClient, TypeOK
  <2>5. \A v \in Worker \ {w} : serving[v] # serving[w]
    BY <1>a, <2>1
  <2>6. \A v \in Worker \ {w} : pc[v] = "close" => /\ conn'[serving[v]] = conn[serving[v]]
                                                   /\ reply'[serving[v]] = reply[serving[v]]
    BY <1>b, <2>4, <2>5
  <2>. QED  BY <2>2, <2>3, <2>6
<1>12. ASSUME NEW w \in Worker, SendSignals(w) \/ WsHandlerThrows(w) PROVE AnswerInv'
  BY <1>12 DEF SendSignals, WsHandlerThrows
<1>. QED
  BY <1>2, <1>3, <1>4, <1>5, <1>6, <1>7, <1>8, <1>9, <1>10, <1>11, <1>12
  DEF Next, StopStep, Loop, Handle

(* No descriptor leaks or is closed twice: the ownership of the clients'   *)
(* and of the listening socket as the run checks it.                       *)
LEMMA OwnedOnce ==
  ASSUME TypeOK, SocketInv, alive => OwnInv
  PROVE  DescriptorsOwned
<1>1. closes <= 1
  BY DEF SocketInv
<1>2. ASSUME main = "returned", listener # "none",
             \A s \in Stopper : stopper[s] \in {"ready", "stopped"}
      PROVE  closes = 1
  BY <1>2 DEF SocketInv, TypeOK
<1>3. ASSUME alive, NEW c \in Client
      PROVE  conn[c] \in {"open", "reset"} <=>
               Cardinality({w \in Worker : serving[w] = c /\ pc[w] # "done"}) = 1
  <2> DEFINE S == {w \in Worker : serving[w] = c /\ pc[w] # "done"}
  <2>1. S = {w \in Worker : serving[w] = c}
    BY <1>3, NoneAssumption DEF OwnInv, Handling
  <2>2. CASE conn[c] \in {"open", "reset"}
    <3>1. PICK w \in Worker : serving[w] = c
      BY <1>3, <2>2 DEF OwnInv
    <3>2. S = {w}
      BY <1>3, <2>1, <3>1, NoneAssumption DEF OwnInv
    <3>. QED  BY <2>2, <3>2, FS_Singleton
  <2>3. CASE conn[c] \notin {"open", "reset"}
    <3>1. S = {}
      BY <1>3, <2>1, <2>3, NoneAssumption DEF OwnInv
    <3>. QED  BY <2>3, <3>1, FS_EmptySet
  <2>. QED  BY <2>2, <2>3
<1>. QED  BY <1>1, <1>2, <1>3 DEF DescriptorsOwned

(* The types and the inductive invariant hold together. *)
LEMMA ServerInvHolds == Spec => [](TypeOK /\ ServerInv)
<1>1. Init => OwnInv /\ AnswerInv
  BY DEF Init, OwnInv, AnswerInv, Handling, Early
<1>2. TypeOK /\ (alive => OwnInv /\ AnswerInv) /\ [Next]_vars => (alive => OwnInv /\ AnswerInv)'
  <2> SUFFICES ASSUME TypeOK, alive => OwnInv /\ AnswerInv, [Next]_vars, alive'
               PROVE  (OwnInv /\ AnswerInv)'
    OBVIOUS
  <2>1. alive
    BY DEF Next, vars
  <2>. QED  BY <2>1, OwnStep, AnswerStep
<1>. QED  BY <1>1, <1>2, ServerTypeCorrect, PTL DEF Spec, ServerInv

(***************************************************************************)
(* No descriptor leaks and none is closed twice: whatever the request,     *)
(* the limits, the WebSocket endpoint or the peer do, a client's socket is *)
(* open exactly while one worker is handling that client; and however many *)
(* threads race in stop(), the listening socket is closed once.            *)
(***************************************************************************)
THEOREM DescriptorsAreOwned == Spec => []DescriptorsOwned
<1>1. TypeOK /\ ServerInv => DescriptorsOwned
  BY OwnedOnce DEF ServerInv
<1>. QED  BY <1>1, ServerInvHolds, PTL

(***************************************************************************)
(* A client that stays connected is told how its request ended before its  *)
(* socket is closed, whichever of serve(), stop() or a worker closes it.   *)
(***************************************************************************)
THEOREM ClientsAreAnswered == Spec => EveryClientAnswered
<1> DEFINE Answered == \A c \in Client :
             conn[c] \in {"queued", "open"} /\ conn'[c] = "closed" => reply'[c] # None
<1>1. TypeOK /\ ServerInv /\ [Next]_vars => Answered
  <2> SUFFICES ASSUME TypeOK, ServerInv, [Next]_vars,
                      NEW c \in Client, conn[c] \in {"queued", "open"}, conn'[c] = "closed"
               PROVE  reply'[c] # None
    OBVIOUS
  <2> USE NoneAssumption DEF TypeOK
  <2>0. conn' # conn
    OBVIOUS
  <2>a. alive => OwnInv /\ AnswerInv
    BY DEF ServerInv
  <2>1. CASE FinalClose \/ \E s \in Stopper : StopClose(s)
    BY <2>0, <2>1 DEF FinalClose, StopClose
  <2>2. CASE \E d \in Client : Connect(d) \/ PeerResets(d)
    BY <2>2 DEF Connect, PeerResets
  <2>3. CASE \E w \in Worker, d \in Client : Accept(w, d)
    BY <2>3 DEF Accept
  <2>4. ASSUME NEW w \in Worker, alive, WsReturns(w) \/ Send(w) \/ Close(w) PROVE reply'[c] # None
    <3>1. conn' = [conn EXCEPT ![serving[w]] = "closed"] /\ pc[w] \in Handling
      BY <2>4 DEF WsReturns, Send, Close, CloseClient, At, Handling
    <3>2. c = serving[w] /\ conn[c] = "open"
      BY <2>a, <2>4, <3>1 DEF OwnInv
    <3>3. CASE WsReturns(w)
      BY <3>2, <3>3 DEF WsReturns
    <3>4. CASE Send(w)
      <4>1. answer[w] \in Status /\ reply' = [reply EXCEPT ![c] = answer[w]]
        BY <2>a, <2>4, <3>2, <3>4 DEF Send, At, AnswerInv
      <4>. QED  BY <4>1
    <3>5. CASE Close(w)
      BY <2>a, <2>4, <3>2, <3>5 DEF Close, At, AnswerInv
    <3>. QED  BY <2>4, <3>3, <3>4, <3>5
  <2>5. CASE Listen \/ SetupFails \/ SetRunning \/ Publish \/ SpawnPool \/ JoinPool \/ Tick
             \/ \E s \in Stopper : StopFlag(s) \/ StopTake(s)
    BY <2>0, <2>5 DEF Listen, SetupFails, SetRunning, Publish, SpawnPool, JoinPool, Tick,
                      StopFlag, StopTake
  <2>6. ASSUME NEW w \in Worker,
               Check(w) \/ AcceptFails(w) \/ Recv(w) \/ Dispatch(w) \/ Upgrade(w)
               \/ SendSignals(w) \/ WsHandlerThrows(w)
        PROVE  FALSE
    <3>1. CASE Recv(w)
      BY <2>0, <3>1, RecvCases DEF Refuse, ReadOk, KeepReading, RecvEnds, ReadReturns
    <3>2. CASE ~Recv(w)
      BY <2>0, <2>6, <3>2 DEF Check, AcceptFails, Dispatch, Upgrade, SendSignals, WsHandlerThrows
    <3>. QED  BY <3>1, <3>2
  <2>7. ~UNCHANGED vars
    BY <2>0 DEF vars
  <2>. QED
    BY <2>1, <2>2, <2>3, <2>4, <2>5, <2>6, <2>7 DEF Next, ServeStep, StopStep, Loop, Handle
<1>2. TypeOK /\ ServerInv /\ [Next]_vars => [Answered]_vars
  BY <1>1
<1>. QED  BY <1>2, ServerInvHolds, PTL DEF Spec, EveryClientAnswered

-----------------------------------------------------------------------------
(* After stop().                                                           *)

(* Every step keeps the listener closed once stop() has returned. *)
LEMMA StopStepKeeps ==
  ASSUME ~EarlyStop, TypeOK, SocketInv, OwnInv, StopInv, Next
  PROVE  StopInv'
<1> USE DEF StopInv, Early
<1>1. ASSUME UNCHANGED <<main, running_, server_fd_, stopper>>,
             \A w \in Worker : pc'[w] = "accept" => pc[w] = "accept" \/ running_
      PROVE  StopInv'
  BY <1>1
<1>2. CASE Listen \/ SetupFails \/ JoinPool
  BY <1>2 DEF Listen, SetupFails, JoinPool, Serve, socket
<1>3. CASE SetRunning
  <2>1. \A s \in Stopper : stopper'[s] = "ready"
    BY <1>3 DEF SetRunning, Serve
  <2>2. server_fd_' = server_fd_ /\ pc' = pc
    BY <1>3 DEF SetRunning, Serve, socket
  <2>. QED  BY <2>1, <2>2
<1>4. CASE Publish
  BY <1>4 DEF Publish, Serve, OwnInv
<1>5. CASE SpawnPool
  BY <1>5 DEF SpawnPool, Serve, socket
<1>6. CASE FinalClose
  BY <1>6 DEF FinalClose
<1>7. ASSUME NEW s \in Stopper, StopFlag(s) PROVE StopInv'
  <2>1. /\ stopper' = [stopper EXCEPT ![s] = "flagged"] /\ running_' = FALSE
        /\ main \notin {"start", "listening"}
        /\ UNCHANGED <<main, server_fd_, pc>>
    BY <1>7 DEF StopFlag, socket
  <2>. QED  BY <2>1 DEF TypeOK
<1>8. ASSUME NEW s \in Stopper, StopTake(s) PROVE StopInv'
  BY <1>8 DEF StopTake, TypeOK
<1>9. ASSUME NEW s \in Stopper, StopClose(s) PROVE StopInv'
  BY <1>9 DEF StopClose, TypeOK, SocketInv
<1>10. CASE Tick \/ \E c \in Client : Connect(c) \/ PeerResets(c)
  BY <1>1, <1>10 DEF Tick, Connect, PeerResets, socket
<1>11. ASSUME NEW w \in Worker, Loop(w) \/ Recv(w) \/ Handle(w) \/ WsHandlerThrows(w)
       PROVE  StopInv'
  <2>1. \E from, to : At(w, from, to) /\ (to = "accept" => running_)
    BY <1>11 DEF Loop, Check, Accept, AcceptFails, Recv, RecvHeader, RecvBlankLine, RecvBody,
                 RecvEnds, Refuse, ReadReturns, ReadOk, KeepReading, Handle, Dispatch, Upgrade,
                 WsReturns, Send, SendSignals, Close, WsHandlerThrows
  <2>. QED  BY <1>1, <2>1 DEF At, socket, TypeOK
<1>. QED
  BY <1>2, <1>3, <1>4, <1>5, <1>6, <1>7, <1>8, <1>9, <1>10, <1>11 DEF Next, ServeStep, StopStep

(***************************************************************************)
(* If stop() is not called before serve() set running_, no client is       *)
(* accepted once the stop() calls have returned: neither by a worker that  *)
(* was past its check of running_, nor after a stop() that found the       *)
(* socket not yet published.  (A stop() before that is undone by serve(),  *)
(* so the hypothesis is needed.)                                           *)
(***************************************************************************)
THEOREM NobodyAcceptedAfterStop ==
  ASSUME ~EarlyStop
  PROVE  Spec => NoAcceptAfterStop
<1> DEFINE Still == \A c \in Client :
             conn[c] = "queued" /\ conn'[c] = "open"
               => \/ \A s \in Stopper : stopper[s] = "ready"
                  \/ \E s \in Stopper : stopper[s] \in {"flagged", "took"}
<1>1. Init => StopInv
  BY DEF Init, StopInv
<1>2. TypeOK /\ ServerInv /\ StopInv /\ [Next]_vars => StopInv'
  <2> SUFFICES ASSUME TypeOK, ServerInv, StopInv, [Next]_vars PROVE StopInv'
    OBVIOUS
  <2>1. CASE Next
    BY <2>1, StopStepKeeps DEF ServerInv, Next
  <2>2. CASE UNCHANGED vars
    BY <2>2 DEF vars, StopInv
  <2>. QED  BY <2>1, <2>2
<1>3. TypeOK /\ ServerInv /\ StopInv /\ [Next]_vars => Still
  <2> SUFFICES ASSUME TypeOK, ServerInv, StopInv, [Next]_vars,
                      NEW c \in Client, conn[c] = "queued", conn'[c] = "open",
                      \A s \in Stopper : stopper[s] \notin {"flagged", "took"},
                      NEW s \in Stopper, stopper[s] # "ready"
               PROVE  FALSE
    OBVIOUS
  <2>1. stopper[s] = "stopped"
    BY DEF TypeOK
  <2>2. ASSUME NEW w \in Worker, NEW d \in Client, Accept(w, d) PROVE FALSE
    <3>1. listener = "open" /\ pc[w] = "accept" /\ alive
      BY <2>2 DEF Accept, At
    <3>2. main \notin Early
      BY <3>1 DEF ServerInv, OwnInv
    <3>3. server_fd_
      BY <3>1, <3>2 DEF ServerInv, SocketInv, TypeOK, Early
    <3>. QED  BY <2>1, <3>1, <3>3 DEF StopInv
  <2>3. ASSUME NEW w \in Worker, WsReturns(w) \/ Send(w) \/ Close(w) PROVE FALSE
    <3>1. conn' = [conn EXCEPT ![serving[w]] = "closed"]
      BY <2>3 DEF WsReturns, Send, Close, CloseClient
    <3>. QED  BY <3>1 DEF TypeOK
  <2>4. ASSUME NEW w \in Worker,
               Check(w) \/ AcceptFails(w) \/ Recv(w) \/ Dispatch(w) \/ Upgrade(w)
               \/ SendSignals(w) \/ WsHandlerThrows(w)
        PROVE  FALSE
    <3>1. CASE Recv(w)
      BY <3>1, RecvCases DEF Refuse, ReadOk, KeepReading, RecvEnds, ReadReturns
    <3>2. CASE ~Recv(w)
      BY <2>4, <3>2 DEF Check, AcceptFails, Dispatch, Upgrade, SendSignals, WsHandlerThrows
    <3>. QED  BY <3>1, <3>2
  <2>5. CASE ServeStep \/ Tick \/ \E r \in Stopper : StopFlag(r) \/ StopStep(r)
    BY <2>5 DEF ServeStep, StopStep, Listen, SetupFails, SetRunning, Publish, SpawnPool,
                JoinPool, FinalClose, Tick, StopFlag, StopTake, StopClose, CloseListener
  <2>6. CASE \E d \in Client : Connect(d) \/ PeerResets(d)
    BY <2>6 DEF Connect, PeerResets, TypeOK
  <2>7. CASE UNCHANGED vars
    BY <2>7 DEF vars
  <2>. QED  BY <2>2, <2>3, <2>4, <2>5, <2>6, <2>7 DEF Next, Loop, Handle
<1>4. TypeOK /\ ServerInv /\ StopInv /\ [Next]_vars => [Still]_vars
  BY <1>3
<1>. QED  BY <1>1, <1>2, <1>4, ServerInvHolds, PTL DEF Spec, NoAcceptAfterStop

-----------------------------------------------------------------------------
(* staticfiles::serve(): the invariant.                                    *)

(* The fields of a request. *)
RequestFields == {"pc", "rel", "range", "began", "match", "size", "status", "etag", "body"}

(* The sizes a file can have; -1 stands for a file that is not there. *)
Size == Nat \union {-1}

(* The file is removed at most once.  An ETag that is made while it is     *)
(* away holds no modification time, so two absences look the same.         *)
RemovedOnce ==
  \A v \in 1..Len(Sizes), w \in 1..Len(Sizes) : Sizes[v] < 0 /\ Sizes[w] < 0 => v = w

(* An ETag made at one of the versions from..v, and a body read at that    *)
(* version or later.                                                       *)
Tagged(e, s, from, v) == \E d \in from..v : e = ETag(s, d)
Kept(e, b, v) == \E d \in 1..v : \E s \in Size, r \in d..v : e = ETag(s, d) /\ b = Content(r, 0, Sizes[r] - 1)

(* The part of version v between two places. *)
Part(v, bounds) == [i \in 1..(bounds[2] - bounds[1] + 1) |-> <<v, bounds[1] + i - 1>>]

(* What a request knows, when the file is at version v. *)
RequestAt(g, v) ==
  /\ DOMAIN g = RequestFields
  /\ g.pc # "idle" => g.range \in Specs /\ g.began \in 1..v
  /\ g.pc \in {"mtime", "read"} => g.size \in Size /\ (g.began = v => g.size = Sizes[v])
  /\ g.pc = "read" => /\ Tagged(g.etag, g.size, g.began, v)
                      /\ present(g.range) => Bounds(g.range, g.size) # Blank
  /\ g.pc = "sent" /\ g.status = 200 => Kept(g.etag, g.body, v)
  /\ g.pc = "sent" /\ g.status = 304 => g.match = g.etag /\ Tagged(g.etag, g.size, g.began, v)
  /\ g.pc = "sent" /\ g.status = 416 => g.size \in Size /\ present(g.range) /\ Bounds(g.range, g.size) = Blank
  /\ g.pc = "sent" /\ g.status = 206 =>
       /\ g.size \in Size /\ present(g.range) /\ Bounds(g.range, g.size) # Blank
       /\ g.began = v => g.body = Part(v, Bounds(g.range, g.size))

CacheOk(c, v) == c = NoCopy \/ Kept(c.etag, c.body, v)

FilesInv ==
  /\ version \in 1..Len(Sizes) /\ CacheOk(cached, version)
  /\ DOMAIN get = Slot /\ \A q \in Slot : RequestAt(get[q], version)

(* A request that has not been made has them all. *)
LEMMA Fresh ==
  DOMAIN NoRequest = RequestFields /\ NoRequest.pc = "idle"
BY DEF RequestFields, NoRequest

(* Only one request changes. *)
LEMMA OneGoes ==
  ASSUME NEW q \in Slot, NEW g, NEW v, DOMAIN get = Slot, \A p \in Slot : RequestAt(get[p], v),
         Goes(q, g), RequestAt(g, v)
  PROVE  DOMAIN get' = Slot /\ \A p \in Slot : RequestAt(get'[p], v)
<1>1. get' = [get EXCEPT ![q] = g]
  BY DEF Goes
<1>2. DOMAIN get' = Slot /\ get'[q] = g /\ \A p \in Slot : p # q => get'[p] = get[p]
  BY <1>1
<1> QED
  BY <1>2

(* A Range of bytes is a pair, unless it is malformed. *)
LEMMA RangePairs ==
  ASSUME NEW range \in Specs, present(range), range # Malformed
  PROVE  range \in Number \X Number
BY FilesAssumption DEF present

(* What parse_range() finds is what the range stands for, unless a number  *)
(* of it does not fit.                                                     *)
LEMMA BoundsFacts ==
  ASSUME NEW range \in Specs, present(range), NEW size \in Size
  PROVE  /\ Bounds(range, size) = Blank => ~Readable(range) \/ Places(range, size) = {}
         /\ Bounds(range, size) # Blank => Readable(range) /\
              \E a \in Nat, b \in Nat : /\ Bounds(range, size) = <<a, b>> /\ a <= b /\ b < size
                                        /\ Places(range, size) = a..b
<1> DEFINE a == range[1] b == range[2]
<1>0. SUFFICES ASSUME Readable(range)
               PROVE  /\ Bounds(range, size) = Blank => Places(range, size) = {}
                      /\ Bounds(range, size) # Blank =>
                           \E x \in Nat, y \in Nat : /\ Bounds(range, size) = <<x, y>> /\ x <= y /\ y < size
                                                     /\ Places(range, size) = x..y
  <2>1. ~Readable(range) => Bounds(range, size) = Blank
    BY DEF Bounds
  <2> QED
    BY <1>0, <2>1
<1>1. range \in (Nat \union {Blank}) \X (Nat \union {Blank}) /\ Blank \notin Int
  BY <1>0, RangePairs, FilesAssumption DEF Readable, Number
<1>2. a \in Nat \union {Blank} /\ b \in Nat \union {Blank}
  BY <1>1
<1>3. \A x \in Nat, y \in Nat : <<x, y>> # Blank
  BY FilesAssumption DEF Number
<1>4. size \in Int /\ size >= -1
  BY DEF Size
<1>5. CASE a = Blank /\ (b = Blank \/ b <= 0)
  <2>1. Bounds(range, size) = Blank
    BY <1>0, <1>5 DEF Bounds
  <2>2. ASSUME NEW i \in 0..(size - 1), b # Blank, i >= size - b
        PROVE  FALSE
    <3>1. b \in Nat /\ b <= 0
      BY <1>2, <1>5, <2>2
    <3> QED
      BY <1>4, <2>2, <3>1
  <2>3. Places(range, size) = {}
    BY <1>5, <2>2 DEF Places
  <2> QED
    BY <2>1, <2>3
<1>6. CASE ~(a = Blank /\ (b = Blank \/ b <= 0))
  <2> DEFINE start == IF a # Blank THEN a ELSE IF size > b THEN size - b ELSE 0
             last == IF a = Blank \/ b = Blank THEN size - 1 ELSE b
             end == IF last > size - 1 THEN size - 1 ELSE last
             none == start > end \/ start >= size
  <2>1. Bounds(range, size) = IF none THEN Blank ELSE <<start, end>>
    BY <1>0, <1>6 DEF Bounds
  <2>2. start \in Nat /\ end \in Int /\ end <= size - 1
    BY <1>1, <1>2, <1>4, <1>6
  <2>3. Places(range, size) = {i \in 0..(size - 1) : i >= start /\ i <= end}
    <3>1. CASE a = Blank
      <4>1. b \in Nat /\ b > 0
        BY <1>2, <1>6, <3>1
      <4>2. \A i \in 0..(size - 1) : (b # Blank /\ i >= size - b) <=> (i >= start /\ i <= end)
        BY <1>1, <1>4, <3>1, <4>1
      <4>3. Places(range, size) = {i \in 0..(size - 1) : b # Blank /\ i >= size - b}
        BY <3>1 DEF Places
      <4> HIDE DEF a, b, start, end
      <4> QED
        BY <4>2, <4>3
    <3>2. CASE a # Blank
      <4>1. a \in Nat
        BY <1>2, <3>2
      <4>2. \A i \in 0..(size - 1) : (i >= a /\ (b = Blank \/ i <= b)) <=> (i >= start /\ i <= end)
        BY <1>1, <1>2, <1>4, <3>2, <4>1
      <4>3. Places(range, size) = {i \in 0..(size - 1) : i >= a /\ (b = Blank \/ i <= b)}
        BY <3>2 DEF Places
      <4> HIDE DEF a, b, start, end
      <4> QED
        BY <4>2, <4>3
    <3> QED
      BY <3>1, <3>2
  <2> HIDE DEF a, b, start, end
  <2>4. CASE none
    <3>1. Places(range, size) = {}
      BY <1>4, <2>2, <2>3, <2>4
    <3> QED
      BY <2>1, <2>4, <3>1
  <2>5. CASE ~none
    <3>1. end \in Nat /\ start <= end /\ end < size
      BY <1>4, <2>2, <2>5
    <3>2. Places(range, size) = start..end
      BY <1>4, <2>2, <2>3, <3>1
    <3>3. Bounds(range, size) = <<start, end>>
      BY <2>1, <2>5
    <3>4. Bounds(range, size) # Blank
      BY <1>3, <2>2, <3>1, <3>3
    <3> QED
      BY <2>2, <3>1, <3>2, <3>3, <3>4
  <2> QED
    BY <2>4, <2>5
<1> QED
  BY <1>5, <1>6

(* Two ETags that are the same were made at the same version. *)
LEMMA TagTells ==
  ASSUME RemovedOnce, NEW c \in 1..Len(Sizes), NEW d \in 1..Len(Sizes), NEW s, NEW t,
         ETag(s, c) = ETag(t, d)
  PROVE  c = d
<1>1. (IF Sizes[c] < 0 THEN 0 ELSE c) = (IF Sizes[d] < 0 THEN 0 ELSE d)
  BY DEF ETag
<1> QED
  BY <1>1 DEF RemovedOnce

(* A deployment takes nothing back. *)
LEMMA Newer ==
  ASSUME NEW v \in Nat, NEW w \in Nat, v <= w
  PROVE  /\ \A e, s, from : Tagged(e, s, from, v) /\ from \in Nat => Tagged(e, s, from, w)
         /\ \A e, b : Kept(e, b, v) => Kept(e, b, w)
<1>1. ASSUME NEW e, NEW s, NEW from \in Nat, Tagged(e, s, from, v)
      PROVE  Tagged(e, s, from, w)
  <2>1. PICK d \in from..v : e = ETag(s, d)
    BY <1>1 DEF Tagged
  <2>2. d \in from..w
    BY <2>1
  <2> QED
    BY <2>1, <2>2 DEF Tagged
<1>2. ASSUME NEW e, NEW b, Kept(e, b, v)
      PROVE  Kept(e, b, w)
  <2>1. PICK d \in 1..v : \E s \in Size, r \in d..v : e = ETag(s, d) /\ b = Content(r, 0, Sizes[r] - 1)
    BY <1>2 DEF Kept
  <2>2. PICK s \in Size, r \in d..v : e = ETag(s, d) /\ b = Content(r, 0, Sizes[r] - 1)
    BY <2>1
  <2>3. d \in 1..w /\ r \in d..w
    BY <2>1, <2>2
  <2> QED
    BY <2>2, <2>3 DEF Kept
<1> QED
  BY <1>1, <1>2

(* It begins. *)
LEMMA FilesStart ==
  FilesInit => FilesInv
<1> SUFFICES ASSUME FilesInit
             PROVE  FilesInv
  OBVIOUS
<1>1. 1 \in 1..Len(Sizes)
  <2>1. Sizes \in Seq(Size) /\ Sizes # <<>>
    BY FilesAssumption DEF Size
  <2> QED
    BY <2>1
<1>2. RequestAt(NoRequest, 1)
  BY Fresh DEF RequestAt
<1> QED
  BY <1>1, <1>2 DEF FilesInit, FilesInv, CacheOk

(* A deployment. *)
LEMMA DeployKeeps ==
  ASSUME FilesInv, Deploy
  PROVE  FilesInv'
<1> DEFINE v == version w == version'
<1>1. /\ v \in Nat /\ v >= 1 /\ w = v + 1 /\ w \in 1..Len(Sizes) /\ cached' = cached /\ get' = get
      /\ v <= w /\ w \in Nat
  <2>1. Len(Sizes) \in Nat
    BY FilesAssumption
  <2> QED
    BY <2>1 DEF FilesInv, Deploy
<1>2. CacheOk(cached, v) /\ DOMAIN get = Slot /\ \A q \in Slot : RequestAt(get[q], v)
  BY DEF FilesInv
<1> HIDE DEF v, w
<1>3. CacheOk(cached, w)
  BY <1>1, <1>2, Newer DEF CacheOk
<1>4. ASSUME NEW g, RequestAt(g, v)
      PROVE  RequestAt(g, w)
  <2>1. CASE g.pc = "idle"
    BY <1>4, <2>1 DEF RequestAt
  <2>2. CASE g.pc # "idle"
    <3>1. g.began \in 1..v /\ g.began \in Nat /\ g.began # w /\ g.began \in 1..w
      BY <1>1, <1>4, <2>2 DEF RequestAt
    <3> QED
      BY <1>1, <1>4, <2>2, <3>1, Newer DEF RequestAt
  <2> QED
    BY <2>1, <2>2
<1>5. CacheOk(cached', w) /\ DOMAIN get' = Slot /\ \A q \in Slot : RequestAt(get'[q], w)
  BY <1>1, <1>2, <1>3, <1>4
<1> QED
  BY <1>1, <1>5 DEF FilesInv, w

(* One request moves on: to g, with the file where it is. *)
LEMMA RequestKeeps ==
  ASSUME FilesInv, NEW q \in Slot, NEW g, Goes(q, g), RequestAt(g, version),
         version' = version, CacheOk(cached', version)
  PROVE  FilesInv'
<1>1. DOMAIN get = Slot /\ \A p \in Slot : RequestAt(get[p], version)
  BY DEF FilesInv
<1>2. DOMAIN get' = Slot /\ \A p \in Slot : RequestAt(get'[p], version)
  BY <1>1, OneGoes
<1> QED
  BY <1>2 DEF FilesInv

(* A request is made; the file is found; its size is read. *)
LEMMA FirstSteps ==
  ASSUME FilesInv, NEW q \in Slot,
         \/ \E rel \in Rel, conditional \in BOOLEAN, range \in Specs : Ask(q, rel, conditional, range)
         \/ Resolve(q) \/ ReadSize(q)
  PROVE  FilesInv'
<1> DEFINE g == get[q] v == version
<1>1. RequestAt(g, v) /\ v \in 1..Len(Sizes) /\ CacheOk(cached, v) /\ v \in 1..v
  <2>1. Len(Sizes) \in Nat
    BY FilesAssumption
  <2> QED
    BY <2>1 DEF FilesInv
<1>2. version' = v /\ cached' = cached
  BY DEF Ask, Resolve, ReadSize
<1>3. CASE \E rel \in Rel, conditional \in BOOLEAN, range \in Specs : Ask(q, rel, conditional, range)
  <2>1. PICK rel \in Rel, conditional \in BOOLEAN, range \in Specs : Ask(q, rel, conditional, range)
    BY <1>3
  <2> DEFINE m == IF conditional THEN cached.etag ELSE <<>>
             h == [NoRequest EXCEPT !.pc = "resolve", !.rel = rel, !.range = range, !.began = version, !.match = m]
  <2>2. Goes(q, h)
    BY <2>1 DEF Ask
  <2>3. DOMAIN h = RequestFields /\ h.pc = "resolve" /\ h.range = range /\ h.began = version
    <3> HIDE DEF m
    <3> QED
      BY DEF RequestFields, NoRequest
  <2> HIDE DEF h
  <2>4. RequestAt(h, version)
    BY <1>1, <2>3 DEF RequestAt
  <2> QED
    BY <1>1, <1>2, <2>2, <2>4, RequestKeeps
<1>4. CASE Resolve(q)
  <2>0. DOMAIN g = RequestFields /\ g.pc = "resolve" /\ g.range \in Specs /\ g.began \in 1..v
    BY <1>1, <1>4 DEF Resolve, Step, RequestAt
  <2> DEFINE h == [g EXCEPT !.pc = "size"]
             n == [g EXCEPT !.pc = "sent", !.status = 404, !.etag = <<>>, !.body = <<>>]
  <2>1. Goes(q, h) \/ Goes(q, n)
    BY <1>4 DEF Resolve, Answer
  <2>2. DOMAIN h = RequestFields /\ h.pc = "size" /\ h.range = g.range /\ h.began = g.began
    <3> HIDE DEF g
    <3> QED
      BY <2>0 DEF RequestFields
  <2>3. DOMAIN n = RequestFields /\ n.pc = "sent" /\ n.range = g.range /\ n.began = g.began /\ n.status = 404
    <3> HIDE DEF g
    <3> QED
      BY <2>0 DEF RequestFields
  <2> HIDE DEF g, h, n
  <2>4. RequestAt(h, v) /\ RequestAt(n, v)
    BY <2>0, <2>2, <2>3 DEF RequestAt
  <2> QED
    BY <1>1, <1>2, <2>1, <2>4, RequestKeeps
<1>5. CASE ReadSize(q)
  <2>0. DOMAIN g = RequestFields /\ g.pc = "size" /\ g.range \in Specs /\ g.began \in 1..v
    BY <1>1, <1>5 DEF ReadSize, Step, RequestAt
  <2> DEFINE h == [g EXCEPT !.pc = "mtime", !.size = Sizes[v]]
  <2>1. Goes(q, h)
    BY <1>5 DEF ReadSize
  <2>2. DOMAIN h = RequestFields /\ h.pc = "mtime" /\ h.range = g.range /\ h.began = g.began /\ h.size = Sizes[v]
    <3> HIDE DEF g
    <3> QED
      BY <2>0 DEF RequestFields
  <2>3. Sizes[v] \in Size
    BY <1>1, FilesAssumption DEF Size
  <2> HIDE DEF g, h
  <2>4. RequestAt(h, v)
    BY <2>0, <2>2, <2>3 DEF RequestAt
  <2> QED
    BY <1>1, <1>2, <2>1, <2>4, RequestKeeps
<1> QED
  BY <1>3, <1>4, <1>5

(* If-None-Match and Range decide. *)
LEMMA DecideKeeps ==
  ASSUME FilesInv, NEW q \in Slot, Decide(q)
  PROVE  FilesInv'
<1> DEFINE g == get[q] v == version e == ETag(g.size, v) bounds == Bounds(g.range, g.size)
<1>1. RequestAt(g, v) /\ CacheOk(cached, v) /\ version' = v /\ cached' = cached
  BY DEF FilesInv, Decide
<1>2. /\ DOMAIN g = RequestFields /\ g.pc = "mtime" /\ g.range \in Specs /\ g.began \in 1..v /\ g.size \in Size
      /\ g.began = v => g.size = Sizes[v]
  BY <1>1 DEF Decide, Step, RequestAt
<1>3. Tagged(e, g.size, g.began, v)
  <2>1. v \in g.began..v
    <3>1. v \in Nat
      <4>1. Len(Sizes) \in Nat
        BY FilesAssumption
      <4> QED
        BY <4>1 DEF FilesInv
    <3> HIDE DEF g, v
    <3> QED
      BY <1>2, <3>1
  <2> HIDE DEF g, v
  <2> QED
    BY <2>1 DEF Tagged
<1>4. CASE g.match = e
  <2> DEFINE h == [g EXCEPT !.pc = "sent", !.status = 304, !.etag = e, !.body = <<>>]
  <2>1. Goes(q, h)
    BY <1>4 DEF Decide, Answer
  <2>2. /\ DOMAIN h = RequestFields /\ h.pc = "sent" /\ h.status = 304 /\ h.etag = e
        /\ h.range = g.range /\ h.began = g.began /\ h.size = g.size /\ h.match = g.match
    <3> HIDE DEF g, e
    <3> QED
      BY <1>2 DEF RequestFields
  <2> HIDE DEF g, e, h
  <2>3. RequestAt(h, v)
    BY <1>2, <1>3, <1>4, <2>2 DEF RequestAt
  <2> QED
    BY <1>1, <2>1, <2>3, RequestKeeps
<1>5. CASE g.match # e /\ present(g.range) /\ bounds = Blank
  <2> DEFINE h == [g EXCEPT !.pc = "sent", !.status = 416, !.etag = <<>>, !.body = <<>>]
  <2>1. Goes(q, h)
    BY <1>5 DEF Decide, Answer
  <2>2. /\ DOMAIN h = RequestFields /\ h.pc = "sent" /\ h.status = 416
        /\ h.range = g.range /\ h.began = g.began /\ h.size = g.size
    <3> HIDE DEF g
    <3> QED
      BY <1>2 DEF RequestFields
  <2>3. present(h.range) /\ Bounds(h.range, h.size) = Blank
    BY <1>5, <2>2
  <2> HIDE DEF g, e, h
  <2>4. RequestAt(h, v)
    BY <1>2, <2>2, <2>3 DEF RequestAt
  <2> QED
    BY <1>1, <2>1, <2>4, RequestKeeps
<1>6. CASE g.match # e /\ ~(present(g.range) /\ bounds = Blank)
  <2> DEFINE h == [g EXCEPT !.pc = "read", !.etag = e]
  <2>1. Goes(q, h)
    BY <1>6 DEF Decide
  <2>2. /\ DOMAIN h = RequestFields /\ h.pc = "read" /\ h.etag = e
        /\ h.range = g.range /\ h.began = g.began /\ h.size = g.size
    <3> HIDE DEF g, e
    <3> QED
      BY <1>2 DEF RequestFields
  <2>3. present(h.range) => Bounds(h.range, h.size) # Blank
    BY <1>6, <2>2
  <2> HIDE DEF g, e, h
  <2>4. RequestAt(h, v)
    BY <1>2, <1>3, <2>2, <2>3 DEF RequestAt
  <2> QED
    BY <1>1, <2>1, <2>4, RequestKeeps
<1> QED
  BY <1>4, <1>5, <1>6

(* What a range request reads of version v, when it has `size` bytes. *)
Buffer(v, size, bounds) ==
  [i \in 1..(bounds[2] - bounds[1] + 1) |->
     IF bounds[1] + i - 1 < size THEN <<v, bounds[1] + i - 1>> ELSE <<0, 0>>]

(* A range that was found lies within the file. *)
LEMMA WithinFile ==
  ASSUME NEW range \in Specs, present(range), NEW size \in Size,
         Bounds(range, size) # Blank, NEW v
  PROVE  Buffer(v, size, Bounds(range, size)) = Part(v, Bounds(range, size))
<1> DEFINE bounds == Bounds(range, size)
<1>1. PICK a \in Nat, b \in Nat : bounds = <<a, b>> /\ a <= b /\ b < size
  BY BoundsFacts
<1>2. bounds[1] = a /\ bounds[2] = b
  BY <1>1
<1>3. size \in Int
  BY DEF Size
<1> HIDE DEF bounds
<1>4. \A i \in 1..(bounds[2] - bounds[1] + 1) : bounds[1] + i - 1 < size
  BY <1>1, <1>2, <1>3
<1>5. Buffer(v, size, bounds) = Part(v, bounds)
  BY <1>4 DEF Part, Buffer
<1> QED
  BY <1>5 DEF bounds

(* The file is read. *)
LEMMA ReadKeeps ==
  ASSUME FilesInv, NEW q \in Slot, Read(q)
  PROVE  FilesInv'
<1> DEFINE g == get[q] v == version bounds == Bounds(g.range, g.size)
           buffer == Buffer(v, Sizes[v], bounds)
<1>1. RequestAt(g, v) /\ CacheOk(cached, v) /\ version' = v /\ cached' = cached
  BY DEF FilesInv, Read
<1>2. /\ DOMAIN g = RequestFields /\ g.pc = "read" /\ g.range \in Specs /\ g.began \in 1..v /\ g.size \in Size
      /\ g.began = v => g.size = Sizes[v]
      /\ Tagged(g.etag, g.size, g.began, v)
      /\ present(g.range) => bounds # Blank
  BY <1>1 DEF Read, Step, RequestAt
<1>3. CASE ~present(g.range)
  <2> DEFINE body == Whole(v)
             h == [g EXCEPT !.pc = "sent", !.status = 200, !.etag = g.etag, !.body = body]
  <2>1. Goes(q, h)
    BY <1>3 DEF Read, Answer
  <2>2. /\ DOMAIN h = RequestFields /\ h.pc = "sent" /\ h.status = 200 /\ h.etag = g.etag /\ h.body = body
        /\ h.range = g.range /\ h.began = g.began
    <3> HIDE DEF g, body
    <3> QED
      BY <1>2 DEF RequestFields
  <2>3. body = Content(v, 0, Sizes[v] - 1)
    BY DEF Whole
  <2>4. v \in Nat
    <3>1. Len(Sizes) \in Nat
      BY FilesAssumption
    <3> QED
      BY <3>1 DEF FilesInv
  <2> HIDE DEF g, v, h, body
  <2>5. Kept(g.etag, body, v)
    <3>1. PICK d \in g.began..v : g.etag = ETag(g.size, d)
      BY <1>2 DEF Tagged
    <3>2. d \in 1..v /\ v \in d..v
      BY <1>2, <2>4, <3>1
    <3> QED
      BY <1>2, <2>3, <3>1, <3>2 DEF Kept
  <2>6. RequestAt(h, v)
    BY <1>2, <2>2, <2>5 DEF RequestAt
  <2> QED
    BY <1>1, <2>1, <2>6, RequestKeeps DEF v
<1>4. CASE present(g.range)
  <2> DEFINE h == [g EXCEPT !.pc = "sent", !.status = 206, !.etag = g.etag, !.body = buffer]
  <2>1. Goes(q, h)
    BY <1>4 DEF Read, Answer, Buffer
  <2>2. /\ DOMAIN h = RequestFields /\ h.pc = "sent" /\ h.status = 206 /\ h.body = buffer
        /\ h.range = g.range /\ h.began = g.began /\ h.size = g.size
    <3> HIDE DEF g, buffer
    <3> QED
      BY <1>2 DEF RequestFields
  <2>3. g.began = v => buffer = Part(v, bounds)
    <3> SUFFICES ASSUME g.began = v
                 PROVE  buffer = Part(v, bounds)
      OBVIOUS
    <3> DEFINE s == g.size r == g.range
    <3>1. s = Sizes[v] /\ s \in Size /\ r \in Specs /\ present(r) /\ Bounds(r, s) # Blank
      BY <1>2, <1>4
    <3> HIDE DEF s, r
    <3>2. Buffer(v, s, Bounds(r, s)) = Part(v, Bounds(r, s))
      BY <3>1, WithinFile
    <3> QED
      BY <3>1, <3>2 DEF s, r
  <2>4. Bounds(h.range, h.size) = bounds
    BY <2>2
  <2> HIDE DEF g, v, h, buffer, bounds
  <2>5. RequestAt(h, v)
    BY <1>2, <1>4, <2>2, <2>3, <2>4 DEF RequestAt
  <2> QED
    BY <1>1, <2>1, <2>5, RequestKeeps DEF v
<1> QED
  BY <1>3, <1>4

(* The browser receives the answer. *)
LEMMA ReceiveKeeps ==
  ASSUME FilesInv, NEW q \in Slot, Receive(q)
  PROVE  FilesInv'
<1> DEFINE g == get[q]
<1>1. /\ RequestAt(g, version) /\ CacheOk(cached, version) /\ version' = version
      /\ Goes(q, NoRequest) /\ g.pc = "sent"
      /\ cached' = IF g.status = 200 THEN [etag |-> g.etag, body |-> g.body] ELSE cached
  BY DEF FilesInv, Receive, Step
<1>2. g.status = 200 => Kept(g.etag, g.body, version)
  BY <1>1 DEF RequestAt
<1> HIDE DEF g
<1>3. CacheOk(cached', version)
  <2>1. CASE g.status = 200
    <3>1. cached'.etag = g.etag /\ cached'.body = g.body
      BY <1>1, <2>1
    <3> QED
      BY <1>2, <2>1, <3>1 DEF CacheOk
  <2>2. CASE g.status # 200
    BY <1>1, <2>2
  <2> QED
    BY <2>1, <2>2
<1>4. RequestAt(NoRequest, version)
  BY Fresh DEF RequestAt
<1> QED
  BY <1>1, <1>3, <1>4, RequestKeeps

(* Every step keeps the invariant. *)
LEMMA FilesStep ==
  FilesInv /\ [FilesNext]_filevars => FilesInv'
<1> SUFFICES ASSUME FilesInv, [FilesNext]_filevars
             PROVE  FilesInv'
  OBVIOUS
<1>1. CASE UNCHANGED filevars
  BY <1>1 DEF filevars, FilesInv
<1>2. CASE FilesNext
  BY <1>2, DeployKeeps, FirstSteps, DecideKeeps, ReadKeeps, ReceiveKeeps DEF FilesNext
<1> QED
  BY <1>1, <1>2

(* NotModifiedRight, for a file that is replaced any number of times and   *)
(* removed at most once, and any number of requests: when serve() answers  *)
(* 304 the browser's copy is the file as it was during the request.        *)
THEOREM RevalidationIsRight ==
  RemovedOnce /\ FilesSpec => []NotModifiedRight
<1> SUFFICES ASSUME RemovedOnce
             PROVE  FilesSpec => []NotModifiedRight
  OBVIOUS
<1>1. FilesInv => NotModifiedRight
  <2> SUFFICES ASSUME FilesInv, NEW q \in Slot, Step(q, "sent"), get[q].status = 304,
                      cached.etag = get[q].match
               PROVE  \E v \in get[q].began..version : cached.body = Whole(v)
    BY DEF NotModifiedRight
  <2> DEFINE g == get[q] n == version
  <2>1. RequestAt(g, n) /\ CacheOk(cached, n) /\ n \in 1..Len(Sizes) /\ g.pc = "sent"
    BY DEF FilesInv, Step
  <2>2. /\ cached.etag = g.etag /\ Tagged(g.etag, g.size, g.began, n) /\ g.began \in 1..n
    BY <2>1 DEF RequestAt
  <2>3. PICK d \in g.began..n : g.etag = ETag(g.size, d)
    BY <2>2 DEF Tagged
  <2>4. cached # NoCopy
    <3>1. Len(g.etag) = 2
      BY <2>3 DEF ETag
    <3>2. Len(NoCopy.etag) = 0
      BY DEF NoCopy
    <3>3. SUFFICES ASSUME cached = NoCopy PROVE FALSE
      OBVIOUS
    <3>4. cached.etag = NoCopy.etag /\ cached.etag = g.etag
      BY <2>2, <3>3
    <3>5. Len(g.etag) = Len(NoCopy.etag)
      BY <3>4, Zenon
    <3>6. 2 = 0
      BY <3>1, <3>2, <3>5, Zenon
    <3> QED
      BY <3>6
  <2>5. PICK c \in 1..n : \E s \in Size, r \in c..n :
           cached.etag = ETag(s, c) /\ cached.body = Content(r, 0, Sizes[r] - 1)
    BY <2>1, <2>4 DEF CacheOk, Kept
  <2>6. PICK s \in Size, r \in c..n : cached.etag = ETag(s, c) /\ cached.body = Content(r, 0, Sizes[r] - 1)
    BY <2>5
  <2>7. c \in 1..Len(Sizes) /\ d \in 1..Len(Sizes) /\ n \in Nat
    <3>1. Len(Sizes) \in Nat
      BY FilesAssumption
    <3> HIDE DEF g, n
    <3> QED
      BY <2>1, <2>2, <2>3, <2>5, <3>1
  <2>8. c = d
    BY <2>2, <2>3, <2>6, <2>7, TagTells
  <2>9. r \in g.began..n
    <3> HIDE DEF g, n
    <3> QED
      BY <2>2, <2>3, <2>6, <2>7, <2>8
  <2>10. cached.body = Whole(r)
    BY <2>6 DEF Whole
  <2> QED
    BY <2>9, <2>10
<1> QED
  BY <1>1, FilesStart, FilesStep, PTL DEF FilesSpec

(* RangeRight, for any sizes and headers: unless the file is replaced      *)
(* while it is being served, a Range of bytes whose numbers stoll() can    *)
(* read gets the bytes it stands for, each once and in order, and 416 if   *)
(* there are none; any other Range of bytes gets 416.                      *)
THEOREM RangesAreRight ==
  FilesSpec => []RangeRight
<1>1. FilesInv => RangeRight
  <2> SUFFICES ASSUME FilesInv, NEW q \in Slot, Step(q, "sent"),
                      get[q].status \in {206, 416}, get[q].began = version
               PROVE  /\ present(get[q].range)
                      /\ (get[q].status = 206) <=>
                           (Readable(get[q].range) /\ Places(get[q].range, get[q].size) # {})
                      /\ get[q].status = 206 =>
                           /\ ToSet(get[q].body) = {<<version, i>> : i \in Places(get[q].range, get[q].size)}
                           /\ \A i \in 2..Len(get[q].body) : get[q].body[i][2] > get[q].body[i - 1][2]
    BY DEF RangeRight
  <2> DEFINE g == get[q] bounds == Bounds(g.range, g.size) places == Places(g.range, g.size)
             readable == Readable(g.range)
  <2>1. /\ g.range \in Specs /\ g.size \in Size /\ present(g.range)
        /\ g.status = 416 => bounds = Blank
        /\ g.status = 206 => bounds # Blank /\ g.body = Part(version, bounds)
    BY DEF FilesInv, Step, RequestAt
  <2>2. /\ bounds = Blank => ~readable \/ places = {}
        /\ bounds # Blank => readable /\ \E a \in Nat, b \in Nat : bounds = <<a, b>> /\ a <= b /\ places = a..b
    <3> DEFINE r == g.range s == g.size
    <3>1. r \in Specs /\ s \in Size /\ present(r)
      BY <2>1
    <3> HIDE DEF r, s
    <3>2. /\ Bounds(r, s) = Blank => ~Readable(r) \/ Places(r, s) = {}
          /\ Bounds(r, s) # Blank => Readable(r) /\
               \E a \in Nat, b \in Nat : Bounds(r, s) = <<a, b>> /\ a <= b /\ Places(r, s) = a..b
      BY <3>1, BoundsFacts
    <3> QED
      BY <3>2 DEF r, s
  <2>3. CASE g.status = 416
    BY <2>1, <2>2, <2>3
  <2>4. CASE g.status = 206
    <3>0. bounds # Blank /\ g.body = Part(version, bounds)
      BY <2>1, <2>4
    <3>1. PICK a \in Nat, b \in Nat : bounds = <<a, b>> /\ a <= b /\ places = a..b
      BY <2>2, <3>0
    <3> DEFINE p == g.body n == b - a + 1
    <3>2. n \in Nat /\ p = [i \in 1..n |-> <<version, a + i - 1>>]
      BY <3>0, <3>1 DEF Part
    <3>3. places # {}
      <4>1. a \in a..b
        BY <3>1
      <4> HIDE DEF places
      <4>2. a \in places
        BY <3>1, <4>1, Zenon
      <4> QED
        BY <4>2
    <3> HIDE DEF p, n
    <3>4. DOMAIN p = 1..n /\ Len(p) = n /\ \A i \in 1..n : p[i] = <<version, a + i - 1>>
      BY <3>2
    <3>5. ToSet(p) = {<<version, i>> : i \in a..b}
      <4>1. ASSUME NEW x \in ToSet(p)
            PROVE  x \in {<<version, i>> : i \in a..b}
        <5>0. PICK i \in DOMAIN p : x = p[i]
          BY DEF ToSet
        <5>1. i \in 1..n /\ x = <<version, a + i - 1>>
          BY <3>4, <5>0
        <5>2. a + i - 1 \in a..b
          BY <5>1 DEF n
        <5> QED
          BY <5>1, <5>2
      <4>2. ASSUME NEW j \in a..b
            PROVE  <<version, j>> \in ToSet(p)
        <5>1. j - a + 1 \in 1..n /\ a + (j - a + 1) - 1 = j
          BY DEF n
        <5>2. p[j - a + 1] = <<version, j>>
          BY <3>4, <5>1
        <5> QED
          BY <3>4, <5>1, <5>2 DEF ToSet
      <4> QED
        BY <4>1, <4>2
    <3>6. ASSUME NEW i \in 2..Len(p)
          PROVE  p[i][2] > p[i - 1][2]
      <4>1. i \in 1..n /\ i - 1 \in 1..n
        BY <3>2, <3>4
      <4>2. p[i][2] = a + i - 1 /\ p[i - 1][2] = a + (i - 1) - 1
        BY <3>4, <4>1
      <4> QED
        BY <4>1, <4>2
    <3> QED
      BY <2>1, <2>2, <2>4, <3>0, <3>1, <3>3, <3>5, <3>6 DEF p
  <2> QED
    BY <2>3, <2>4
<1> QED
  BY <1>1, FilesStart, FilesStep, PTL DEF FilesSpec

-----------------------------------------------------------------------------
(* The browser's loading indicators (Livewire).                            *)

(* A root's indicator is visible only for a post under way, of the root or *)
(* of one it lies inside.                                                  *)
LoadInv ==
  /\ \A m \in posts \union answers : m.root \in Root
  /\ \A r \in Root : <<r, "any">> \in shown =>
       \E m \in posts \union answers : r \in Within(m.root)

(* Which of them a post has to do with. *)
LEMMA ElementFacts ==
  ASSUME NEW r \in Root, NEW c \in Root, NEW action
  PROVE  <<c, "any">> \in Elements(r, action) <=> c \in Within(r)
BY DEF Elements

(* A post shows them ... *)
LEMMA PostKeeps ==
  ASSUME LoadInv, NEW r \in Root, NEW action, NEW s, Post(r, action, s), answers' = answers
  PROVE  LoadInv'
<1> DEFINE m == [id |-> sent, root |-> r, action |-> action, text |-> Payload(action, s)]
<1>1. posts' = posts \union {m} /\ m.root = r
  BY DEF Post
<1> HIDE DEF m
<1>2. shown' = shown \union Elements(r, action)
  BY DEF Post
<1>3. \A x \in (posts' \union answers') : x.root \in Root
  BY <1>1 DEF LoadInv
<1>4. ASSUME NEW c \in Root, <<c, "any">> \in shown'
      PROVE  \E x \in (posts' \union answers') : c \in Within(x.root)
  <2>1. CASE <<c, "any">> \in shown
    BY <1>1, <2>1 DEF LoadInv
  <2>2. CASE <<c, "any">> \in Elements(r, action)
    BY <1>1, <2>2, ElementFacts
  <2> QED
    BY <1>2, <1>4, <2>1, <2>2
<1> QED
  BY <1>3, <1>4 DEF LoadInv

(* ... and hides them when it is over. *)
LEMMA OverKeeps ==
  ASSUME LoadInv, NEW m \in posts \union answers,
         posts \union answers \subseteq posts' \union answers' \union {m},
         posts' \union answers' \subseteq posts \union answers,
         shown' \subseteq (shown \union ({m.root} \X {"any", "increment"})) \ Elements(m.root, m.action)
  PROVE  LoadInv'
<1>1. m.root \in Root
  BY DEF LoadInv
<1>2. ASSUME NEW c \in Root, <<c, "any">> \in shown'
      PROVE  \E x \in (posts' \union answers') : c \in Within(x.root)
  <2>1. c \notin Within(m.root)
    BY <1>1, <1>2, ElementFacts
  <2>2. <<c, "any">> \in shown
    <3>1. m.root \in Within(m.root)
      BY <1>1 DEF Within
    <3>2. c # m.root
      BY <2>1, <3>1
    <3> QED
      BY <1>2, <3>2
  <2>3. PICK x \in posts \union answers : c \in Within(x.root)
    BY <2>2 DEF LoadInv
  <2>4. x # m
    BY <2>1, <2>3
  <2> QED
    BY <2>3, <2>4
<1>3. \A x \in (posts' \union answers') : x.root \in Root
  BY DEF LoadInv
<1> QED
  BY <1>2, <1>3 DEF LoadInv

(* LoadingEnds, for roots nested to any depth, and any actions and number  *)
(* of posts: once no post of a root or of one it lies inside is under way, *)
(* its loading element is hidden, whether setLoading(false) came of an     *)
(* answer or of a failure, and in whatever order.                          *)
THEOREM LoadingAlwaysEnds ==
  WireSpec => []LoadingEnds
<1>1. WireInit => LoadInv
  BY DEF WireInit, LoadInv
<1>2. LoadInv /\ [WireNext]_wirevars => LoadInv'
  <2> SUFFICES ASSUME LoadInv, [WireNext]_wirevars
               PROVE  LoadInv'
    OBVIOUS
  <2>1. CASE \E r \in Root : click(r)
    BY <2>1, PostKeeps DEF click
  <2>2. CASE \E r \in Root : \E t \in Typed : Input(r, t)
    <3>1. PICK r \in Root, t \in Typed : Input(r, t)
      BY <2>2
    <3> DEFINE s == state'[r]
    <3>2. Post(r, <<"refresh">>, s) /\ answers' = answers
      BY <3>1 DEF Input
    <3> HIDE DEF s
    <3> QED
      BY <3>2, PostKeeps
  <2>3. CASE \E m \in posts : Respond(m)
    <3>1. PICK m \in posts : Respond(m)
      BY <2>3
    <3> DEFINE a == [id |-> m.id, root |-> m.root, action |-> m.action, state |-> handle(m.text)]
    <3>2. answers' = answers \union {a} /\ a.root = m.root
      BY <3>1 DEF Respond
    <3> HIDE DEF a
    <3>3. posts' = posts \ {m} /\ shown' = shown
      BY <3>1 DEF Respond
    <3>4. \A x \in (posts' \union answers') : x.root \in Root
      BY <3>2, <3>3 DEF LoadInv
    <3>5. ASSUME NEW c \in Root, <<c, "any">> \in shown'
          PROVE  \E x \in (posts' \union answers') : c \in Within(x.root)
      <4>1. PICK x \in posts \union answers : c \in Within(x.root)
        BY <3>3, <3>5 DEF LoadInv
      <4>2. CASE x = m
        BY <3>2, <4>1, <4>2
      <4>3. CASE x # m
        BY <3>2, <3>3, <4>1, <4>3
      <4> QED
        BY <4>2, <4>3
    <3> QED
      BY <3>4, <3>5 DEF LoadInv
  <2>4. CASE \E m \in answers, focused \in BOOLEAN : Apply(m, focused)
    <3>1. PICK m \in answers, focused \in BOOLEAN : Apply(m, focused)
      BY <2>4
    <3>2. /\ answers' = answers \ {m} /\ posts' = posts
          /\ shown' = (shown \union ({m.root} \X {"any", "increment"})) \ Elements(m.root, m.action)
      BY <3>1 DEF Apply
    <3> QED
      BY <3>2, OverKeeps
  <2>5. CASE \E m \in posts \union answers : Fail(m)
    <3>1. PICK m \in posts \union answers : Fail(m)
      BY <2>5
    <3>2. answers' = answers \ {m} /\ posts' = posts \ {m} /\ shown' = shown \ Elements(m.root, m.action)
      BY <3>1 DEF Fail
    <3> QED
      BY <3>2, OverKeeps
  <2>6. CASE UNCHANGED wirevars
    BY <2>6 DEF wirevars, LoadInv
  <2> QED
    BY <2>1, <2>2, <2>3, <2>4, <2>5, <2>6 DEF WireNext
<1>3. LoadInv => LoadingEnds
  <2> SUFFICES ASSUME LoadInv, NEW r \in Root, <<r, "any">> \in shown
               PROVE  \E a \in Root : r \in Within(a) /\ Busy(a)
    BY DEF LoadingEnds
  <2>1. PICK m \in posts \union answers : r \in Within(m.root)
    BY DEF LoadInv
  <2>2. m.root \in Root /\ Busy(m.root)
    BY DEF LoadInv, Busy
  <2> QED
    BY <2>1, <2>2
<1> QED
  BY <1>1, <1>2, <1>3, PTL DEF WireSpec
===============================================================================
