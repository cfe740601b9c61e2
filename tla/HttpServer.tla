----------------------------- MODULE HttpServer -----------------------------
(***************************************************************************)
(* The blocking HTTP server (src/http_server.cpp): serve() opens the       *)
(* listening socket and runs a pool of workers, each accepting a client,   *)
(* reading its request under the limits, answering and closing; stop() may *)
(* be called from other threads at any time.                               *)
(*                                                                         *)
(* Bytes are abstract units and a request is what the code tells apart:    *)
(* how much header arrives before the blank line, whether the body is      *)
(* chunked, the content length, and whether the request parses, upgrades   *)
(* to a WebSocket or goes to the kernel.                                   *)
(***************************************************************************)
EXTENDS Integers, FiniteSets

CONSTANTS
  Worker,        \* the pool's threads
  Client,        \* connections that may be made
  Stopper,       \* threads that call stop(), once each
  MaxHeader,     \* Limits::max_header_bytes
  MaxBody,       \* Limits::max_body_bytes
  ReadTimeout,   \* Limits::read_timeout_seconds
  Upgrades,      \* do clients upgrade to a registered WebSocket endpoint?
  WsThrows,      \* may a WebSocket endpoint's handler throw?
  PeersReset,    \* may a peer reset its connection?
  EarlyStop,     \* may stop() be called before serve() is running?
  None           \* no client, no socket

ASSUME ServerAssumption ==
  /\ MaxHeader \in Nat /\ MaxBody \in Nat /\ ReadTimeout \in Nat \ {0}
  /\ {Upgrades, WsThrows, PeersReset, EarlyStop} \subseteq BOOLEAN

VARIABLES
  main,       \* where the thread in serve() is
  running_,   \* HttpServer::running_
  server_fd_, \* HttpServer::server_fd_: is the listening socket published?
  listener,   \* the listening socket itself
  closes,     \* how many times the listening socket's fd was closed
  stopper,    \* where each caller of stop() is
  pc,         \* where each worker is
  serving,    \* the client a worker is handling
  head,       \* header bytes a worker has read for its request
  need,       \* body bytes a worker still has to read (-1: headers not in yet)
  answer,     \* the status a worker is about to send
  conn,       \* the life of each client connection
  reply,      \* what each client received
  quiet,      \* seconds a worker has waited in the current recv()
  alive       \* the process has not been terminated

socket == <<server_fd_, listener, closes>>
local  == <<serving, head, need, answer>>
vars   == <<main, running_, server_fd_, listener, closes, stopper, pc, serving,
            head, need, answer, conn, reply, quiet, alive>>

Status == {"400", "411", "413", "431", "500", "app"}

ASSUME NoneAssumption ==
  None \notin Client /\ None \notin Status \union {"ws", "timeout", "refused"}

TypeOK ==
  /\ main \in {"start", "listening", "running", "published", "pool", "joined",
               "returned"}
  /\ running_ \in BOOLEAN /\ server_fd_ \in BOOLEAN
  /\ listener \in {"none", "open", "closed"} /\ closes \in 0..2
  /\ stopper \in [Stopper -> {"ready", "flagged", "took", "stopped"}]
  /\ pc \in [Worker -> {"none", "check", "accept", "read", "dispatch", "ws", "send",
                        "close", "done"}]
  /\ serving \in [Worker -> Client \union {None}]
  /\ head \in [Worker -> 0..MaxHeader] /\ need \in [Worker -> -1..MaxBody]
  /\ answer \in [Worker -> Status \union {None}]
  /\ conn \in [Client -> {"new", "queued", "open", "reset", "closed"}]
  /\ reply \in [Client -> Status \union {None, "ws", "timeout", "refused"}]
  /\ quiet \in [Worker -> 0..ReadTimeout]
  /\ alive \in BOOLEAN

Init ==
  /\ main = "start" /\ running_ = FALSE
  /\ server_fd_ = FALSE /\ listener = "none" /\ closes = 0
  /\ stopper = [s \in Stopper |-> "ready"]
  /\ pc = [w \in Worker |-> "none"] /\ serving = [w \in Worker |-> None]
  /\ head = [w \in Worker |-> 0] /\ need = [w \in Worker |-> -1]
  /\ answer = [w \in Worker |-> None]
  /\ conn = [c \in Client |-> "new"] /\ reply = [c \in Client |-> None]
  /\ quiet = [w \in Worker |-> 0]
  /\ alive = TRUE

-----------------------------------------------------------------------------
(* serve().                                                                *)

Serve(from, to) ==
  /\ main = from /\ main' = to
  /\ UNCHANGED <<stopper, local, reply, quiet, alive>>

(* socket(), bind() and listen() ... *)
Listen ==
  /\ Serve("start", "listening")
  /\ listener' = "open"
  /\ UNCHANGED <<running_, server_fd_, closes, pc, conn>>

(* ... or one of them fails and serve() returns 1. *)
SetupFails ==
  /\ Serve("start", "returned")
  /\ UNCHANGED <<running_, socket, pc, conn>>

SetRunning ==
  /\ Serve("listening", "running")
  /\ running_' = TRUE
  /\ UNCHANGED <<socket, pc, conn>>

Publish ==
  /\ Serve("running", "published")
  /\ server_fd_' = TRUE
  /\ UNCHANGED <<running_, listener, closes, pc, conn>>

SpawnPool ==
  /\ Serve("published", "pool")
  /\ pc' = [w \in Worker |-> "check"]
  /\ UNCHANGED <<running_, socket, conn>>

JoinPool ==
  /\ \A w \in Worker : pc[w] = "done"
  /\ Serve("pool", "joined")
  /\ UNCHANGED <<running_, socket, pc, conn>>

(* close(fd) of the listening socket: connections still in its backlog are *)
(* gone with it.                                                           *)
CloseListener ==
  /\ listener' = "closed"
  /\ closes' = closes + 1
  /\ conn' = [c \in Client |-> IF conn[c] = "queued" THEN "closed" ELSE conn[c]]

(* serve() closes the socket itself unless a stop() took it. *)
FinalClose ==
  /\ main = "joined" /\ main' = "returned"
  /\ IF server_fd_ THEN CloseListener ELSE UNCHANGED <<listener, closes, conn>>
  /\ server_fd_' = FALSE
  /\ reply' = [c \in Client |-> IF conn'[c] # conn[c] THEN "refused" ELSE reply[c]]
  /\ UNCHANGED <<running_, stopper, pc, local, quiet, alive>>

-----------------------------------------------------------------------------
(* stop().                                                                 *)

StopFlag(s) ==
  /\ stopper[s] = "ready"
  /\ EarlyStop \/ main \notin {"start", "listening"}
  /\ running_' = FALSE
  /\ stopper' = [stopper EXCEPT ![s] = "flagged"]
  /\ UNCHANGED <<main, socket, pc, local, conn, reply, quiet, alive>>

(* Mutant: the fd is read but not taken. *)
MutStopTakeByLoad(s) ==
  /\ stopper[s] = "flagged"
  /\ stopper' = [stopper EXCEPT ![s] = IF server_fd_ THEN "took" ELSE "stopped"]
  /\ UNCHANGED <<main, running_, socket, pc, local, conn, reply, quiet, alive>>

(* server_fd_.exchange(-1): only one caller gets the socket. *)
StopTake(s) ==
  /\ stopper[s] = "flagged"
  /\ server_fd_' = FALSE
  /\ stopper' = [stopper EXCEPT ![s] = IF server_fd_ THEN "took" ELSE "stopped"]
  /\ UNCHANGED <<main, running_, listener, closes, pc, local, conn, reply, quiet, alive>>

(* Mutant: the socket is not closed. *)
MutStopNoClose(s) ==
  /\ stopper[s] = "took"
  /\ stopper' = [stopper EXCEPT ![s] = "stopped"]
  /\ UNCHANGED <<main, running_, socket, pc, local, conn, reply, quiet, alive>>

(* shutdown() and close(): every blocked accept() fails. *)
StopClose(s) ==
  /\ stopper[s] = "took"
  /\ CloseListener
  /\ stopper' = [stopper EXCEPT ![s] = "stopped"]
  /\ reply' = [c \in Client |-> IF conn'[c] # conn[c] THEN "refused" ELSE reply[c]]
  /\ UNCHANGED <<main, running_, server_fd_, pc, local, quiet, alive>>

-----------------------------------------------------------------------------
(* The peers (external).                                                   *)

Connect(c) ==
  /\ conn[c] = "new" /\ listener = "open"
  /\ conn' = [conn EXCEPT ![c] = "queued"]
  /\ UNCHANGED <<main, running_, socket, stopper, pc, local, reply, quiet, alive>>

PeerResets(c) ==
  /\ PeersReset /\ conn[c] = "open"
  /\ conn' = [conn EXCEPT ![c] = "reset"]
  /\ UNCHANGED <<main, running_, socket, stopper, pc, local, reply, quiet, alive>>

(* A second passes; a recv() that has waited read_timeout_seconds returns  *)
(* first.                                                                  *)
Tick ==
  /\ \E w \in Worker : pc[w] = "read"
  /\ \A w \in Worker : pc[w] = "read" => quiet[w] < ReadTimeout
  /\ quiet' = [w \in Worker |-> IF pc[w] = "read" THEN quiet[w] + 1 ELSE 0]
  /\ UNCHANGED <<main, running_, socket, stopper, pc, local, conn, reply, alive>>

-----------------------------------------------------------------------------
(* accept_loop().                                                          *)

At(w, from, to) ==
  /\ alive
  /\ pc[w] = from
  /\ pc' = [pc EXCEPT ![w] = to]
  /\ UNCHANGED <<main, running_, socket, stopper>>

(* while (running_) *)
Check(w) ==
  /\ At(w, "check", IF running_ THEN "accept" ELSE "done")
  /\ UNCHANGED <<local, conn, reply, quiet, alive>>

(* accept() returns a client, and read_request() starts on it. *)
Accept(w, c) ==
  /\ listener = "open" /\ conn[c] = "queued"
  /\ At(w, "accept", "read")
  /\ conn' = [conn EXCEPT ![c] = "open"]
  /\ serving' = [serving EXCEPT ![w] = c]
  /\ UNCHANGED <<head, need, answer, reply, quiet, alive>>

(* accept() fails on the closed socket; a stopped worker leaves the loop. *)
AcceptFails(w) ==
  /\ listener = "closed"
  /\ At(w, "accept", IF running_ THEN "check" ELSE "done")
  /\ UNCHANGED <<local, conn, reply, quiet, alive>>

-----------------------------------------------------------------------------
(* read_request(): each action is one recv() and what follows it.          *)

Reading(w) == pc[w] = "read" /\ conn[serving[w]] = "open"

(* read_request() returns: its locals are gone. *)
ReadReturns(w, to) ==
  /\ At(w, "read", to)
  /\ head' = [head EXCEPT ![w] = 0] /\ need' = [need EXCEPT ![w] = -1]
  /\ quiet' = [quiet EXCEPT ![w] = 0]
  /\ UNCHANGED <<serving, conn, alive>>

(* Mutant: a refused request is not answered. *)
MutRefuseSilently(w, status) == ReadReturns(w, "close") /\ UNCHANGED <<answer, reply>>

(* The request is refused with a status, or complete, or still incomplete. *)
Refuse(w, status) ==
  /\ ReadReturns(w, "send")
  /\ answer' = [answer EXCEPT ![w] = status]
  /\ UNCHANGED reply

ReadOk(w) == ReadReturns(w, "dispatch") /\ UNCHANGED <<answer, reply>>

KeepReading(w, h, n) ==
  /\ At(w, "read", "read")
  /\ head' = [head EXCEPT ![w] = h] /\ need' = [need EXCEPT ![w] = n]
  /\ quiet' = [quiet EXCEPT ![w] = 0]
  /\ UNCHANGED <<serving, answer, conn, reply, alive>>

(* More header, and no blank line yet. *)
RecvHeader(w) ==
  /\ Reading(w) /\ need[w] = -1
  /\ \/ head[w] + 1 > MaxHeader /\ Refuse(w, "431")
     \/ head[w] + 1 <= MaxHeader /\ KeepReading(w, head[w] + 1, -1)

(* The blank line is in: the head is judged, first by its size, then by    *)
(* Transfer-Encoding, then by Content-Length; `here` body bytes came with  *)
(* it.                                                                     *)
RecvBlankLine(w) ==
  \E more \in 0..1, chunked \in BOOLEAN, length \in 0..(MaxBody + 1) :
  \E here \in 0..length :
    LET size == head[w] + more
    IN /\ Reading(w) /\ need[w] = -1
       /\ \/ size > MaxHeader /\ Refuse(w, "431")
          \/ size <= MaxHeader /\ chunked /\ Refuse(w, "411")
          \/ size <= MaxHeader /\ ~chunked /\ length > MaxBody /\ Refuse(w, "413")
          \/ size <= MaxHeader /\ ~chunked /\ length <= MaxBody
             /\ IF here = length THEN ReadOk(w) ELSE KeepReading(w, size, length - here)

RecvBody(w) ==
  /\ Reading(w) /\ need[w] > 0
  /\ \/ need[w] = 1 /\ ReadOk(w)
     \/ need[w] > 1 /\ KeepReading(w, head[w], need[w] - 1)

(* recv() returns 0 or an error: the peer is gone, or SO_RCVTIMEO expired. *)
RecvEnds(w) ==
  /\ pc[w] = "read"
  /\ conn[serving[w]] = "reset" \/ quiet[w] = ReadTimeout
  /\ ReadReturns(w, "close")
  /\ reply' = [reply EXCEPT ![serving[w]] =
                 IF conn[serving[w]] = "reset" THEN @ ELSE "timeout"]
  /\ UNCHANGED answer

Recv(w) == RecvHeader(w) \/ RecvBlankLine(w) \/ RecvBody(w) \/ RecvEnds(w)

-----------------------------------------------------------------------------
(* The rest of handle_client().                                            *)

(* parse_http_request() fails, or the kernel answers, or it throws. *)
ParsedOr400 == {"400", "app", "500"}

Dispatch(w) ==
  /\ At(w, "dispatch", "send")
  /\ \E status \in ParsedOr400 : answer' = [answer EXCEPT ![w] = status]
  /\ UNCHANGED <<serving, head, need, conn, reply, quiet, alive>>

(* An upgrade to a registered endpoint: the socket, blocking again, is the *)
(* endpoint handler's until it returns.                                    *)
Upgrade(w) ==
  /\ Upgrades
  /\ At(w, "dispatch", "ws")
  /\ reply' = [reply EXCEPT ![serving[w]] = "ws"]
  /\ UNCHANGED <<local, conn, quiet, alive>>

(* The worker lets the client go. *)
CloseClient(w) ==
  /\ conn' = [conn EXCEPT ![serving[w]] = "closed"]
  /\ serving' = [serving EXCEPT ![w] = None]
  /\ answer' = [answer EXCEPT ![w] = None]
  /\ UNCHANGED <<head, need, quiet>>

(* The endpoint (external) returns, socket closed, when its peer is gone.  *)
WsReturns(w) ==
  /\ pc[w] = "ws"
  /\ conn[serving[w]] = "reset"
  /\ At(w, "ws", "check")
  /\ CloseClient(w)
  /\ UNCHANGED <<reply, alive>>

(* The endpoint throws: nothing in the worker thread catches it. *)
WsHandlerThrows(w) ==
  /\ WsThrows
  /\ At(w, "ws", "done")
  /\ alive' = FALSE
  /\ UNCHANGED <<local, conn, reply, quiet>>

(* send_all() and close(). *)
Send(w) ==
  /\ At(w, "send", "check")
  /\ CloseClient(w)
  /\ reply' = [reply EXCEPT ![serving[w]] =
                 IF conn[serving[w]] = "open" THEN answer[w] ELSE @]
  /\ UNCHANGED alive

(* send() without MSG_NOSIGNAL to a peer that is gone: SIGPIPE. *)
SendSignals(w) ==
  /\ pc[w] = "send"
  /\ conn[serving[w]] = "reset"
  /\ At(w, "send", "done")
  /\ alive' = FALSE
  /\ UNCHANGED <<local, conn, reply, quiet>>

(* Nothing to answer: close. *)
Close(w) ==
  /\ At(w, "close", "check")
  /\ CloseClient(w)
  /\ UNCHANGED <<reply, alive>>

Handle(w) == Dispatch(w) \/ Upgrade(w) \/ WsReturns(w) \/ Send(w) \/ SendSignals(w) \/ Close(w)

Loop(w) == Check(w) \/ AcceptFails(w) \/ \E c \in Client : Accept(w, c)

ServeStep == Listen \/ SetupFails \/ SetRunning \/ Publish \/ SpawnPool
             \/ JoinPool \/ FinalClose

StopStep(s) == StopTake(s) \/ StopClose(s)

Next ==
  /\ alive
  /\ \/ ServeStep \/ Tick
     \/ \E s \in Stopper : StopFlag(s) \/ StopStep(s)
     \/ \E c \in Client : Connect(c) \/ PeerResets(c)
     \/ \E w \in Worker : Loop(w) \/ Recv(w) \/ Handle(w) \/ WsHandlerThrows(w)

Spec == Init /\ [][Next]_vars

(* Threads are scheduled and time passes. Peers owe nothing, and neither   *)
(* do the steps that wait for someone else: kernel_->handle() and an       *)
(* endpoint's handler are the application's and need not return, and       *)
(* send_all() blocks without a timeout on a peer that does not read.       *)
Fairness ==
  /\ WF_vars(alive /\ ServeStep) /\ WF_vars(alive /\ Tick)
  /\ \A s \in Stopper : WF_vars(alive /\ StopStep(s))
  /\ \A w \in Worker : WF_vars(Loop(w)) /\ WF_vars(RecvEnds(w)) /\ WF_vars(Close(w))

FairSpec == Spec /\ Fairness

-----------------------------------------------------------------------------
(* Correctness.                                                            *)

(* No descriptor leaks and none is closed twice or under a thread that     *)
(* uses it: a client's socket is open exactly while one worker is handling *)
(* that client, whichever way the request ends; the listening socket is    *)
(* closed at most once, however many threads call stop() and race with     *)
(* serve()'s own clean-up, and once when all of them have returned.        *)
DescriptorsOwned ==
  /\ alive => \A c \in Client :
       conn[c] \in {"open", "reset"} <=>
         Cardinality({w \in Worker : serving[w] = c /\ pc[w] # "done"}) = 1
  /\ closes <= 1
  /\ main = "returned" /\ listener # "none"
     /\ (\A s \in Stopper : stopper[s] \in {"ready", "stopped"}) => closes = 1

(* Once the stop() calls of a running server have returned no client is    *)
(* accepted, even by a worker that had already passed its check of         *)
(* running_ and even if stop() came before the socket was published.       *)
NoAcceptAfterStop ==
  [][\A c \in Client :
       conn[c] = "queued" /\ conn'[c] = "open"
         => \/ \A s \in Stopper : stopper[s] = "ready"
            \/ \E s \in Stopper : stopper[s] \in {"flagged", "took"}]_vars

(* Every client that stays connected is told how its request ended: when   *)
(* its socket is closed it has an answer, or the read timed out, or the    *)
(* server went away before it was accepted.                                *)
EveryClientAnswered ==
  [][\A c \in Client :
       conn[c] \in {"queued", "open"} /\ conn'[c] = "closed" => reply'[c] # None]_vars

(* Unless the process is ended, or a worker is held for good by the        *)
(* application (a kernel or an endpoint that does not return) or by a peer *)
(* that does not read its response, ...                                    *)
Unhindered ==
  []alive /\ \A w \in Worker : []<>(pc[w] \notin {"dispatch", "ws", "send"})

(* ... stop() does what its comment says: "break the accept loop so        *)
(* serve() returns", whatever the workers were doing when it came. In the  *)
(* cases left out it does not: serve() waits in join() for that worker.    *)
StopReturns == Unhindered => \A s \in Stopper : stopper[s] = "stopped" ~> main = "returned"
=============================================================================
