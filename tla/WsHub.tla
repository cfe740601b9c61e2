-------------------------------- MODULE WsHub --------------------------------
(***************************************************************************)
(* The WebSocket registry and the sending half of a connection             *)
(* (include/websocket_server.hpp): each connection's owner thread runs the *)
(* application's handler (handshake, Hub::add, a receive() loop that       *)
(* answers, Hub::remove, destroy) while other threads call                 *)
(* Hub::broadcast().                                                       *)
(*                                                                         *)
(* A frame leaves in one or more ::send() calls, so its parts can meet     *)
(* another thread's on the wire; Parts of them stand for any number.  A    *)
(* stalled peer is one that never reads: ::send() to it does not return.   *)
(***************************************************************************)
EXTENDS Naturals, Sequences

CONSTANTS
  Conn,          \* connections, each with an owner thread
  Caster,        \* threads that call broadcast() or broadcast_binary()
  Stalled,       \* the connections whose peer may stop reading
  Parts,         \* ::send() calls per frame
  MaxFrames,     \* bound: an owner answers until its wire has so many frames
  MaxCasts,      \* bound: the broadcasts that are made
  None

ASSUME HubAssumption ==
  /\ Parts \in Nat \ {0} /\ MaxFrames \in Nat /\ MaxCasts \in Nat
  /\ Stalled \subseteq Conn /\ Conn \intersect Caster = {}
  /\ None \notin Conn \union Caster

Thread == Conn \union Caster   \* an owner thread has its connection's name

VARIABLES
  stage,       \* how far each connection's owner is
  mutex_,      \* Hub::mutex_
  conns_,      \* Hub::conns_
  snap,        \* the connections a broadcast still has to send to
  send_mutex_, \* Connection::send_mutex_
  sending,     \* what a thread is sending: the connection and the parts sent
  wire,        \* the parts on each connection's socket
  peer,        \* "reads", "stalled" or "gone"
  casts,       \* broadcasts begun
  left,        \* history: the connections removed before a broadcast began
  touched      \* history: the connections used after they were destroyed

hub  == <<mutex_, conns_, snap, casts, left>>
io   == <<send_mutex_, sending, wire>>
vars == <<stage, mutex_, conns_, snap, send_mutex_, sending, wire, peer, casts, left, touched>>

Idle == [to |-> None, part |-> 0]

TypeOK ==
  /\ stage \in [Conn -> {"fresh", "shaken", "added", "removed", "destroyed"}]
  /\ mutex_ \in Thread \union {None}
  /\ conns_ \subseteq {c \in Conn : stage[c] = "added"}
  /\ snap \in [Caster -> SUBSET Conn] /\ left \in [Caster -> SUBSET Conn]
  /\ send_mutex_ \in [Conn -> Thread \union {None}]
  /\ sending \in [Thread -> [to : Conn \union {None}, part : 0..Parts]]
  /\ wire \in [Conn -> Seq(Thread \X (1..Parts))]
  /\ peer \in [Conn -> {"reads", "stalled", "gone"}]
  /\ casts \in 0..MaxCasts /\ touched \subseteq Conn

Init ==
  /\ stage = [c \in Conn |-> "fresh"]
  /\ mutex_ = None /\ conns_ = {}
  /\ snap = [b \in Caster |-> {}] /\ left = [b \in Caster |-> {}]
  /\ send_mutex_ = [c \in Conn |-> None]
  /\ sending = [t \in Thread |-> Idle]
  /\ wire = [c \in Conn |-> <<>>]
  /\ peer = [c \in Conn |-> "reads"]
  /\ casts = 0 /\ touched = {}

-----------------------------------------------------------------------------
(* The peers (external). *)

PeerLeaves(c) ==
  /\ peer[c] = "reads"
  /\ peer' = [peer EXCEPT ![c] = "gone"]
  /\ UNCHANGED <<stage, hub, io, touched>>

PeerStalls(c) ==
  /\ c \in Stalled /\ peer[c] = "reads"
  /\ peer' = [peer EXCEPT ![c] = "stalled"]
  /\ UNCHANGED <<stage, hub, io, touched>>

-----------------------------------------------------------------------------
(* Sending one frame: send_text(), send_binary() and send_control().       *)

(* Mutant: nothing serialises the writers. *)
MutLockSendFree(t, c) ==
  /\ sending' = [sending EXCEPT ![t] = [to |-> c, part |-> 0]]
  /\ UNCHANGED send_mutex_

(* The lock_guard. *)
LockSend(t, c) ==
  /\ send_mutex_[c] = None
  /\ send_mutex_' = [send_mutex_ EXCEPT ![c] = t]
  /\ sending' = [sending EXCEPT ![t] = [to |-> c, part |-> 0]]

(* A round of send_all()'s loop: part of the frame goes out. *)
SendPart(t) ==
  LET c == sending[t].to IN
  /\ c # None /\ sending[t].part < Parts
  /\ peer[c] = "reads"
  /\ sending' = [sending EXCEPT ![t].part = @ + 1]
  /\ wire' = [wire EXCEPT ![c] = Append(@, <<t, sending[t].part + 1>>)]
  /\ touched' = IF stage[c] = "destroyed" THEN touched \union {c} ELSE touched
  /\ UNCHANGED <<stage, hub, send_mutex_, peer>>

(* send_all() returns, having sent everything or because ::send() failed,  *)
(* and the lock goes.                                                      *)
SendReturns(t) ==
  LET c == sending[t].to IN
  /\ c # None
  /\ sending[t].part = Parts \/ peer[c] = "gone"
  /\ sending' = [sending EXCEPT ![t] = Idle]
  /\ send_mutex_' = [send_mutex_ EXCEPT ![c] = IF @ = t THEN None ELSE @]
  /\ UNCHANGED <<stage, hub, wire, peer, touched>>

-----------------------------------------------------------------------------
(* The owner thread, as the class comments tell an application to write it *)
(* (external: the handler is the application's).                           *)

(* handshake(): false if the write fails or the Origin is refused. *)
Handshake(c) ==
  /\ stage[c] = "fresh"
  /\ \/ stage' = [stage EXCEPT ![c] = "shaken"] /\ peer[c] = "reads"
     \/ stage' = [stage EXCEPT ![c] = "destroyed"]
  /\ UNCHANGED <<hub, io, peer, touched>>

(* Hub::add() *)
Add(c) ==
  /\ stage[c] = "shaken"
  /\ mutex_ = None
  /\ conns_' = conns_ \union {c}
  /\ stage' = [stage EXCEPT ![c] = "added"]
  /\ UNCHANGED <<mutex_, snap, casts, left, io, peer, touched>>

(* receive() answers a Ping, or on_input answers a message. *)
Answer(c) ==
  /\ stage[c] = "added" /\ peer[c] = "reads"
  /\ sending[c] = Idle /\ Len(wire[c]) < MaxFrames * Parts
  /\ LockSend(c, c)
  /\ UNCHANGED <<stage, hub, wire, peer, touched>>

(* Mutant: the registry keeps the connection. *)
MutRemoveKeeps(c) ==
  /\ stage[c] = "added" /\ peer[c] = "gone" /\ sending[c] = Idle /\ mutex_ = None
  /\ stage' = [stage EXCEPT ![c] = "removed"]
  /\ UNCHANGED <<hub, io, peer, touched>>

(* receive() has returned nullopt; Hub::remove(). *)
RemoveConn(c) ==
  /\ stage[c] = "added" /\ peer[c] = "gone" /\ sending[c] = Idle
  /\ mutex_ = None
  /\ conns_' = conns_ \ {c}
  /\ stage' = [stage EXCEPT ![c] = "removed"]
  /\ UNCHANGED <<mutex_, snap, casts, left, io, peer, touched>>

(* The handler returns: Connection::close(), and the Connection is gone.   *)
(* The lifetime contract asks only for remove() before; broadcasts under   *)
(* way may still hold the pointer.                                         *)
Destroy(c) ==
  /\ stage[c] = "removed"
  /\ stage' = [stage EXCEPT ![c] = "destroyed"]
  /\ UNCHANGED <<hub, io, peer, touched>>

-----------------------------------------------------------------------------
(* Hub::broadcast() and broadcast_binary().                                *)

Casting(b) == snap[b] # {} \/ sending[b] # Idle

(* snapshot() takes the lock ... *)
BeginSnapshot(b) ==
  /\ ~Casting(b) /\ mutex_ = None /\ casts < MaxCasts
  /\ mutex_' = b
  /\ casts' = casts + 1
  /\ left' = [left EXCEPT ![b] = {c \in Conn : stage[c] \in {"removed", "destroyed"}}]
  /\ UNCHANGED <<stage, conns_, snap, io, peer, touched>>

(* Mutant: the lock stays held while the frames are sent. *)
MutEndSnapshotKeepsLock(b) ==
  /\ mutex_ = b
  /\ snap' = [snap EXCEPT ![b] = conns_]
  /\ UNCHANGED <<stage, mutex_, conns_, casts, left, io, peer, touched>>

(* ... copies the registry, and lets go. *)
EndSnapshot(b) ==
  /\ mutex_ = b
  /\ snap' = [snap EXCEPT ![b] = conns_]
  /\ mutex_' = None
  /\ UNCHANGED <<stage, conns_, casts, left, io, peer, touched>>

(* The loop: the next connection of the snapshot (in address order, which  *)
(* may be any).                                                            *)
SendNext(b, c) ==
  /\ c \in snap[b] /\ sending[b] = Idle
  /\ LockSend(b, c)
  /\ snap' = [snap EXCEPT ![b] = @ \ {c}]
  /\ touched' = IF stage[c] = "destroyed" THEN touched \union {c} ELSE touched
  /\ UNCHANGED <<stage, mutex_, conns_, casts, left, wire, peer>>

-----------------------------------------------------------------------------
Send(t) == SendPart(t) \/ SendReturns(t)

Owner(c) == Handshake(c) \/ Add(c) \/ Answer(c) \/ RemoveConn(c) \/ Destroy(c)

Cast(b) == EndSnapshot(b) \/ \E c \in Conn : SendNext(b, c)

Next ==
  \/ \E c \in Conn : PeerLeaves(c) \/ PeerStalls(c) \/ Owner(c)
  \/ \E b \in Caster : BeginSnapshot(b) \/ Cast(b)
  \/ \E t \in Thread : Send(t)

Spec == Init /\ [][Next]_vars

(* Threads that can run do (WF: the bounds leave no endless contention for *)
(* a mutex).  Peers may stall, and nobody need broadcast.                  *)
FairSpec ==
  /\ Spec
  /\ \A t \in Thread : WF_vars(Send(t))
  /\ \A b \in Caster : WF_vars(Cast(b))
  /\ \A c \in Conn : WF_vars(RemoveConn(c)) /\ WF_vars(Destroy(c))

-----------------------------------------------------------------------------
(* Correctness.                                                            *)

(* Frames arrive whole: whoever sends (the owner's Pongs and answers, any  *)
(* number of broadcasts), what is on a connection's wire is one frame      *)
(* after another, except that the last may be unfinished.                  *)
FramesWhole ==
  \A c \in Conn : \A i \in 1..Len(wire[c]) :
    LET p == wire[c][i] IN
    /\ p[2] = 1 <=> (i - 1) % Parts = 0
    /\ p[2] > 1 => i > 1 /\ wire[c][i - 1] = <<p[1], p[2] - 1>>

(* "remove() returning means no broadcast will touch c afterwards": not    *)
(* one that begins afterwards.                                             *)
LaterBroadcastsSkipRemoved ==
  \A b \in Caster : snap[b] \intersect left[b] = {} /\ sending[b].to \notin left[b]

(* "Lifetime contract: remove(c) before destroying/closing c": a           *)
(* connection that was removed first is never used once it is destroyed.   *)
(* A broadcast under way when remove() returns breaks this (README, known  *)
(* divergences).                                                           *)
NotUsedAfterDestroy == touched = {}

(* A slow receiver does not "block add()/remove()": a connection whose own *)
(* peer has left is taken out of the registry, whichever other peers have  *)
(* stalled a broadcast.                                                    *)
RemoveReturns == \A c \in Conn : (stage[c] = "added" /\ peer[c] = "gone") ~> (stage[c] # "added")
=============================================================================
