------------------------------- MODULE WsProofs ------------------------------
(***************************************************************************)
(* Theorems about a WebSocket connection's two halves.                     *)
(*                                                                         *)
(* Sending, WsHub: for any connections, broadcasters and number of         *)
(* ::send() calls per frame, frames are never mixed on a wire, and a       *)
(* broadcast never reaches a connection removed before it began.           *)
(*                                                                         *)
(* Receiving, WsReceive: for any frames a peer sends and any way the       *)
(* network cuts them up, receive() returns the messages they make up, and  *)
(* buffers no more than the cap allows; and the codec reads back what it   *)
(* wrote.                                                                  *)
(***************************************************************************)
EXTENDS WsHub, MCWsReceive, FiniteSetTheorems, SequenceTheorems, WellFoundedInduction, TLAPS

(* send_mutex_ and sending agree: a thread that is sending to a connection *)
(* holds that connection's mutex, and a held mutex has a thread sending.   *)
LockInv ==
  /\ \A t \in Thread :
       /\ sending[t].to # None => send_mutex_[sending[t].to] = t
       /\ sending[t].to = None => sending[t] = Idle
  /\ \A c \in Conn : send_mutex_[c] # None => sending[send_mutex_[c]].to = c

(* What is on the wire of a connection whose peer has not gone: whole      *)
(* frames, then the parts that the mutex's holder has sent so far.  (Once  *)
(* the peer has gone a frame may stay cut off, and nothing follows it.)    *)
WireAt(c) ==
  LET w == wire[c]
      h == send_mutex_[c] IN
  /\ h = None => Len(w) % Parts = 0
  /\ h # None => /\ Len(w) % Parts = sending[h].part % Parts
                 /\ sending[h].part > 0 => Len(w) > 0 /\ w[Len(w)] = <<h, sending[h].part>>

WireInv == \A c \in Conn : peer[c] # "gone" => WireAt(c)

(* The connections a broadcast found removed stay removed. *)
LeftInv == \A b \in Caster : \A c \in left[b] : stage[c] \in {"removed", "destroyed"}

-----------------------------------------------------------------------------
(* The place of a part in its frame. *)
LEMMA ModUnique ==
  ASSUME NEW P \in Nat \ {0}, NEW q \in Nat, NEW k \in 0..(P - 1)
  PROVE  (P * q + k) % P = k
OBVIOUS

(* A wire that is k parts into a frame is one more into it after a part. *)
LEMMA ModStep ==
  ASSUME NEW P \in Nat \ {0}, NEW n \in Nat, NEW k \in 0..(P - 1), n % P = k % P
  PROVE  /\ n % P = 0 <=> k = 0
         /\ (n + 1) % P = (k + 1) % P
<1>1. k % P = k
  OBVIOUS
<1>2. n % P = 0 <=> k = 0
  BY <1>1
<1>3. PICK q \in Nat : n = P * q + k
  <2>1. n = P * (n \div P) + (n % P) /\ n \div P \in Nat
    OBVIOUS
  <2> QED BY <1>1, <2>1
<1>4. CASE k + 1 < P
  <2>1. (P * q + (k + 1)) % P = k + 1
    BY <1>4, ModUnique
  <2>2. (k + 1) % P = k + 1
    BY <1>4
  <2>3. n + 1 = P * q + (k + 1)
    BY <1>3
  <2> QED BY <2>1, <2>2, <2>3
<1>5. CASE k + 1 = P
  <2>1. (P * (q + 1) + 0) % P = 0
    BY ModUnique
  <2>2. n + 1 = P * (q + 1) + 0
    BY <1>3, <1>5
  <2>3. P % P = 0
    OBVIOUS
  <2> QED BY <1>5, <2>1, <2>2, <2>3
<1> QED BY <1>2, <1>4, <1>5

(* A frame ends where the next one begins. *)
LEMMA ModEnds ==
  ASSUME NEW P \in Nat \ {0}
  PROVE  P % P = 0 /\ 0 % P = 0
OBVIOUS

(* Nobody's name is None. *)
LEMMA NoneIsNobody == None \notin Conn /\ None \notin Caster /\ None \notin Thread
BY HubAssumption DEF Thread

-----------------------------------------------------------------------------
(***************************************************************************)
(* Every state has the type of the code's variables.                       *)
(***************************************************************************)
THEOREM HubTypeCorrect == Spec => []TypeOK
<1> USE HubAssumption DEF Thread, Idle
<1>1. Init => TypeOK
  BY DEF Init, TypeOK
<1>2. TypeOK /\ [Next]_vars => TypeOK'
  <2> SUFFICES ASSUME TypeOK, [Next]_vars PROVE TypeOK'
    OBVIOUS
  <2>1. ASSUME NEW c \in Conn, PeerLeaves(c) PROVE TypeOK'
    BY <2>1 DEF PeerLeaves, TypeOK, hub, io
  <2>2. ASSUME NEW c \in Conn, PeerStalls(c) PROVE TypeOK'
    BY <2>2 DEF PeerStalls, TypeOK, hub, io
  <2>3. ASSUME NEW c \in Conn, Handshake(c) PROVE TypeOK'
    BY <2>3 DEF Handshake, TypeOK, hub, io
  <2>4. ASSUME NEW c \in Conn, Add(c) PROVE TypeOK'
    BY <2>4 DEF Add, TypeOK, hub, io
  <2>5. ASSUME NEW c \in Conn, Answer(c) PROVE TypeOK'
    BY <2>5 DEF Answer, LockSend, TypeOK, hub, io
  <2>6. ASSUME NEW c \in Conn, RemoveConn(c) PROVE TypeOK'
    BY <2>6 DEF RemoveConn, TypeOK, hub, io
  <2>7. ASSUME NEW c \in Conn, Destroy(c) PROVE TypeOK'
    BY <2>7 DEF Destroy, TypeOK, hub, io
  <2>8. ASSUME NEW b \in Caster, BeginSnapshot(b) PROVE TypeOK'
    BY <2>8 DEF BeginSnapshot, TypeOK, hub, io
  <2>9. ASSUME NEW b \in Caster, EndSnapshot(b) PROVE TypeOK'
    BY <2>9 DEF EndSnapshot, TypeOK, hub, io
  <2>10. ASSUME NEW b \in Caster, NEW c \in Conn, SendNext(b, c) PROVE TypeOK'
    BY <2>10 DEF SendNext, LockSend, TypeOK, hub, io
  <2>11. ASSUME NEW t \in Thread, SendPart(t) PROVE TypeOK'
    <3> DEFINE c == sending[t].to
    <3>1. c \in Conn /\ sending[t].part + 1 \in 1..Parts
      BY <2>11 DEF SendPart, TypeOK
    <3>2. wire' \in [Conn -> Seq(Thread \X (1..Parts))]
      BY <2>11, <3>1 DEF SendPart, TypeOK
    <3>3. sending' \in [Thread -> [to : Conn \union {None}, part : 0..Parts]]
      <4>1. sending' = [sending EXCEPT ![t] = [sending[t] EXCEPT !.part = @ + 1]]
        BY <2>11 DEF SendPart
      <4>2. sending[t] \in [to : Conn \union {None}, part : 0..Parts]
        BY DEF TypeOK
      <4>3. [sending[t] EXCEPT !.part = @ + 1] \in [to : Conn \union {None}, part : 0..Parts]
        BY <4>2, <3>1
      <4> QED BY <4>1, <4>3 DEF TypeOK
    <3>4. touched' \subseteq Conn
      BY <2>11, <3>1 DEF SendPart, TypeOK
    <3> HIDE DEF c
    <3> QED BY <2>11, <3>2, <3>3, <3>4 DEF SendPart, TypeOK, hub
  <2>12. ASSUME NEW t \in Thread, SendReturns(t) PROVE TypeOK'
    BY <2>12 DEF SendReturns, TypeOK, hub, io
  <2>13. CASE UNCHANGED vars
    BY <2>13 DEF vars, TypeOK
  <2> QED
    BY <2>1, <2>2, <2>3, <2>4, <2>5, <2>6, <2>7, <2>8, <2>9, <2>10, <2>11, <2>12, <2>13
    DEF Next, Owner, Cast, Send
<1> QED BY <1>1, <1>2, PTL DEF Spec

-----------------------------------------------------------------------------
(***************************************************************************)
(* send_text(), send_binary() and send_control() exclude one another on a  *)
(* connection: only the holder of send_mutex_ is inside send_all().        *)
(***************************************************************************)
THEOREM SendersExclude == Spec => []LockInv
<1> USE HubAssumption DEF Thread, Idle
<1>1. Init => LockInv
  BY DEF Init, LockInv
<1>2. TypeOK /\ LockInv /\ [Next]_vars => LockInv'
  <2> SUFFICES ASSUME TypeOK, LockInv, [Next]_vars PROVE LockInv'
    OBVIOUS
  <2>1. CASE UNCHANGED <<send_mutex_, sending>>
    BY <2>1 DEF LockInv
  <2>2. ASSUME NEW t \in Thread, NEW c \in Conn, LockSend(t, c), sending[t] = Idle
        PROVE  LockInv'
    BY <2>2 DEF LockSend, LockInv, TypeOK
  <2>3. ASSUME NEW t \in Thread, SendPart(t) PROVE LockInv'
    BY <2>3, SMTT(60) DEF SendPart, LockInv, TypeOK
  <2>4. ASSUME NEW t \in Thread, SendReturns(t) PROVE LockInv'
    BY <2>4 DEF SendReturns, LockInv, TypeOK
  <2>5. ASSUME NEW c \in Conn, PeerLeaves(c) \/ PeerStalls(c) \/ Owner(c)
        PROVE  LockInv'
    BY <2>1, <2>2, <2>5
    DEF PeerLeaves, PeerStalls, Owner, Handshake, Add, Answer, RemoveConn, Destroy, io
  <2>6. ASSUME NEW b \in Caster, BeginSnapshot(b) \/ Cast(b) PROVE LockInv'
    BY <2>1, <2>2, <2>6 DEF BeginSnapshot, Cast, EndSnapshot, SendNext, io
  <2> QED BY <2>1, <2>3, <2>4, <2>5, <2>6 DEF Next, Send, vars
<1> QED BY <1>1, <1>2, HubTypeCorrect, PTL DEF Spec

(* Another part, from the holder of the mutex and while the peer reads,    *)
(* goes on with the frame the wire ends with.                              *)
LEMMA SendPartKeeps ==
  ASSUME TypeOK, LockInv, WireInv, FramesWhole,
         NEW t \in Thread, SendPart(t)
  PROVE  WireInv' /\ FramesWhole'
<1> USE HubAssumption
<1> DEFINE c == sending[t].to
           k == sending[t].part
           w == wire[c]
<1>1. c \in Conn /\ k \in 0..(Parts - 1) /\ send_mutex_[c] = t /\ t # None
  BY NoneIsNobody DEF SendPart, TypeOK, LockInv
<1>2. peer[c] # "gone" /\ w \in Seq(Thread \X (1..Parts))
  BY <1>1 DEF SendPart, TypeOK
<1>3. Len(w) \in Nat
  BY <1>2
<1>4. Len(w) % Parts = k % Parts /\ (k > 0 => Len(w) > 0 /\ w[Len(w)] = <<t, k>>)
  BY <1>1, <1>2 DEF WireInv, WireAt
<1>5. /\ Len(w) % Parts = 0 <=> k = 0
      /\ (Len(w) + 1) % Parts = (k + 1) % Parts
  BY <1>1, <1>3, <1>4, ModStep
<1>6. /\ wire' = [wire EXCEPT ![c] = Append(w, <<t, k + 1>>)]
      /\ sending' = [sending EXCEPT ![t].part = k + 1]
      /\ UNCHANGED <<send_mutex_, peer>>
  BY DEF SendPart
<1>7. /\ wire'[c] = Append(w, <<t, k + 1>>)
      /\ \A d \in Conn \ {c} : wire'[d] = wire[d]
  BY <1>1, <1>6 DEF TypeOK
<1>8. /\ Len(wire'[c]) = Len(w) + 1
      /\ wire'[c][Len(w) + 1] = <<t, k + 1>>
      /\ \A i \in 1..Len(w) : wire'[c][i] = w[i]
  <2>1. \A q \in Seq(Thread \X (1..Parts)) : \A e :
          /\ Len(Append(q, e)) = Len(q) + 1 /\ Append(q, e)[Len(q) + 1] = e
          /\ \A i \in 1..Len(q) : Append(q, e)[i] = q[i]
    OBVIOUS
  <2> HIDE DEF w, k
  <2> QED
    BY <1>2, <1>7, <2>1
<1>9. /\ sending'[t].part = k + 1
      /\ \A u \in Thread \ {t} : sending'[u] = sending[u]
  BY <1>6 DEF TypeOK
<1> HIDE DEF c, k, w
<1>10. WireInv'
  <2> SUFFICES ASSUME NEW d \in Conn, peer[d] # "gone" PROVE WireAt(d)'
    BY <1>6 DEF WireInv
  <2>1. CASE d = c
    <3>1. send_mutex_'[d] = t /\ sending'[t].part = k + 1 /\ Len(wire'[d]) = Len(w) + 1
      BY <2>1, <1>1, <1>6, <1>8, <1>9
    <3>2. wire'[d][Len(w) + 1] = <<t, k + 1>>
      BY <2>1, <1>8
    <3> QED BY <3>1, <3>2, <1>1, <1>3, <1>5 DEF WireAt
  <2>2. CASE d # c
    <3>1. WireAt(d)
      BY DEF WireInv
    <3>2. wire'[d] = wire[d] /\ send_mutex_'[d] = send_mutex_[d]
      BY <2>2, <1>6, <1>7
    <3>3. send_mutex_[d] # None => sending'[send_mutex_[d]] = sending[send_mutex_[d]]
      BY <2>2, <1>1, <1>9 DEF LockInv, TypeOK
    <3> QED BY <3>1, <3>2, <3>3 DEF WireAt
  <2> QED BY <2>1, <2>2
<1>11. FramesWhole'
  <2> SUFFICES ASSUME NEW d \in Conn, NEW i \in 1..Len(wire'[d])
               PROVE  LET p == wire'[d][i] IN
                      /\ p[2] = 1 <=> (i - 1) % Parts = 0
                      /\ p[2] > 1 => i > 1 /\ wire'[d][i - 1] = <<p[1], p[2] - 1>>
    BY DEF FramesWhole
  <2>1. CASE d # c
    <3>1. wire'[d] = wire[d]
      BY <2>1, <1>7
    <3> QED BY <3>1 DEF FramesWhole
  <2>2. CASE d = c /\ i \in 1..Len(w)
    <3>1. wire'[d][i] = w[i] /\ (i > 1 => wire'[d][i - 1] = w[i - 1])
      BY <2>2, <1>3, <1>8
    <3>2. /\ w[i][2] = 1 <=> (i - 1) % Parts = 0
          /\ w[i][2] > 1 => i > 1 /\ w[i - 1] = <<w[i][1], w[i][2] - 1>>
      BY <2>2, <1>1 DEF FramesWhole, w
    <3> QED BY <3>1, <3>2
  <2>3. CASE d = c /\ i = Len(w) + 1
    <3>1. wire'[d][i] = <<t, k + 1>> /\ i - 1 = Len(w)
      BY <2>3, <1>3, <1>8
    <3>2. k > 0 => i > 1 /\ wire'[d][i - 1] = <<t, k>>
      BY <2>3, <1>3, <1>4, <1>8
    <3>3. wire'[d][i][1] = t /\ wire'[d][i][2] = k + 1
      BY <3>1
    <3>4. k + 1 = 1 <=> (i - 1) % Parts = 0
      BY <3>1, <1>1, <1>5
    <3>5. k + 1 > 1 => i > 1 /\ wire'[d][i - 1] = <<t, k + 1 - 1>>
      BY <3>2, <1>1
    <3> QED BY <3>3, <3>4, <3>5, <1>1
  <2> QED BY <2>1, <2>2, <2>3, <1>3, <1>8
<1> QED BY <1>10, <1>11

(***************************************************************************)
(* Frames are never mixed: however the owner's answers and any number of   *)
(* broadcasts interleave, and however many ::send() calls a frame takes, a *)
(* wire holds one frame after another and the last may be unfinished.      *)
(* WireInv, which ties the unfinished frame to the holder of send_mutex_,  *)
(* is what makes it inductive.                                             *)
(***************************************************************************)
THEOREM FramesNeverMix == Spec => []FramesWhole
<1> USE HubAssumption DEF Thread, Idle
<1>1. Init => WireInv /\ FramesWhole
  <2> SUFFICES ASSUME Init PROVE WireInv /\ FramesWhole
    OBVIOUS
  <2>1. \A c \in Conn : wire[c] = <<>> /\ Len(wire[c]) = 0 /\ send_mutex_[c] = None
    BY DEF Init
  <2>2. WireInv
    BY <2>1, ModEnds DEF WireInv, WireAt
  <2>3. ASSUME NEW c \in Conn, NEW i \in 1..Len(wire[c]) PROVE FALSE
    <3>1. Len(wire[c]) = 0 /\ i \in 1..Len(wire[c])
      BY <2>1
    <3> QED BY <3>1
  <2> QED BY <2>2, <2>3 DEF FramesWhole
<1>2. TypeOK /\ LockInv /\ WireInv /\ FramesWhole /\ [Next]_vars => (WireInv /\ FramesWhole)'
  <2> SUFFICES ASSUME TypeOK, LockInv, WireInv, FramesWhole, [Next]_vars
               PROVE  (WireInv /\ FramesWhole)'
    OBVIOUS
  <2> DEFINE PeersKept == \A c \in Conn : peer'[c] # "gone" => peer[c] # "gone"
  <2>1. CASE UNCHANGED <<send_mutex_, sending, wire>> /\ PeersKept
    BY <2>1 DEF WireInv, WireAt, FramesWhole
  <2>2. ASSUME NEW t \in Thread, NEW c \in Conn, LockSend(t, c), sending[t] = Idle,
               UNCHANGED <<wire, peer>>
        PROVE  (WireInv /\ FramesWhole)'
    <3>1. FramesWhole'
      BY <2>2 DEF FramesWhole
    <3>2. ASSUME NEW d \in Conn, peer[d] # "gone" PROVE WireAt(d)'
      <4>1. WireAt(d)
        BY <3>2 DEF WireInv
      <4>2. CASE d = c
        <5>1. send_mutex_'[d] = t /\ sending'[t].part = 0 /\ t # None
          BY <2>2, <4>2, NoneIsNobody DEF LockSend, TypeOK
        <5> QED BY <5>1, <4>1, <4>2, <2>2, ModEnds DEF WireAt, LockSend
      <4>3. CASE d # c
        <5>0. send_mutex_[d] # t
          BY <2>2, NoneIsNobody DEF LockInv
        <5>1. send_mutex_'[d] = send_mutex_[d] /\ send_mutex_[d] # t
          BY <2>2, <4>3, <5>0 DEF LockSend, TypeOK
        <5>2. send_mutex_[d] # None => sending'[send_mutex_[d]] = sending[send_mutex_[d]]
          BY <2>2, <5>1 DEF LockSend, TypeOK
        <5> QED BY <5>1, <5>2, <4>1, <2>2 DEF WireAt
      <4> QED BY <4>2, <4>3
    <3> QED BY <3>1, <3>2, <2>2 DEF WireInv
  <2>3. ASSUME NEW t \in Thread, SendPart(t) PROVE (WireInv /\ FramesWhole)'
    BY <2>3, SendPartKeeps
  <2>4. ASSUME NEW t \in Thread, SendReturns(t) PROVE (WireInv /\ FramesWhole)'
    <3> DEFINE c == sending[t].to
    <3>1. c \in Conn /\ send_mutex_[c] = t /\ t # None
      BY <2>4, NoneIsNobody DEF SendReturns, TypeOK, LockInv
    <3>2. FramesWhole'
      BY <2>4 DEF SendReturns, FramesWhole
    <3>3. ASSUME NEW d \in Conn, peer[d] # "gone" PROVE WireAt(d)'
      <4>1. WireAt(d)
        BY <3>3 DEF WireInv
      <4>2. CASE d = c
        <5>1. send_mutex_'[d] = None /\ wire' = wire /\ sending[t].part = Parts
          BY <2>4, <3>1, <3>3, <4>2 DEF SendReturns, TypeOK
        <5> QED BY <5>1, <4>1, <4>2, <3>1, ModEnds DEF WireAt
      <4>3. CASE d # c
        <5>1. send_mutex_'[d] = send_mutex_[d] /\ send_mutex_[d] # t
          BY <2>4, <3>1, <4>3 DEF SendReturns, LockInv, TypeOK
        <5>2. send_mutex_[d] # None => sending'[send_mutex_[d]] = sending[send_mutex_[d]]
          BY <2>4, <5>1 DEF SendReturns, TypeOK
        <5> QED BY <5>1, <5>2, <4>1, <2>4 DEF WireAt, SendReturns
      <4> QED BY <4>2, <4>3
    <3> QED BY <3>2, <3>3, <2>4 DEF WireInv, SendReturns
  <2>5. ASSUME NEW c \in Conn, PeerLeaves(c) \/ PeerStalls(c) \/ Owner(c)
        PROVE  (WireInv /\ FramesWhole)'
    <3>1. CASE PeerLeaves(c) \/ PeerStalls(c)
      BY <3>1, <2>1 DEF PeerLeaves, PeerStalls, io, TypeOK
    <3>2. CASE Answer(c)
      BY <3>2, <2>2 DEF Answer
    <3>3. CASE Handshake(c) \/ Add(c) \/ RemoveConn(c) \/ Destroy(c)
      BY <3>3, <2>1 DEF Handshake, Add, RemoveConn, Destroy, io
    <3> QED BY <2>5, <3>1, <3>2, <3>3 DEF Owner
  <2>6. ASSUME NEW b \in Caster, BeginSnapshot(b) \/ Cast(b) PROVE (WireInv /\ FramesWhole)'
    BY <2>1, <2>2, <2>6 DEF BeginSnapshot, Cast, EndSnapshot, SendNext, io
  <2> QED BY <2>1, <2>3, <2>4, <2>5, <2>6 DEF Next, Send, vars
<1> QED BY <1>1, <1>2, HubTypeCorrect, SendersExclude, PTL DEF Spec

-----------------------------------------------------------------------------
(***************************************************************************)
(* A connection that Hub::remove() took out before a broadcast began is    *)
(* neither in that broadcast's snapshot nor sent to by it.  LeftInv and    *)
(* TypeOK (the registry holds only connections that are added) make it     *)
(* inductive.                                                              *)
(***************************************************************************)
THEOREM BroadcastsSkipRemoved == Spec => []LaterBroadcastsSkipRemoved
<1> USE HubAssumption DEF Thread, Idle
<1> DEFINE Inv == LeftInv /\ LaterBroadcastsSkipRemoved
<1>1. Init => Inv
  BY DEF Init, LeftInv, LaterBroadcastsSkipRemoved
<1>2. TypeOK /\ Inv /\ [Next]_vars => Inv'
  <2> SUFFICES ASSUME TypeOK, Inv, [Next]_vars PROVE Inv'
    OBVIOUS
  <2> USE DEF TypeOK, LeftInv, LaterBroadcastsSkipRemoved
  <2>1. ASSUME NEW c \in Conn, PeerLeaves(c) \/ PeerStalls(c) PROVE Inv'
    BY <2>1 DEF PeerLeaves, PeerStalls, hub, io
  <2>2. ASSUME NEW c \in Conn, Handshake(c) PROVE Inv'
    BY <2>2 DEF Handshake, hub, io
  <2>3. ASSUME NEW c \in Conn, Add(c) PROVE Inv'
    BY <2>3 DEF Add, io
  <2>4. ASSUME NEW c \in Conn, Answer(c) PROVE Inv'
    BY <2>4 DEF Answer, LockSend, hub
  <2>5. ASSUME NEW c \in Conn, RemoveConn(c) PROVE Inv'
    BY <2>5 DEF RemoveConn, io
  <2>6. ASSUME NEW c \in Conn, Destroy(c) PROVE Inv'
    BY <2>6 DEF Destroy, hub, io
  <2>7. ASSUME NEW b \in Caster, BeginSnapshot(b) PROVE Inv'
    BY <2>7 DEF BeginSnapshot, Casting, io
  <2>8. ASSUME NEW b \in Caster, EndSnapshot(b) PROVE Inv'
    BY <2>8 DEF EndSnapshot, io
  <2>9. ASSUME NEW b \in Caster, NEW c \in Conn, SendNext(b, c) PROVE Inv'
    BY <2>9 DEF SendNext, LockSend
  <2>10. ASSUME NEW t \in Thread, SendPart(t) PROVE Inv'
    BY <2>10 DEF SendPart, hub
  <2>11. ASSUME NEW t \in Thread, SendReturns(t) PROVE Inv'
    BY <2>11 DEF SendReturns, hub
  <2>12. CASE UNCHANGED vars
    BY <2>12 DEF vars
  <2> QED
    BY <2>1, <2>2, <2>3, <2>4, <2>5, <2>6, <2>7, <2>8, <2>9, <2>10, <2>11, <2>12
    DEF Next, Owner, Cast, Send
<1> QED BY <1>1, <1>2, HubTypeCorrect, PTL DEF Spec

-----------------------------------------------------------------------------
(* Counting: what the proofs about receive() are built on.  A sequence is  *)
(* run through by a loop; a fact about each of its steps holds since there *)
(* is no least step at which it fails.                                     *)

(* A set of naturals that is not empty has a least element. *)
LEMMA LeastNatural ==
  ASSUME NEW T \in SUBSET Nat, T # {}
  PROVE  \E x \in T : \A y \in T : x <= y
<1>1. PICK x \in T : \A y \in T : ~(<<y, x>> \in OpToRel(<, Nat))
  BY NatLessThanWellFounded, WFMin
<1>2. \A y \in T : ~(y < x)
  BY <1>1 DEF OpToRel
<1> QED
  BY <1>2

(* Induction up to n. *)
LEMMA UpTo ==
  ASSUME NEW n \in Nat, NEW G, 0 \in G, \A i \in 1..n : i - 1 \in G => i \in G
  PROVE  \A i \in 0..n : i \in G
<1> DEFINE Bad == {i \in 0..n : i \notin G}
<1> SUFFICES ASSUME Bad # {} PROVE FALSE
  OBVIOUS
<1>1. PICK i \in Bad : \A j \in Bad : i <= j
  <2>1. Bad \in SUBSET Nat
    OBVIOUS
  <2> HIDE DEF Bad
  <2> QED
    BY <2>1, LeastNatural
<1>2. i \in 1..n /\ i - 1 \in 0..n /\ i - 1 < i
  BY <1>1
<1>3. i - 1 \in G
  BY <1>1, <1>2
<1> QED
  BY <1>1, <1>2, <1>3

(* f is the values that a loop has after each of its n steps. *)
RunOf(f, n, X, base, step) ==
  f \in [0..n -> X] /\ f[0] = base /\ \A i \in 1..n : f[i] = step[i][f[i - 1]]

(* A loop that makes its next value of the last one can be run. *)
LEMMA LoopRuns ==
  ASSUME NEW n \in Nat, NEW X, NEW base \in X, NEW step \in [1..n -> [X -> X]]
  PROVE  \E f : RunOf(f, n, X, base, step)
<1> DEFINE Runs(m, f) == f[0] = base /\ \A i \in 1..m : f[i] = step[i][f[i - 1]]
           G == {m \in 0..n : \E f \in [0..m -> X] : Runs(m, f)}
<1>1. 0 \in G
  <2> DEFINE f == [i \in 0..0 |-> base]
  <2>1. f \in [0..0 -> X] /\ Runs(0, f)
    OBVIOUS
  <2>2. 0 \in 0..n
    OBVIOUS
  <2> HIDE DEF f, Runs
  <2> QED
    BY <2>1, <2>2
<1>2. ASSUME NEW m \in 1..n, m - 1 \in G
      PROVE  m \in G
  <2>1. PICK f \in [0..(m - 1) -> X] : Runs(m - 1, f)
    BY <1>2
  <2>2. m - 1 \in 0..(m - 1) /\ m \in 0..n
    OBVIOUS
  <2>3. f[m - 1] \in X
    BY <2>2
  <2>4. step[m] \in [X -> X]
    OBVIOUS
  <2>5. step[m][f[m - 1]] \in X
    BY <2>3, <2>4
  <2> DEFINE new == step[m][f[m - 1]]
             g == [i \in 0..m |-> IF i = m THEN new ELSE f[i]]
  <2>6. g \in [0..m -> X]
    <3>1. \A i \in 0..m : i # m => i \in 0..(m - 1)
      OBVIOUS
    <3> QED
      BY <2>5, <3>1
  <2>7. g[0] = base
    BY <2>1
  <2>8. ASSUME NEW i \in 1..m
        PROVE  g[i] = step[i][g[i - 1]]
    <3>0. i - 1 \in 0..m /\ i - 1 # m /\ i \in 0..m
      OBVIOUS
    <3>1. g[i - 1] = f[i - 1]
      BY <3>0
    <3>2. CASE i = m
      BY <3>0, <3>1, <3>2
    <3>3. CASE i # m
      <4>1. i \in 1..(m - 1) /\ g[i] = f[i]
        BY <3>0, <3>3
      <4> QED
        BY <2>1, <3>1, <4>1
    <3> QED
      BY <3>2, <3>3
  <2> QED
    BY <2>2, <2>6, <2>7, <2>8
<1>3. n \in G
  <2> HIDE DEF G
  <2>1. \A i \in 0..n : i \in G
    BY <1>1, <1>2, UpTo
  <2> QED
    BY <2>1
<1> QED
  BY <1>3 DEF RunOf



(* What Max() of some numbers up to n is. *)
LEMMA MaxFacts ==
  ASSUME NEW n \in Nat, NEW T \in SUBSET (0..n), T # {}
  PROVE  Max(T) \in T /\ \A y \in T : Max(T) >= y
<1> DEFINE D == {n - x : x \in T}
<1>1. D \in SUBSET Nat /\ D # {}
  <2>1. \A x \in T : x \in 0..n /\ n - x \in Nat
    OBVIOUS
  <2>2. \A d \in D : d \in Nat
    BY <2>1
  <2>3. PICK x : x \in T
    OBVIOUS
  <2>4. n - x \in D
    BY <2>3
  <2> QED
    BY <2>2, <2>4, Zenon
<1>2. PICK d \in D : \A y \in D : d <= y
  <2> HIDE DEF D
  <2> QED
    BY <1>1, LeastNatural
<1>3. PICK x \in T : d = n - x
  BY <1>2
<1>4. ASSUME NEW y \in T
      PROVE  x >= y
  <2>1. n - y \in D
    OBVIOUS
  <2>2. n - x <= n - y
    BY <1>2, <1>3, <2>1, Zenon
  <2>3. x \in 0..n /\ y \in 0..n
    OBVIOUS
  <2> HIDE DEF D
  <2> QED
    BY <2>2, <2>3
<1> QED
  BY <1>4 DEF Max

(* What FlattenSeq() makes of the first i of some sequences. *)
Joins(w, ds, S) ==
  /\ w \in [0..Len(ds) -> Seq(S)] /\ w[0] = <<>>
  /\ \A i \in 1..Len(ds) : w[i] = w[i - 1] \o ds[i]
  /\ FlattenSeq(ds) = w[Len(ds)]

(* FlattenSeq() can be taken step by step. *)
LEMMA FlattenJoins ==
  ASSUME NEW S, NEW ds \in Seq(Seq(S))
  PROVE  \E w : Joins(w, ds, S)
<1> DEFINE n == Len(ds) X == Seq(S)
           step == [i \in 1..n |-> [s \in X |-> s \o ds[i]]]
           Is(f) == f = [i \in 1..n |-> IF i = 1 THEN ds[i] ELSE f[i - 1] \o ds[i]]
           flatten == CHOOSE f : Is(f)
<1>0. n \in Nat /\ \A i \in 1..n : ds[i] \in X
  OBVIOUS
<1>1. <<>> \in X /\ step \in [1..n -> [X -> X]]
  <2>1. ASSUME NEW i \in 1..n, NEW s \in X
        PROVE  s \o ds[i] \in X
    BY <1>0
  <2>2. <<>> \in X
    OBVIOUS
  <2> HIDE DEF X
  <2> QED
    BY <2>1, <2>2
<1>2. PICK w : RunOf(w, n, X, <<>>, step)
  <2> HIDE DEF step, X, n
  <2> QED
    BY <1>0, <1>1, LoopRuns
<1>3. w \in [0..n -> X] /\ w[0] = <<>>
  BY <1>2 DEF RunOf
<1>4. ASSUME NEW i \in 1..n
      PROVE  w[i] = w[i - 1] \o ds[i]
  <2>1. w[i] = step[i][w[i - 1]]
    BY <1>2 DEF RunOf
  <2>2. w[i - 1] \in X
    <3>1. i - 1 \in 0..n
      BY <1>0
    <3> HIDE DEF X
    <3> QED
      BY <1>3, <3>1
  <2> HIDE DEF X
  <2> QED
    BY <2>1, <2>2
<1>5. CASE n = 0
  <2>1. FlattenSeq(ds) = <<>>
    BY <1>5 DEF FlattenSeq
  <2> QED
    BY <1>3, <1>4, <1>5, <2>1 DEF Joins
<1>6. CASE n > 0
  <2> DEFINE v == [i \in 1..n |-> w[i]]
  <2>1. w[1] = ds[1]
    <3>1. 1 \in 1..n /\ 1 - 1 = 0
      BY <1>0, <1>6
    <3>2. w[1] = w[0] \o ds[1]
      BY <1>4, <3>1
    <3>3. ds[1] \in Seq(S)
      BY <1>0, <3>1
    <3>4. <<>> \o ds[1] = ds[1]
      BY <3>3
    <3> QED
      BY <1>3, <3>2, <3>4
  <2>2. \A i \in 1..n : v[i] = IF i = 1 THEN ds[i] ELSE v[i - 1] \o ds[i]
    <3> SUFFICES ASSUME NEW i \in 1..n PROVE v[i] = IF i = 1 THEN ds[i] ELSE v[i - 1] \o ds[i]
      OBVIOUS
    <3>1. CASE i = 1
      BY <2>1, <3>1
    <3>2. CASE i # 1
      <4>1. i - 1 \in 1..n
        BY <1>0, <3>2
      <4>2. v[i - 1] = w[i - 1] /\ v[i] = w[i]
        BY <4>1
      <4> QED
        BY <1>4, <3>2, <4>2
    <3> QED
      BY <3>1, <3>2
  <2>3. Is(v)
    <3>1. v = [i \in 1..n |-> v[i]]
      OBVIOUS
    <3> HIDE DEF v
    <3> QED
      BY <2>2, <3>1
  <2>4. Is(flatten)
    <3> HIDE DEF Is
    <3> QED
      BY <2>3
  <2>5. FlattenSeq(ds) = flatten[n]
    BY <1>6 DEF FlattenSeq
  <2> HIDE DEF flatten
  <2>6. \A i \in 1..n : flatten[i] = IF i = 1 THEN ds[i] ELSE flatten[i - 1] \o ds[i]
    BY <2>4, Zenon
  <2> HIDE DEF Is, v
  <2> DEFINE G == {0} \union {i \in 1..n : flatten[i] = w[i]}
  <2>7. ASSUME NEW i \in 1..n, i - 1 \in G
        PROVE  i \in G
    <3>1. CASE i = 1
      <4>1. flatten[i] = ds[i] /\ w[i] = ds[i]
        BY <2>1, <2>6, <3>1
      <4> QED
        BY <4>1
    <3>2. CASE i # 1
      <4>1. flatten[i - 1] = w[i - 1]
        BY <1>0, <2>7, <3>2
      <4>2. flatten[i] = flatten[i - 1] \o ds[i] /\ w[i] = w[i - 1] \o ds[i]
        BY <1>4, <2>6, <3>2
      <4> QED
        BY <4>1, <4>2
    <3> QED
      BY <3>1, <3>2
  <2>8. n \in G
    <3>1. 0 \in G
      OBVIOUS
    <3> HIDE DEF G
    <3>2. \A i \in 0..n : i \in G
      BY <1>0, <2>7, <3>1, UpTo
    <3> QED
      BY <1>0, <3>2
  <2>9. flatten[n] = w[n]
    BY <1>6, <2>8
  <2> QED
    BY <1>3, <1>4, <2>5, <2>9 DEF Joins
<1> QED
  BY <1>0, <1>5, <1>6

(* Appending a sequence puts its elements behind the others. *)
LEMMA FlattenAppend ==
  ASSUME NEW S, NEW ds \in Seq(Seq(S)), NEW m \in Seq(S)
  PROVE  /\ FlattenSeq(Append(ds, m)) = FlattenSeq(ds) \o m
         /\ FlattenSeq(ds) \in Seq(S)
<1> DEFINE n == Len(ds) es == Append(ds, m)
<1>0. /\ n \in Nat /\ es \in Seq(Seq(S)) /\ Len(es) = n + 1 /\ es[n + 1] = m
      /\ \A i \in 1..n : es[i] = ds[i]
  OBVIOUS
<1> HIDE DEF es
<1>1. PICK w : Joins(w, ds, S)
  BY FlattenJoins
<1>2. PICK v : Joins(v, es, S)
  BY <1>0, FlattenJoins
<1>3. w[0] = <<>> /\ v[0] = <<>> /\ w \in [0..n -> Seq(S)]
  BY <1>1, <1>2 DEF Joins
<1>4. /\ \A i \in 1..n : w[i] = w[i - 1] \o ds[i]
      /\ \A i \in 1..(n + 1) : v[i] = v[i - 1] \o es[i]
      /\ FlattenSeq(ds) = w[n] /\ FlattenSeq(es) = v[n + 1]
  BY <1>0, <1>1, <1>2 DEF Joins
<1> DEFINE G == {i \in 0..n : v[i] = w[i]}
<1>5. 0 \in G
  BY <1>0, <1>3
<1>6. ASSUME NEW i \in 1..n, i - 1 \in G
      PROVE  i \in G
  <2>1. i \in 0..n /\ i \in 1..(n + 1) /\ es[i] = ds[i]
    BY <1>0
  <2>2. v[i - 1] = w[i - 1]
    BY <1>6
  <2>3. v[i] = w[i]
    BY <1>4, <2>1, <2>2, Zenon
  <2> QED
    BY <2>1, <2>3
<1>7. n \in G
  <2> HIDE DEF G
  <2>1. \A i \in 0..n : i \in G
    BY <1>0, <1>5, <1>6, UpTo
  <2> QED
    BY <1>0, <2>1
<1>8. v[n + 1] = v[n] \o m
  <2>1. n + 1 \in 1..(n + 1) /\ (n + 1) - 1 = n
    BY <1>0
  <2>2. v[n + 1] = v[(n + 1) - 1] \o es[n + 1]
    BY <1>4, <2>1
  <2> QED
    BY <1>0, <2>1, <2>2
<1>9. w[n] \in Seq(S)
  <2>1. n \in 0..n
    BY <1>0
  <2> QED
    BY <1>3, <2>1, Zenon
<1> QED
  BY <1>4, <1>7, <1>8, <1>9 DEF es

(* The sums of the first i numbers. *)
Sums(w, ns) ==
  /\ w \in [0..Len(ns) -> Nat] /\ w[0] = 0
  /\ \A i \in 1..Len(ns) : w[i] = w[i - 1] + ns[i]
  /\ Total(ns) = w[Len(ns)]

(* Total() can be taken step by step. *)
LEMMA TotalSums ==
  ASSUME NEW ns \in Seq(Nat)
  PROVE  \E w : Sums(w, ns)
<1> DEFINE n == Len(ns)
           step == [i \in 1..n |-> [s \in Nat |-> s + ns[i]]]
           Is(f) == f = [i \in 0..n |-> IF i = 0 THEN 0 ELSE f[i - 1] + ns[i]]
           sum == CHOOSE f : Is(f)
<1>0. n \in Nat /\ \A i \in 1..n : ns[i] \in Nat
  OBVIOUS
<1>1. step \in [1..n -> [Nat -> Nat]]
  <2>1. \A i \in 1..n : \A s \in Nat : s + ns[i] \in Nat
    BY <1>0
  <2> QED
    BY <2>1
<1>2. PICK w : RunOf(w, n, Nat, 0, step)
  <2>1. 0 \in Nat
    OBVIOUS
  <2> HIDE DEF step, n
  <2> QED
    BY <1>0, <1>1, <2>1, LoopRuns
<1>3. w \in [0..n -> Nat] /\ w[0] = 0
  BY <1>2 DEF RunOf
<1>4. ASSUME NEW i \in 1..n
      PROVE  w[i] = w[i - 1] + ns[i]
  <2>1. w[i] = step[i][w[i - 1]]
    BY <1>2 DEF RunOf
  <2>2. w[i - 1] \in Nat
    <3>1. i - 1 \in 0..n
      BY <1>0
    <3> QED
      BY <1>3, <3>1, Zenon
  <2> QED
    BY <2>1, <2>2
<1>5. \A i \in 0..n : w[i] = IF i = 0 THEN 0 ELSE w[i - 1] + ns[i]
  <2>1. \A i \in 0..n : i = 0 \/ i \in 1..n
    BY <1>0
  <2> QED
    BY <1>3, <1>4, <2>1, Zenon
<1>6. Is(w)
  <2>1. w = [i \in 0..n |-> w[i]]
    BY <1>3
  <2> QED
    BY <1>5, <2>1, Zenon
<1>7. Is(sum)
  <2> HIDE DEF Is
  <2> QED
    BY <1>6
<1>8. Total(ns) = sum[n]
  BY DEF Total
<1> HIDE DEF sum
<1>9. \A i \in 0..n : sum[i] = IF i = 0 THEN 0 ELSE sum[i - 1] + ns[i]
  BY <1>7, Zenon
<1> HIDE DEF Is, step
<1> DEFINE G == {i \in 0..n : sum[i] = w[i]}
<1>10. 0 \in G
  BY <1>0, <1>3, <1>9
<1>11. ASSUME NEW i \in 1..n, i - 1 \in G
       PROVE  i \in G
  <2>1. i \in 0..n /\ i # 0 /\ sum[i - 1] = w[i - 1]
    BY <1>0, <1>11
  <2>2. sum[i] = sum[i - 1] + ns[i]
    BY <1>9, <2>1
  <2>3. sum[i] = w[i]
    BY <1>4, <2>1, <2>2, Zenon
  <2> QED
    BY <2>1, <2>3
<1>12. n \in G
  <2> HIDE DEF G
  <2>1. \A i \in 0..n : i \in G
    BY <1>0, <1>10, <1>11, UpTo
  <2> QED
    BY <1>0, <2>1
<1> QED
  BY <1>3, <1>4, <1>8, <1>12 DEF Sums

(* One more number, and without the first one. *)
LEMMA TotalFacts ==
  ASSUME NEW ns \in Seq(Nat)
  PROVE  /\ Total(ns) \in Nat /\ Total(<<>>) = 0
         /\ \A x \in Nat : Total(Append(ns, x)) = Total(ns) + x
         /\ ns # <<>> => Total(ns) = ns[1] + Total(Tail(ns))
<1> DEFINE n == Len(ns)
<1>0. n \in Nat /\ \A i \in 1..n : ns[i] \in Nat
  OBVIOUS
<1>1. PICK w : Sums(w, ns)
  BY TotalSums
<1>2. /\ w \in [0..n -> Nat] /\ w[0] = 0 /\ \A i \in 1..n : w[i] = w[i - 1] + ns[i]
      /\ Total(ns) = w[n]
  BY <1>1 DEF Sums
<1>3. Total(<<>>) = 0
  <2>1. PICK v : Sums(v, <<>>)
    <3>1. <<>> \in Seq(Nat)
      OBVIOUS
    <3> QED
      BY <3>1, TotalSums
  <2> QED
    BY <2>1 DEF Sums
<1>4. ASSUME NEW x \in Nat
      PROVE  Total(Append(ns, x)) = Total(ns) + x
  <2> DEFINE ms == Append(ns, x)
  <2>0. ms \in Seq(Nat) /\ Len(ms) = n + 1 /\ ms[n + 1] = x /\ \A i \in 1..n : ms[i] = ns[i]
    OBVIOUS
  <2> HIDE DEF ms
  <2>1. PICK v : Sums(v, ms)
    BY <2>0, TotalSums
  <2>2. /\ v[0] = 0 /\ \A i \in 1..(n + 1) : v[i] = v[i - 1] + ms[i]
        /\ Total(ms) = v[n + 1]
    BY <2>0, <2>1 DEF Sums
  <2> DEFINE G == {i \in 0..n : v[i] = w[i]}
  <2>3. 0 \in G
    BY <1>0, <1>2, <2>2
  <2>4. ASSUME NEW i \in 1..n, i - 1 \in G
        PROVE  i \in G
    <3>1. i \in 0..n /\ i \in 1..(n + 1) /\ v[i - 1] = w[i - 1]
      BY <1>0, <2>4
    <3>2. v[i] = v[i - 1] + ms[i] /\ w[i] = w[i - 1] + ns[i] /\ ms[i] = ns[i]
      BY <1>2, <2>0, <2>2, <3>1
    <3> QED
      BY <3>1, <3>2
  <2>5. n \in G
    <3> HIDE DEF G
    <3>1. \A i \in 0..n : i \in G
      BY <1>0, <2>3, <2>4, UpTo
    <3> QED
      BY <1>0, <3>1
  <2>6. v[n + 1] = v[n] + x
    <3>1. n + 1 \in 1..(n + 1) /\ (n + 1) - 1 = n
      BY <1>0
    <3>2. v[n + 1] = v[(n + 1) - 1] + ms[n + 1]
      BY <2>2, <3>1
    <3> QED
      BY <2>0, <3>1, <3>2
  <2> QED
    BY <1>2, <2>2, <2>5, <2>6 DEF ms
<1>5. ASSUME ns # <<>>
      PROVE  Total(ns) = ns[1] + Total(Tail(ns))
  <2> DEFINE ms == Tail(ns)
  <2>0. /\ ms \in Seq(Nat) /\ Len(ms) = n - 1 /\ n - 1 \in Nat
        /\ \A i \in 1..(n - 1) : ms[i] = ns[i + 1]
    BY <1>5
  <2> HIDE DEF ms
  <2>1. PICK v : Sums(v, ms)
    BY <2>0, TotalSums
  <2>2. /\ v \in [0..(n - 1) -> Nat] /\ v[0] = 0 /\ \A i \in 1..(n - 1) : v[i] = v[i - 1] + ms[i]
        /\ Total(ms) = v[n - 1]
    BY <2>0, <2>1 DEF Sums
  <2> DEFINE G == {i \in 0..(n - 1) : w[i + 1] = ns[1] + v[i]}
  <2>3. 0 \in G
    <3>1. 1 \in 1..n /\ 1 - 1 = 0 /\ 0 + 1 = 1 /\ 0 \in 0..(n - 1) /\ ns[1] \in Nat
      BY <1>0, <2>0
    <3>2. w[1] = w[1 - 1] + ns[1]
      BY <1>2, <3>1
    <3> QED
      BY <1>2, <2>2, <3>1, <3>2
  <2>4. ASSUME NEW i \in 1..(n - 1), i - 1 \in G
        PROVE  i \in G
    <3>1. /\ i \in 0..(n - 1) /\ i + 1 \in 1..n /\ (i + 1) - 1 = i /\ (i - 1) + 1 = i
          /\ i - 1 \in 0..(n - 1) /\ 1 \in 1..n
      BY <2>0
    <3>2. w[i] = ns[1] + v[i - 1]
      BY <2>4, <3>1
    <3>3. w[i + 1] = w[i] + ns[i + 1] /\ v[i] = v[i - 1] + ns[i + 1]
      BY <1>2, <2>0, <2>2, <3>1
    <3>4. ns[1] \in Nat /\ v[i - 1] \in Nat /\ ns[i + 1] \in Nat
      BY <1>0, <2>2, <3>1, Zenon
    <3>5. w[i + 1] = ns[1] + v[i]
      BY <3>2, <3>3, <3>4
    <3> QED
      BY <3>1, <3>5
  <2>5. n - 1 \in G
    <3> HIDE DEF G
    <3>1. \A i \in 0..(n - 1) : i \in G
      BY <2>0, <2>3, <2>4, UpTo
    <3> QED
      BY <2>0, <3>1
  <2>6. (n - 1) + 1 = n
    BY <1>0
  <2> QED
    BY <1>2, <2>2, <2>5, <2>6 DEF ms
<1>6. Total(ns) \in Nat
  BY <1>0, <1>2
<1> QED
  BY <1>3, <1>4, <1>5, <1>6

(* The sizes of heads: the length takes 1, 3 or 9 bytes. *)
LEMMA HeadFacts ==
  ASSUME NEW form \in Form, NEW masked \in BOOLEAN
  PROVE  /\ HeadSize(form, masked) \in 2..14 /\ HeadSize(form, FALSE) <= HeadSize(form, masked)
         /\ HeadSize(form, FALSE) \in 2..10
<1>1. form \in {1, 3, 9}
  BY DEF Form, LengthBytes
<1> DEFINE h == HeadSize(form, masked) bare == HeadSize(form, FALSE)
<1>2. bare = 1 + form + 0
  BY DEF HeadSize
<1>3. h = 1 + form + 4 \/ h = bare
  <2>1. CASE masked = TRUE
    BY <2>1 DEF HeadSize
  <2>2. CASE masked = FALSE
    BY <2>2
  <2> QED
    BY <2>1, <2>2
<1> HIDE DEF h, bare
<1>4. h \in 2..14 /\ bare <= h /\ bare \in 2..10
  BY <1>1, <1>2, <1>3
<1> QED
  BY <1>4, Zenon DEF h, bare

(* Lengths have a form of one byte. *)
LEMMA ShortForm == 1 \in Form
<1>1. LengthBytes(0) = 1 /\ 0 \in 0..127
  BY DEF LengthBytes
<1> QED
  BY <1>1 DEF Form

(* A frame's fields. *)
LEMMA FrameFacts ==
  ASSUME NEW f \in Frame
  PROVE  f.len \in Nat /\ f.masked \in BOOLEAN /\ f.fin \in BOOLEAN /\ FrameSize(f) \in Nat
         /\ FrameSize(f) >= HeadSize(f.form, FALSE) /\ FrameSize(f) <= 14 + f.len
         /\ HeadSize(f.form, FALSE) \in 2..10
<1>1. f.len \in Nat /\ f.masked \in BOOLEAN /\ f.fin \in BOOLEAN /\ f.form \in Form
  BY DEF Frame
<1>2. HeadSize(f.form, f.masked) \in 2..14 /\ HeadSize(f.form, FALSE) <= HeadSize(f.form, f.masked)
      /\ HeadSize(f.form, FALSE) \in 2..10
  BY <1>1, HeadFacts
<1> DEFINE h == HeadSize(f.form, f.masked) h0 == HeadSize(f.form, FALSE)
<1>3. FrameSize(f) = h + f.len
  BY DEF FrameSize
<1> HIDE DEF h, h0
<1>4. h \in 2..14 /\ h0 <= h /\ h0 \in 2..10
  BY <1>2 DEF h, h0
<1>5. FrameSize(f) \in Nat /\ FrameSize(f) >= h0 /\ FrameSize(f) <= 14 + f.len
  BY <1>1, <1>3, <1>4
<1> QED
  BY <1>1, <1>4, <1>5 DEF h0

(* The bytes of messages and of frames. *)
LEMMA SizeFacts ==
  ASSUME NEW fs \in Seq(Frame), NEW f \in Frame
  PROVE  /\ SizeOf(fs) \in Nat /\ SizeOf(<<>>) = 0 /\ SizeOf(<<f>>) = f.len
         /\ SizeOf(Append(fs, f)) = SizeOf(fs) + f.len
<1> DEFINE lens(gs) == [i \in 1..Len(gs) |-> gs[i].len]
<1>1. ASSUME NEW gs \in Seq(Frame)
      PROVE  lens(gs) \in Seq(Nat) /\ lens(Append(gs, f)) = Append(lens(gs), f.len)
  <2> DEFINE n == Len(gs) a == lens(Append(gs, f)) b == Append(lens(gs), f.len)
  <2>0. n \in Nat /\ \A i \in 1..n : gs[i] \in Frame
    OBVIOUS
  <2>1. lens(gs) \in Seq(Nat) /\ Len(lens(gs)) = n /\ \A i \in 1..n : lens(gs)[i] = gs[i].len
    <3>1. \A i \in 1..n : gs[i].len \in Nat
      BY <2>0, FrameFacts
    <3> QED
      BY <2>0, <3>1
  <2>2. /\ Append(gs, f) \in Seq(Frame) /\ Len(Append(gs, f)) = n + 1 /\ Append(gs, f)[n + 1] = f
        /\ \A i \in 1..n : Append(gs, f)[i] = gs[i]
    OBVIOUS
  <2>3. /\ a \in Seq(Nat) /\ Len(a) = n + 1 /\ a[n + 1] = f.len
        /\ \A i \in 1..n : a[i] = gs[i].len
    <3> DEFINE hs == Append(gs, f)
    <3> HIDE DEF hs
    <3>1. hs = Append(gs, f) /\ \A i \in 1..(n + 1) : hs[i] \in Frame
      BY <2>2 DEF hs
    <3>2. \A i \in 1..(n + 1) : hs[i].len \in Nat
      BY <3>1, FrameFacts
    <3>3. a = [i \in 1..(n + 1) |-> hs[i].len]
      BY <2>2, <3>1
    <3> HIDE DEF a
    <3> QED
      BY <2>0, <2>2, <3>1, <3>2, <3>3
  <2>4. f.len \in Nat
    BY FrameFacts
  <2>5. /\ b \in Seq(Nat) /\ Len(b) = n + 1 /\ b[n + 1] = f.len
        /\ \A i \in 1..n : b[i] = gs[i].len
    <3> HIDE DEF lens
    <3> QED
      BY <2>0, <2>1, <2>4
  <2> HIDE DEF a, b
  <2>6. \A i \in 1..(n + 1) : a[i] = b[i]
    <3>1. \A i \in 1..(n + 1) : i = n + 1 \/ i \in 1..n
      BY <2>0
    <3> QED
      BY <2>3, <2>5, <3>1, Zenon
  <2>7. a = b
    BY <2>3, <2>5, <2>6, SeqEqual
  <2> QED
    BY <2>1, <2>7 DEF a, b
<1>2. \A gs : SizeOf(gs) = Total(lens(gs))
  BY DEF SizeOf
<1>3. f.len \in Nat /\ <<>> \in Seq(Frame) /\ lens(<<>>) = <<>> /\ Append(<<>>, f) = <<f>>
  <2>1. f.len \in Nat
    BY FrameFacts
  <2>2. <<>> \in Seq(Frame) /\ Append(<<>>, f) = <<f>>
    OBVIOUS
  <2>3. lens(<<>>) = <<>>
    OBVIOUS
  <2> QED
    BY <2>1, <2>2, <2>3
<1> HIDE DEF lens
<1>4. SizeOf(fs) \in Nat /\ SizeOf(Append(fs, f)) = SizeOf(fs) + f.len
  <2>1. lens(fs) \in Seq(Nat) /\ lens(Append(fs, f)) = Append(lens(fs), f.len)
    BY <1>1
  <2> QED
    BY <1>2, <1>3, <2>1, TotalFacts
<1>5. SizeOf(<<>>) = 0
  <2>1. <<>> \in Seq(Nat)
    OBVIOUS
  <2> QED
    BY <1>2, <1>3, <2>1, TotalFacts
<1>6. SizeOf(<<f>>) = f.len
  <2>1. <<>> \in Seq(Nat) /\ lens(<<f>>) = Append(lens(<<>>), f.len)
    BY <1>1, <1>3
  <2>2. Total(Append(<<>>, f.len)) = 0 + f.len
    BY <1>3, <2>1, TotalFacts
  <2> QED
    BY <1>2, <1>3, <2>1, <2>2
<1> QED
  BY <1>4, <1>5, <1>6

(* The bytes on the line. *)
LEMMA BytesFacts ==
  ASSUME NEW fs \in Seq(Frame)
  PROVE  /\ Bytes(fs) \in Nat /\ Bytes(<<>>) = 0
         /\ \A f \in Frame : Bytes(Append(fs, f)) >= Bytes(fs)
         /\ fs # <<>> => Bytes(fs) = FrameSize(Head(fs)) + Bytes(Tail(fs))
<1> DEFINE sizes(gs) == [i \in 1..Len(gs) |-> FrameSize(gs[i])]
<1>1. ASSUME NEW gs \in Seq(Frame)
      PROVE  sizes(gs) \in Seq(Nat) /\ Len(sizes(gs)) = Len(gs)
             /\ \A i \in 1..Len(gs) : sizes(gs)[i] = FrameSize(gs[i])
  <2>1. Len(gs) \in Nat /\ \A i \in 1..Len(gs) : gs[i] \in Frame
    OBVIOUS
  <2>2. \A i \in 1..Len(gs) : FrameSize(gs[i]) \in Nat
    BY <2>1, FrameFacts
  <2> QED
    BY <2>1, <2>2
<1>2. \A gs : Bytes(gs) = Total(sizes(gs))
  BY DEF Bytes
<1>3. sizes(<<>>) = <<>> /\ <<>> \in Seq(Nat)
  OBVIOUS
<1>4. Bytes(fs) \in Nat /\ Bytes(<<>>) = 0
  <2>1. sizes(fs) \in Seq(Nat)
    BY <1>1
  <2> HIDE DEF sizes
  <2> QED
    BY <1>2, <1>3, <2>1, TotalFacts
<1>5. ASSUME NEW f \in Frame
      PROVE  Bytes(Append(fs, f)) >= Bytes(fs)
  <2> DEFINE gs == Append(fs, f) n == Len(fs)
  <2>1. /\ gs \in Seq(Frame) /\ Len(gs) = n + 1 /\ n \in Nat /\ gs[n + 1] = f
        /\ \A i \in 1..n : gs[i] = fs[i]
    OBVIOUS
  <2> HIDE DEF gs
  <2> DEFINE a == sizes(gs) b == Append(sizes(fs), FrameSize(f))
  <2>2. /\ a \in Seq(Nat) /\ Len(a) = n + 1 /\ \A i \in 1..(n + 1) : a[i] = FrameSize(gs[i])
        /\ sizes(fs) \in Seq(Nat) /\ Len(sizes(fs)) = n
        /\ \A i \in 1..n : sizes(fs)[i] = FrameSize(fs[i])
    <3> HIDE DEF sizes
    <3> QED
      BY <1>1, <2>1
  <2>3. FrameSize(f) \in Nat
    BY FrameFacts
  <2> HIDE DEF sizes
  <2>4. /\ b \in Seq(Nat) /\ Len(b) = n + 1 /\ b[n + 1] = FrameSize(f)
        /\ \A i \in 1..n : b[i] = FrameSize(fs[i])
    BY <2>1, <2>2, <2>3
  <2> HIDE DEF a, b
  <2>5. \A i \in 1..(n + 1) : a[i] = b[i]
    <3>1. \A i \in 1..(n + 1) : i = n + 1 \/ i \in 1..n
      BY <2>1
    <3>2. n + 1 \in 1..(n + 1)
      BY <2>1
    <3> QED
      BY <2>1, <2>2, <2>4, <3>1, <3>2, Zenon
  <2>6. a = b
    BY <2>2, <2>4, <2>5, SeqEqual
  <2>7. Total(b) = Total(sizes(fs)) + FrameSize(f)
    BY <2>2, <2>3, TotalFacts DEF b
  <2>8. Bytes(gs) = Bytes(fs) + FrameSize(f)
    BY <1>2, <2>6, <2>7 DEF a
  <2> QED
    BY <1>4, <2>3, <2>8 DEF gs
<1>6. ASSUME fs # <<>>
      PROVE  Bytes(fs) = FrameSize(Head(fs)) + Bytes(Tail(fs))
  <2> DEFINE gs == Tail(fs) n == Len(fs)
  <2>1. /\ gs \in Seq(Frame) /\ Len(gs) = n - 1 /\ n - 1 \in Nat /\ n \in Nat /\ Head(fs) = fs[1]
        /\ \A i \in 1..(n - 1) : gs[i] = fs[i + 1]
    BY <1>6
  <2> HIDE DEF gs
  <2> DEFINE a == sizes(gs) s == sizes(fs) b == Tail(s)
  <2>2. /\ a \in Seq(Nat) /\ Len(a) = n - 1 /\ \A i \in 1..(n - 1) : a[i] = FrameSize(gs[i])
        /\ s \in Seq(Nat) /\ Len(s) = n /\ \A i \in 1..n : s[i] = FrameSize(fs[i])
    <3> HIDE DEF sizes
    <3> QED
      BY <1>1, <2>1
  <2> HIDE DEF sizes, s
  <2>3. s # <<>> /\ b \in Seq(Nat) /\ Len(b) = n - 1 /\ \A i \in 1..(n - 1) : b[i] = s[i + 1]
    BY <2>1, <2>2
  <2> HIDE DEF a, b
  <2>4. \A i \in 1..(n - 1) : a[i] = b[i]
    <3>1. \A i \in 1..(n - 1) : i + 1 \in 1..n
      BY <2>1
    <3> QED
      BY <2>1, <2>2, <2>3, <3>1, Zenon
  <2>5. a = b
    BY <2>2, <2>3, <2>4, SeqEqual
  <2>6. Total(s) = s[1] + Total(b)
    BY <2>2, <2>3, TotalFacts DEF b
  <2>7. s[1] = FrameSize(fs[1])
    BY <2>1, <2>2
  <2> QED
    BY <1>2, <2>1, <2>5, <2>6, <2>7, Zenon DEF a, s, gs
<1> QED
  BY <1>4, <1>5, <1>6

(* Four bytes hold a number below 2^32, two bytes one below 2^16. *)
LEMMA BytesHold ==
  ASSUME NEW n \in Nat
  PROVE  /\ n < 65536 => Byte(n, 256) * 256 + Byte(n, 1) = n
         /\ n < 4294967296 =>
              Byte(n, 16777216) * 16777216 + Byte(n, 65536) * 65536 + Byte(n, 256) * 256 + Byte(n, 1) = n
<1>1. n < 65536 => Byte(n, 256) * 256 + Byte(n, 1) = n
  BY DEF Byte
<1>2. n < 4294967296 =>
        Byte(n, 16777216) * 16777216 + Byte(n, 65536) * 65536 + Byte(n, 256) * 256 + Byte(n, 1) = n
  BY DEF Byte
<1> QED
  BY <1>1, <1>2

(* parse_frame() reads back what the encoders wrote. *)
LEMMA HeadersReadBack ==
  ASSUME NEW n \in Nat
  PROVE  /\ n < 4294967296 => ReadsBack(BinaryHeader(n), n)
         /\ n <= 65535 => ReadsBack(TextHeader(n), n)
         /\ n <= 125 => ReadsBack(PongHeader(n), n)
<1>1. CASE n < 126
  <2>1. ReadsBack(<<n>>, n)
    BY <1>1 DEF ReadsBack, LengthBytes, Declared
  <2>2. n % 128 = n
    BY <1>1
  <2> QED
    BY <1>1, <2>1, <2>2 DEF BinaryHeader, TextHeader, PongHeader
<1>2. CASE n >= 126 /\ n <= 65535
  <2>1. ReadsBack(Length16(n), n)
    <3> DEFINE a == Byte(n, 256) b == Byte(n, 1)
    <3>1. a * 256 + b = n
      BY <1>2, BytesHold
    <3>2. Length16(n) = <<126, a, b>>
      BY DEF Length16
    <3> HIDE DEF a, b
    <3>3. ReadsBack(<<126, a, b>>, n)
      BY <3>1 DEF ReadsBack, LengthBytes, Declared
    <3> QED
      BY <3>2, <3>3
  <2> QED
    BY <1>2, <2>1 DEF BinaryHeader, TextHeader
<1>3. CASE n > 65535 /\ n < 4294967296
  <2>1. ReadsBack(Length64(n), n)
    <3> DEFINE a == Byte(n, 16777216) b == Byte(n, 65536) c == Byte(n, 256) d == Byte(n, 1)
    <3>1. a * 16777216 + b * 65536 + c * 256 + d = n
      BY <1>3, BytesHold
    <3>2. Length64(n) = <<127, 0, 0, 0, 0, a, b, c, d>>
      BY DEF Length64
    <3> HIDE DEF a, b, c, d
    <3>3. ReadsBack(<<127, 0, 0, 0, 0, a, b, c, d>>, n)
      BY <3>1 DEF ReadsBack, LengthBytes, Declared
    <3> QED
      BY <3>2, <3>3
  <2> QED
    BY <1>3, <2>1 DEF BinaryHeader
<1> QED
  BY <1>1, <1>2, <1>3

(* The data frames of a sequence, one frame at a time. *)
LEMMA DataFacts ==
  ASSUME NEW fs \in Seq(Frame), NEW f \in Frame
  PROVE  /\ Data(fs) \in Seq(Frame) /\ Data(<<>>) = <<>>
         /\ Data(Append(fs, f)) = IF IsData(f) THEN Append(Data(fs), f) ELSE Data(fs)
<1> DEFINE part(g) == IF IsData(g) THEN <<g>> ELSE <<>>
           parts(gs) == [i \in 1..Len(gs) |-> part(gs[i])]
           n == Len(fs) es == Append(fs, f)
<1>0. ASSUME NEW g \in Frame
      PROVE  part(g) \in Seq(Frame)
  OBVIOUS
<1>1. \A gs : Data(gs) = FlattenSeq(parts(gs))
  BY DEF Data
<1> HIDE DEF part
<1>2. ASSUME NEW gs \in Seq(Frame)
      PROVE  /\ parts(gs) \in Seq(Seq(Frame)) /\ Len(parts(gs)) = Len(gs)
             /\ \A i \in 1..Len(gs) : parts(gs)[i] = part(gs[i])
  <2> DEFINE X == Seq(Frame) m == Len(gs)
  <2>1. m \in Nat /\ \A i \in 1..m : gs[i] \in Frame
    OBVIOUS
  <2>2. \A i \in 1..m : part(gs[i]) \in X
    BY <1>0, <2>1
  <2> HIDE DEF X, m
  <2>3. [i \in 1..m |-> part(gs[i])] \in [1..m -> X]
    BY <2>2
  <2>4. /\ [i \in 1..m |-> part(gs[i])] \in Seq(X) /\ Len([i \in 1..m |-> part(gs[i])]) = m
        /\ \A i \in 1..m : [j \in 1..m |-> part(gs[j])][i] = part(gs[i])
    BY <2>1, <2>3
  <2> QED
    BY <2>4 DEF m, X
<1>3. /\ es \in Seq(Frame) /\ Len(es) = n + 1 /\ n \in Nat /\ es[n + 1] = f
      /\ \A i \in 1..n : es[i] = fs[i]
  OBVIOUS
<1>4. parts(<<>>) = <<>>
  OBVIOUS
<1> HIDE DEF parts, es
<1>5. parts(es) = Append(parts(fs), part(f))
  <2> DEFINE a == parts(es) b == Append(parts(fs), part(f)) X == Seq(Frame)
  <2>1. /\ a \in Seq(X) /\ Len(a) = n + 1 /\ \A i \in 1..(n + 1) : a[i] = part(es[i])
        /\ parts(fs) \in Seq(X) /\ Len(parts(fs)) = n /\ \A i \in 1..n : parts(fs)[i] = part(fs[i])
    BY <1>2, <1>3
  <2>2. part(f) \in X
    BY <1>0
  <2> HIDE DEF X
  <2>3. /\ b \in Seq(X) /\ Len(b) = n + 1 /\ b[n + 1] = part(f)
        /\ \A i \in 1..n : b[i] = part(fs[i])
    BY <1>3, <2>1, <2>2
  <2> HIDE DEF a, b
  <2>4. \A i \in 1..(n + 1) : a[i] = b[i]
    <3>1. (\A i \in 1..(n + 1) : i = n + 1 \/ i \in 1..n) /\ n + 1 \in 1..(n + 1)
      BY <1>3
    <3> QED
      BY <1>3, <2>1, <2>3, <3>1, Zenon
  <2>5. a = b
    BY <2>1, <2>3, <2>4, SeqEqual
  <2> QED
    BY <2>5 DEF a, b
<1>6. FlattenSeq(parts(es)) = FlattenSeq(parts(fs)) \o part(f) /\ FlattenSeq(parts(fs)) \in Seq(Frame)
  BY <1>0, <1>2, <1>5, FlattenAppend
<1>7. Data(<<>>) = <<>>
  BY <1>1, <1>4 DEF FlattenSeq
<1>8. Data(es) = Data(fs) \o part(f) /\ Data(fs) \in Seq(Frame)
  BY <1>1, <1>6
<1>9. CASE IsData(f)
  <2>1. part(f) = <<f>>
    BY <1>9 DEF part
  <2> DEFINE d == Data(fs)
  <2>2. d \in Seq(Frame)
    BY <1>8
  <2> HIDE DEF d
  <2>3. d \o <<f>> = Append(d, f)
    BY <2>2
  <2> QED
    BY <1>7, <1>8, <1>9, <2>1, <2>3 DEF d, es
<1>10. CASE ~IsData(f)
  <2>1. part(f) = <<>>
    BY <1>10 DEF part
  <2> DEFINE d == Data(fs)
  <2>2. d \in Seq(Frame)
    BY <1>8
  <2> HIDE DEF d
  <2>3. d \o <<>> = d
    BY <2>2
  <2> QED
    BY <1>7, <1>8, <1>10, <2>1, <2>3 DEF d, es
<1> QED
  BY <1>9, <1>10

-----------------------------------------------------------------------------
(* receive(): the invariant.                                               *)

(* Text or Binary first, then Continuations. *)
Opens(m) == \A i \in 1..Len(m) : IsOpening(m[i]) <=> i = 1

(* A message that receive() returns, and the one it is putting together. *)
Whole(m) ==
  m # <<>> /\ SizeOf(m) <= Cap /\ Opens(m) /\ \A i \in 1..Len(m) : m[i].fin <=> i = Len(m)
Partial(m) == Opens(m) /\ \A i \in 1..Len(m) : ~m[i].fin

(* The data frames consumed are those of the messages returned, up to a    *)
(* FIN, and of the one under way.                                          *)
Ended(joined) == joined = <<>> \/ joined[Len(joined)].fin
Flow(data, returned, now) == Ended(FlattenSeq(returned)) /\ data = FlattenSeq(returned) \o now

FlowAt(at, frag, now, all, returned) ==
  /\ at = "receive" => Partial(now) /\ Flow(Data(all), returned, now)
  /\ at = "receive" => (frag <=> now # <<>>)
  /\ at = "app" => Flow(Data(all), returned, <<>>)
  /\ \A k \in 1..Len(returned) : Whole(returned[k])
  /\ SizeOf(now) <= Cap

FlowInv == FlowAt(pc, fragmenting, message, seen, delivered)

ReceiveInv == ReceiveTypeOK /\ FlowInv

(* A frame that is taken fits the cap. *)
LEMMA TakeFacts ==
  ASSUME ReceiveInv, line # <<>>, NEW f, f = Head(line), Take(f)
  PROVE  /\ f \in Frame /\ f.len <= Cap /\ pc = "receive"
         /\ line' \in Seq(Frame) /\ buf_' \in 0..Bytes(line') /\ buf_' <= buf_
         /\ seen' \in Seq(Frame)
         /\ Data(seen') = IF IsData(f) THEN Append(Data(seen), f) ELSE Data(seen)
<1>1. /\ line \in Seq(Frame) /\ seen \in Seq(Frame) /\ buf_ \in 0..Bytes(line)
  BY DEF ReceiveInv, ReceiveTypeOK
<1>2. f \in Frame /\ Tail(line) \in Seq(Frame)
  BY <1>1
<1>3. /\ pc = "receive" /\ buf_ >= FrameSize(f) /\ ~TooBig
      /\ line' = Tail(line) /\ buf_' = buf_ - FrameSize(f) /\ seen' = Append(seen, f)
  BY DEF Take, Parsed
<1>4. /\ Bytes(line) \in Nat /\ Bytes(Tail(line)) \in Nat
      /\ Bytes(line) = FrameSize(f) + Bytes(Tail(line))
  BY <1>1, <1>2, BytesFacts
<1>5. FrameSize(f) \in Nat /\ f.len \in Nat
  BY <1>2, FrameFacts
<1>6. f.len <= Cap
  <2> DEFINE h == HeadSize(f.form, FALSE)
  <2>1. ~(buf_ >= h /\ f.len > Cap)
    BY <1>3 DEF TooBig
  <2>2. FrameSize(f) >= h /\ h \in 2..10
    BY <1>2, FrameFacts
  <2>3. Cap \in Nat
    BY ReceiveAssumption
  <2>4. buf_ \in Nat
    BY <1>1, <1>4
  <2> DEFINE size == FrameSize(f) l == f.len
  <2>5. size \in Nat /\ l \in Nat /\ buf_ >= size /\ size >= h
    BY <1>3, <1>5, <2>2
  <2> HIDE DEF h, size
  <2>6. buf_ >= h
    BY <2>2, <2>4, <2>5
  <2> QED
    BY <2>1, <2>3, <2>5, <2>6
<1>7. buf_' \in 0..Bytes(line') /\ buf_' <= buf_
  BY <1>1, <1>3, <1>4, <1>5
<1>8. Data(seen') = IF IsData(f) THEN Append(Data(seen), f) ELSE Data(seen)
  BY <1>1, <1>2, <1>3, DataFacts
<1>9. seen' \in Seq(Frame)
  BY <1>1, <1>2, <1>3
<1> QED
  BY <1>2, <1>3, <1>6, <1>7, <1>8, <1>9

(* What Append() does. *)
LEMMA AppendFacts ==
  ASSUME NEW S, NEW s \in Seq(S), NEW x \in S
  PROVE  /\ Append(s, x) \in Seq(S) /\ Len(Append(s, x)) = Len(s) + 1
         /\ Append(s, x)[Len(s) + 1] = x /\ \A i \in 1..Len(s) : Append(s, x)[i] = s[i]
OBVIOUS

(* Appending behind two sequences. *)
Behind(s, t, x) == Append(s \o t, x) = s \o Append(t, x)

(* It is appending to the second. *)
LEMMA AppendBehind ==
  ASSUME NEW S, NEW s \in Seq(S), NEW t \in Seq(S), NEW x \in S
  PROVE  Behind(s, t, x)
<1> DEFINE a == Append(s \o t, x) b == s \o Append(t, x)
<1>0. Len(s) \in Nat /\ Len(t) \in Nat
  OBVIOUS
<1>9. \A d \in Seq(S) :
        /\ Append(d, x) \in Seq(S) /\ Len(Append(d, x)) = Len(d) + 1 /\ Append(d, x)[Len(d) + 1] = x
        /\ \A i \in 1..Len(d) : Append(d, x)[i] = d[i]
  BY AppendFacts
<1>1. /\ a \in Seq(S) /\ Len(a) = Len(s) + Len(t) + 1 /\ a[Len(s) + Len(t) + 1] = x
      /\ \A i \in 1..(Len(s) + Len(t)) : a[i] = IF i <= Len(s) THEN s[i] ELSE t[i - Len(s)]
  <2> DEFINE c == s \o t
  <2>1. /\ c \in Seq(S) /\ Len(c) = Len(s) + Len(t)
        /\ \A i \in 1..Len(c) : c[i] = IF i <= Len(s) THEN s[i] ELSE t[i - Len(s)]
    OBVIOUS
  <2> HIDE DEF c
  <2>2. /\ Append(c, x) \in Seq(S) /\ Len(Append(c, x)) = Len(c) + 1 /\ Append(c, x)[Len(c) + 1] = x
        /\ \A i \in 1..Len(c) : Append(c, x)[i] = c[i]
    BY <1>9, <2>1, Zenon
  <2>3. a = Append(c, x)
    BY DEF c
  <2> HIDE DEF a
  <2> QED
    BY <2>1, <2>2, <2>3
<1>2. /\ b \in Seq(S) /\ Len(b) = Len(s) + Len(t) + 1 /\ b[Len(s) + Len(t) + 1] = x
      /\ \A i \in 1..(Len(s) + Len(t)) : b[i] = IF i <= Len(s) THEN s[i] ELSE t[i - Len(s)]
  <2> DEFINE c == Append(t, x)
  <2>1. /\ c \in Seq(S) /\ Len(c) = Len(t) + 1 /\ c[Len(t) + 1] = x
        /\ \A i \in 1..Len(t) : c[i] = t[i]
    OBVIOUS
  <2> HIDE DEF c
  <2>2. /\ s \o c \in Seq(S) /\ Len(s \o c) = Len(s) + Len(c)
        /\ \A i \in 1..(Len(s) + Len(c)) : (s \o c)[i] = IF i <= Len(s) THEN s[i] ELSE c[i - Len(s)]
    BY <2>1
  <2>3. b = s \o c
    BY DEF c
  <2> HIDE DEF b
  <2> QED
    BY <1>0, <2>1, <2>2, <2>3
<1> HIDE DEF a, b
<1>3. \A i \in 1..(Len(s) + Len(t) + 1) : a[i] = b[i]
  <2>1. \A i \in 1..(Len(s) + Len(t) + 1) : i = Len(s) + Len(t) + 1 \/ i \in 1..(Len(s) + Len(t))
    BY <1>0
  <2> QED
    BY <1>1, <1>2, <2>1, Zenon
<1>4. a = b
  BY <1>1, <1>2, <1>3, SeqEqual
<1> QED
  BY <1>4 DEF a, b, Behind

(* The message under way takes one more frame ... *)
LEMMA FlowGrows ==
  ASSUME NEW data \in Seq(Frame), NEW returned \in Seq(Seq(Frame)), NEW now \in Seq(Frame),
         NEW f \in Frame, Flow(data, returned, now)
  PROVE  Flow(Append(data, f), returned, Append(now, f))
<1> DEFINE joined == FlattenSeq(returned)
<1>1. joined \in Seq(Frame)
  BY FlattenAppend
<1>2. Ended(joined) /\ data = joined \o now
  BY DEF Flow
<1>3. \A s \in Seq(Frame) : Behind(s, now, f)
  BY AppendBehind
<1> HIDE DEF joined
<1>4. Append(data, f) = joined \o Append(now, f)
  BY <1>1, <1>2, <1>3 DEF Behind
<1> QED
  BY <1>2, <1>4 DEF Flow, joined

(* ... or is returned with its last. *)
LEMMA FlowReturns ==
  ASSUME NEW data \in Seq(Frame), NEW returned \in Seq(Seq(Frame)), NEW now \in Seq(Frame),
         NEW f \in Frame, Flow(data, returned, now), f.fin
  PROVE  Flow(Append(data, f), Append(returned, Append(now, f)), <<>>)
<1> DEFINE joined == FlattenSeq(returned) m == Append(now, f) all == joined \o m
<1>1. joined \in Seq(Frame) /\ m \in Seq(Frame) /\ Len(m) = Len(now) + 1 /\ m[Len(now) + 1] = f
  BY FlattenAppend, AppendFacts
<1>2. FlattenSeq(Append(returned, m)) = all
  BY <1>1, FlattenAppend
<1>3. Append(data, f) = all
  BY FlowGrows DEF Flow
<1>4. all \o <<>> = all
  <2>1. \A s \in Seq(Frame), t \in Seq(Frame) : (s \o t) \o <<>> = s \o t
    OBVIOUS
  <2> HIDE DEF joined, m
  <2> QED
    BY <1>1, <2>1, Zenon
<1>5. Ended(all)
  <2>1. \A s \in Seq(Frame), t \in Seq(Frame) : \A k \in Nat :
          Len(t) = k + 1 => (s \o t)[Len(s \o t)] = t[k + 1]
    OBVIOUS
  <2>2. Len(now) \in Nat
    OBVIOUS
  <2> HIDE DEF joined, m
  <2>4. all[Len(all)] = f
    BY <1>1, <2>1, <2>2, Zenon
  <2> HIDE DEF all
  <2> QED
    BY <2>4 DEF Ended
<1> HIDE DEF joined, m, all
<1>6. Flow(Append(data, f), Append(returned, m), <<>>)
  BY <1>2, <1>3, <1>4, <1>5 DEF Flow
<1> QED
  BY <1>6 DEF m

(* A message grows by a Continuation. *)
LEMMA FormGrows ==
  ASSUME NEW m \in Seq(Frame), NEW f \in Frame, Partial(m),
         IsOpening(f) <=> m = <<>>, SizeOf(m) + f.len <= Cap
  PROVE  /\ SizeOf(Append(m, f)) <= Cap
         /\ ~f.fin => Partial(Append(m, f))
         /\ f.fin => Whole(Append(m, f))
<1> DEFINE a == Append(m, f) n == Len(m)
<1>1. /\ a \in Seq(Frame) /\ Len(a) = n + 1 /\ a[n + 1] = f /\ \A i \in 1..n : a[i] = m[i]
      /\ n \in Nat
  BY AppendFacts
<1>2. SizeOf(a) <= Cap
  BY SizeFacts
<1>3. m = <<>> <=> n = 0
  OBVIOUS
<1> HIDE DEF a, n
<1>4. \A i \in 1..(n + 1) : i = n + 1 \/ (i \in 1..n /\ i # n + 1)
  BY <1>1
<1>5. Opens(m) /\ \A i \in 1..n : ~m[i].fin
  BY DEF Partial, n
<1>6. Opens(a)
  <2>1. \A i \in 1..n : IsOpening(a[i]) <=> i = 1
    BY <1>1, <1>5 DEF Opens, n
  <2>2. IsOpening(a[n + 1]) <=> n + 1 = 1
    BY <1>1, <1>3
  <2> QED
    BY <1>1, <1>4, <2>1, <2>2 DEF Opens
<1>7. a # <<>>
  BY <1>1
<1>8. ASSUME ~f.fin
      PROVE  Partial(a)
  <2>1. \A i \in 1..(n + 1) : ~a[i].fin
    BY <1>1, <1>4, <1>5, <1>8
  <2> QED
    BY <1>1, <1>6, <2>1 DEF Partial
<1>9. ASSUME f.fin
      PROVE  Whole(a)
  <2>1. \A i \in 1..(n + 1) : a[i].fin <=> i = n + 1
    BY <1>1, <1>4, <1>5, <1>9
  <2> QED
    BY <1>1, <1>2, <1>6, <1>7, <2>1 DEF Whole
<1> QED
  BY <1>2, <1>8, <1>9 DEF a

(* Nothing has been received. *)
LEMMA NothingYet ==
  /\ Partial(<<>>) /\ Flow(<<>>, <<>>, <<>>) /\ SizeOf(<<>>) = 0 /\ Data(<<>>) = <<>>
  /\ Bytes(<<>>) = 0
<1>1. <<>> \in Seq(Frame) /\ <<>> \in Seq(Seq(Frame)) /\ Len(<<>>) = 0
  OBVIOUS
<1>2. Partial(<<>>)
  BY <1>1 DEF Partial, Opens
<1>3. Bytes(<<>>) = 0
  BY <1>1, BytesFacts
<1> DEFINE f == [op |-> "Text", fin |-> TRUE, masked |-> TRUE, form |-> 1, len |-> 0]
<1>4. f \in Frame
  BY ShortForm DEF Frame, Opcode
<1> HIDE DEF f
<1>5. SizeOf(<<>>) = 0 /\ Data(<<>>) = <<>>
  BY <1>1, <1>4, SizeFacts, DataFacts
<1>6. FlattenSeq(<<>>) = <<>>
  BY DEF FlattenSeq
<1>7. <<>> \o <<>> = <<>>
  OBVIOUS
<1> QED
  BY <1>2, <1>3, <1>5, <1>6, <1>7 DEF Flow, Ended

(* receive() and the peer keep the invariant.  First what moves bytes, or  *)
(* ends the call, without consuming a frame.                               *)
LEMMA BytesMove ==
  ASSUME ReceiveInv,
         PeerEnds \/ Call \/ RecvEnds \/ (\E f \in Frames : PeerSends(f)) \/ (\E n \in Pieces : Recv(n))
  PROVE  ReceiveInv'
<1>1. /\ line \in Seq(Frame) /\ eof \in BOOLEAN /\ buf_ \in 0..Bytes(line)
      /\ pc \in {"app", "receive", "closed"}
      /\ fragmenting \in BOOLEAN /\ message \in Seq(Frame)
      /\ seen \in Seq(Frame) /\ delivered \in Seq(Seq(Frame))
      /\ replies \in Seq([kind : {"close", "pong"}, asked : Nat])
  BY DEF ReceiveInv, ReceiveTypeOK
<1>2. FlowAt(pc, fragmenting, message, seen, delivered) /\ Cap \in Nat
  BY ReceiveAssumption DEF ReceiveInv, FlowInv
<1>3. Bytes(line) \in Nat
  BY <1>1, BytesFacts
<1>4. CASE PeerEnds
  <2>1. ReceiveTypeOK'
    BY <1>1, <1>4 DEF PeerEnds, ReceiveTypeOK
  <2>2. FlowAt(pc, fragmenting, message, seen, delivered)'
    BY <1>2, <1>4 DEF PeerEnds
  <2> QED
    BY <2>1, <2>2 DEF ReceiveInv, FlowInv
<1>5. CASE Call
  <2>1. <<>> \in Seq(Frame)
    OBVIOUS
  <2>2. ReceiveTypeOK'
    BY <1>1, <1>5, <2>1 DEF Call, ReceiveTypeOK
  <2>3. FlowAt("receive", FALSE, <<>>, seen, delivered)
    BY <1>2, <1>5, NothingYet DEF FlowAt, Call
  <2>4. FlowAt(pc, fragmenting, message, seen, delivered)'
    BY <1>5, <2>3 DEF Call
  <2> QED
    BY <2>2, <2>4 DEF ReceiveInv, FlowInv
<1>6. CASE RecvEnds
  <2>1. ReceiveTypeOK'
    BY <1>1, <1>6 DEF RecvEnds, ReceiveTypeOK
  <2>2. FlowAt("closed", fragmenting, message, seen, delivered)
    BY <1>2 DEF FlowAt
  <2>3. FlowAt(pc, fragmenting, message, seen, delivered)'
    BY <1>6, <2>2 DEF RecvEnds
  <2> QED
    BY <2>1, <2>3 DEF ReceiveInv, FlowInv
<1>7. CASE \E f \in Frames : PeerSends(f)
  <2>1. PICK f \in Frames : PeerSends(f)
    BY <1>7
  <2>2. f \in Frame
    BY ReceiveAssumption
  <2>3. /\ Append(line, f) \in Seq(Frame) /\ Bytes(Append(line, f)) >= Bytes(line)
        /\ Bytes(Append(line, f)) \in Nat
    BY <1>1, <2>2, BytesFacts, AppendFacts
  <2>4. buf_ \in 0..Bytes(Append(line, f))
    BY <1>1, <1>3, <2>3
  <2>5. ReceiveTypeOK'
    BY <1>1, <2>1, <2>3, <2>4 DEF PeerSends, ReceiveTypeOK
  <2>6. FlowAt(pc, fragmenting, message, seen, delivered)'
    BY <1>2, <2>1 DEF PeerSends
  <2> QED
    BY <2>5, <2>6 DEF ReceiveInv, FlowInv
<1>8. CASE \E n \in Pieces : Recv(n)
  <2>1. PICK n \in Pieces : Recv(n)
    BY <1>8
  <2>2. n \in Nat
    BY ReceiveAssumption
  <2>3. buf_' \in 0..Bytes(line)
    BY <1>1, <1>3, <2>1, <2>2 DEF Recv
  <2>4. ReceiveTypeOK'
    BY <1>1, <2>1, <2>3 DEF Recv, ReceiveTypeOK
  <2>5. FlowAt(pc, fragmenting, message, seen, delivered)'
    BY <1>2, <2>1 DEF Recv
  <2> QED
    BY <2>4, <2>5 DEF ReceiveInv, FlowInv
<1> QED
  BY <1>4, <1>5, <1>6, <1>7, <1>8

(* One more answer. *)
LEMMA OneMoreReply ==
  ASSUME NEW kind \in {"close", "pong"}, NEW asked \in Nat, ReceiveTypeOK,
         replies' = Append(replies, [kind |-> kind, asked |-> asked])
  PROVE  replies' \in Seq([kind : {"close", "pong"}, asked : Nat])
<1>1. replies \in Seq([kind : {"close", "pong"}, asked : Nat])
  BY DEF ReceiveTypeOK
<1>2. [kind |-> kind, asked |-> asked] \in [kind : {"close", "pong"}, asked : Nat]
  OBVIOUS
<1> QED
  BY <1>1, <1>2

(* The connection is closed. *)
LEMMA Closed ==
  ASSUME ReceiveInv, Refuse \/ (line # <<>> /\ Take(Head(line)) /\ Fail)
  PROVE  ReceiveInv'
<1>1. /\ line \in Seq(Frame) /\ eof \in BOOLEAN /\ buf_ \in 0..Bytes(line)
      /\ fragmenting \in BOOLEAN /\ message \in Seq(Frame)
      /\ seen \in Seq(Frame) /\ delivered \in Seq(Seq(Frame)) /\ ReceiveTypeOK
  BY DEF ReceiveInv, ReceiveTypeOK
<1>2. FlowAt(pc, fragmenting, message, seen, delivered)
  BY DEF ReceiveInv, FlowInv
<1>3. Fail
  BY DEF Refuse
<1>4. /\ pc' = "closed" /\ eof' = eof /\ fragmenting' = fragmenting
      /\ message' = message /\ delivered' = delivered
      /\ replies' \in Seq([kind : {"close", "pong"}, asked : Nat])
  <2>1. 0 \in Nat /\ "close" \in {"close", "pong"}
    OBVIOUS
  <2> QED
    BY <1>1, <1>3, <2>1, OneMoreReply DEF Fail
<1>5. line' \in Seq(Frame) /\ buf_' \in 0..Bytes(line') /\ seen' \in Seq(Frame)
  <2>1. CASE Refuse
    BY <1>1, <2>1 DEF Refuse
  <2>2. CASE line # <<>> /\ Take(Head(line)) /\ Fail
    BY <2>2, TakeFacts
  <2> QED
    BY <2>1, <2>2
<1>6. ReceiveTypeOK'
  BY <1>1, <1>4, <1>5 DEF ReceiveTypeOK
<1>7. FlowAt("closed", fragmenting, message, seen', delivered)
  BY <1>2 DEF FlowAt
<1>8. FlowAt(pc, fragmenting, message, seen, delivered)'
  BY <1>4, <1>7
<1> QED
  BY <1>6, <1>8 DEF ReceiveInv, FlowInv

(* What stands before a frame is taken. *)
LEMMA Before ==
  ASSUME ReceiveInv
  PROVE  /\ eof \in BOOLEAN /\ fragmenting \in BOOLEAN /\ message \in Seq(Frame)
         /\ seen \in Seq(Frame) /\ Data(seen) \in Seq(Frame) /\ delivered \in Seq(Seq(Frame))
         /\ pc \in {"app", "receive", "closed"}
         /\ replies \in Seq([kind : {"close", "pong"}, asked : Nat])
         /\ FlowAt(pc, fragmenting, message, seen, delivered)
<1>1. seen \in Seq(Frame)
  BY DEF ReceiveInv, ReceiveTypeOK
<1> DEFINE f == [op |-> "Text", fin |-> TRUE, masked |-> TRUE, form |-> 1, len |-> 0]
<1>2. f \in Frame
  BY ShortForm DEF Frame, Opcode
<1> HIDE DEF f
<1>3. Data(seen) \in Seq(Frame)
  BY <1>1, <1>2, DataFacts
<1> QED
  BY <1>3 DEF ReceiveInv, ReceiveTypeOK, FlowInv

(* A Ping, a Pong or a frame with a reserved opcode. *)
LEMMA ControlTaken ==
  ASSUME ReceiveInv, line # <<>>, NEW f, f = Head(line), OnPing(f) \/ OnIgnored(f)
  PROVE  ReceiveInv'
<1>1. Take(f) /\ f.op \in {"Ping", "Pong", "reserved"}
  BY DEF OnPing, OnIgnored
<1>2. /\ f \in Frame /\ line' \in Seq(Frame) /\ buf_' \in 0..Bytes(line') /\ seen' \in Seq(Frame)
      /\ Data(seen') = IF IsData(f) THEN Append(Data(seen), f) ELSE Data(seen)
  BY <1>1, TakeFacts
<1>3. Data(seen') = Data(seen)
  BY <1>1, <1>2 DEF IsData, IsOpening
<1>4. /\ eof' = eof /\ pc' = pc /\ fragmenting' = fragmenting
      /\ message' = message /\ delivered' = delivered
  BY DEF OnPing, OnIgnored
<1>5. replies' \in Seq([kind : {"close", "pong"}, asked : Nat])
  <2>1. CASE OnPing(f)
    <3>1. f.len \in Nat /\ "pong" \in {"close", "pong"} /\ ReceiveTypeOK
      BY <1>2, FrameFacts DEF ReceiveInv
    <3> QED
      BY <2>1, <3>1, OneMoreReply DEF OnPing
  <2>2. CASE OnIgnored(f)
    BY <2>2, Before DEF OnIgnored
  <2> QED
    BY <2>1, <2>2
<1>6. ReceiveTypeOK'
  BY <1>2, <1>4, <1>5, Before DEF ReceiveTypeOK
<1>7. FlowAt(pc, fragmenting, message, seen', delivered)
  BY <1>3, Before DEF FlowAt
<1>8. FlowAt(pc, fragmenting, message, seen, delivered)'
  BY <1>4, <1>7
<1> QED
  BY <1>6, <1>8 DEF ReceiveInv, FlowInv

(* The messages returned are whole, and so is one more. *)
LEMMA OneMoreWhole ==
  ASSUME NEW returned \in Seq(Seq(Frame)), NEW m \in Seq(Frame), Whole(m),
         \A k \in 1..Len(returned) : Whole(returned[k])
  PROVE  /\ Append(returned, m) \in Seq(Seq(Frame))
         /\ \A k \in 1..Len(Append(returned, m)) : Whole(Append(returned, m)[k])
<1> DEFINE a == Append(returned, m) n == Len(returned)
<1>1. /\ a \in Seq(Seq(Frame)) /\ Len(a) = n + 1 /\ a[n + 1] = m /\ \A k \in 1..n : a[k] = returned[k]
      /\ n \in Nat
  BY AppendFacts
<1>2. \A k \in 1..(n + 1) : k = n + 1 \/ k \in 1..n
  BY <1>1
<1> HIDE DEF a
<1>3. \A k \in 1..Len(a) : Whole(a[k])
  BY <1>1, <1>2
<1> QED
  BY <1>1, <1>3 DEF a

(* A data frame in its place: the message grows, or is returned. *)
LEMMA DataTaken ==
  ASSUME ReceiveInv, line # <<>>, NEW f, f = Head(line), OnWhole(f) \/ OnFirst(f) \/ OnContinuation(f)
  PROVE  ReceiveInv'
<1>1. Take(f) /\ IsData(f)
  BY DEF OnWhole, OnFirst, OnContinuation, IsData
<1>2. /\ f \in Frame /\ f.len <= Cap /\ pc = "receive"
      /\ line' \in Seq(Frame) /\ buf_' \in 0..Bytes(line') /\ seen' \in Seq(Frame)
      /\ Data(seen') = Append(Data(seen), f)
  BY <1>1, TakeFacts
<1>3. f.len \in Nat /\ f.fin \in BOOLEAN /\ Cap \in Nat /\ SizeOf(message) \in Nat
  <2>0. f.fin \in BOOLEAN /\ f.len \in Nat
    BY <1>2 DEF Frame
  <2>1. Cap \in Nat
    BY ReceiveAssumption
  <2>2. SizeOf(message) \in Nat
    BY <1>2, Before, SizeFacts
  <2> QED
    BY <2>0, <2>1, <2>2
<1>4. /\ Partial(message) /\ Flow(Data(seen), delivered, message) /\ SizeOf(message) <= Cap
      /\ \A k \in 1..Len(delivered) : Whole(delivered[k])
  BY <1>2, Before DEF FlowAt
<1>5. fragmenting <=> message # <<>>
  BY <1>2, Before DEF FlowAt
<1> DEFINE m == Append(message, f)
<1>6. /\ OnWhole(f) => message = <<>> /\ f.fin /\ IsOpening(f) /\ Return(m)
      /\ OnFirst(f) => message = <<>> /\ ~f.fin /\ IsOpening(f) /\ message' = m /\ fragmenting' = TRUE
      /\ OnContinuation(f) => message # <<>> /\ ~IsOpening(f) /\ ~Overflows(f)
      /\ OnContinuation(f) /\ f.fin => Return(m)
      /\ OnContinuation(f) /\ ~f.fin => message' = m /\ fragmenting' = fragmenting
  <2>1. message = <<>> => m = <<f>>
    OBVIOUS
  <2> HIDE DEF m
  <2>2. OnWhole(f) => message = <<>> /\ f.fin /\ IsOpening(f) /\ Return(<<f>>)
    BY <1>5 DEF OnWhole
  <2>3. OnFirst(f) => message = <<>> /\ ~f.fin /\ IsOpening(f) /\ message' = <<f>> /\ fragmenting' = TRUE
    BY <1>5 DEF OnFirst
  <2>4. OnContinuation(f) => message # <<>> /\ ~IsOpening(f) /\ ~Overflows(f)
    BY <1>5 DEF OnContinuation, IsOpening
  <2>5. /\ OnContinuation(f) /\ f.fin => Return(m)
        /\ OnContinuation(f) /\ ~f.fin => message' = m /\ fragmenting' = fragmenting
    BY DEF OnContinuation, m
  <2> QED
    BY <2>1, <2>2, <2>3, <2>4, <2>5
<1>7. SizeOf(message) + f.len <= Cap
  <2>1. CASE OnContinuation(f)
    <3>1. ~(SizeOf(message) + f.len > Cap)
      BY <1>6, <2>1 DEF Overflows
    <3> QED
      BY <1>3, <3>1
  <2>2. CASE message = <<>>
    BY <1>2, <1>3, <2>2, NothingYet
  <2> QED
    BY <1>6, <2>1, <2>2
<1>8. IsOpening(f) <=> message = <<>>
  BY <1>6
<1>9. /\ m \in Seq(Frame) /\ m # <<>> /\ SizeOf(m) <= Cap
      /\ ~f.fin => Partial(m)
      /\ f.fin => Whole(m)
  <2>1. message \in Seq(Frame)
    BY Before
  <2>2. m \in Seq(Frame) /\ m # <<>>
    BY <1>2, <2>1
  <2>3. SizeOf(m) <= Cap /\ (~f.fin => Partial(m)) /\ (f.fin => Whole(m))
    BY <1>2, <1>4, <1>7, <1>8, <2>1, FormGrows
  <2> HIDE DEF m
  <2> QED
    BY <2>2, <2>3
<1>10. CASE f.fin
  <2>1. Return(m)
    BY <1>6, <1>10
  <2>2. /\ pc' = "app" /\ delivered' = Append(delivered, m) /\ eof' = eof
        /\ fragmenting' = fragmenting /\ message' = message /\ replies' = replies
    BY <2>1 DEF Return
  <2>3. /\ delivered' \in Seq(Seq(Frame)) /\ \A k \in 1..Len(delivered') : Whole(delivered'[k])
    <3> HIDE DEF m
    <3>1. m \in Seq(Frame) /\ Whole(m) /\ delivered \in Seq(Seq(Frame))
      BY <1>9, <1>10, Before
    <3>2. /\ Append(delivered, m) \in Seq(Seq(Frame))
          /\ \A k \in 1..Len(Append(delivered, m)) : Whole(Append(delivered, m)[k])
      BY <1>4, <3>1, OneMoreWhole
    <3> QED
      BY <2>2, <3>2
  <2>4. Flow(Append(Data(seen), f), Append(delivered, m), <<>>)
    BY <1>2, <1>4, <1>10, Before, FlowReturns
  <2> HIDE DEF m
  <2>5. ReceiveTypeOK'
    BY <1>2, <2>2, <2>3, Before DEF ReceiveTypeOK
  <2>6. FlowAt("app", fragmenting, message, seen', delivered')
    BY <1>2, <1>4, <2>2, <2>3, <2>4 DEF FlowAt
  <2>7. FlowAt(pc, fragmenting, message, seen, delivered)'
    BY <2>2, <2>6
  <2> QED
    BY <2>5, <2>7 DEF ReceiveInv, FlowInv
<1>11. CASE ~f.fin
  <2>1. ~OnWhole(f)
    BY <1>6, <1>11
  <2>2. /\ pc' = pc /\ delivered' = delivered /\ eof' = eof /\ replies' = replies /\ message' = m
        /\ fragmenting' = TRUE
    <3>1. message' = m
      BY <1>6, <1>11, <2>1 DEF m
    <3>2. fragmenting' = TRUE
      <4>1. fragmenting' = TRUE \/ (fragmenting' = fragmenting /\ message # <<>>)
        BY <1>6, <1>11, <2>1
      <4>2. fragmenting \in BOOLEAN
        BY Before
      <4> QED
        BY <1>5, <4>1, <4>2
    <3>3. pc' = pc /\ delivered' = delivered /\ eof' = eof /\ replies' = replies
      BY <1>11, <2>1 DEF OnFirst, OnContinuation
    <3> QED
      BY <3>1, <3>2, <3>3
  <2>3. Flow(Append(Data(seen), f), delivered, m)
    BY <1>2, <1>4, Before, FlowGrows
  <2> HIDE DEF m
  <2>4. ReceiveTypeOK'
    BY <1>2, <1>9, <2>2, Before DEF ReceiveTypeOK
  <2>5. FlowAt("receive", TRUE, m, seen', delivered)
    BY <1>2, <1>4, <1>9, <1>11, <2>3 DEF FlowAt
  <2>6. FlowAt(pc, fragmenting, message, seen, delivered)'
    BY <1>2, <2>2, <2>5
  <2> QED
    BY <2>4, <2>6 DEF ReceiveInv, FlowInv
<1> QED
  BY <1>3, <1>10, <1>11

(* Every step keeps the invariant. *)
LEMMA ReceiveStep ==
  ReceiveInv /\ [ReceiveNext]_receivevars => ReceiveInv'
<1> SUFFICES ASSUME ReceiveInv, [ReceiveNext]_receivevars
             PROVE  ReceiveInv'
  OBVIOUS
<1>1. CASE PeerEnds \/ Call \/ RecvEnds \/ (\E f \in Frames : PeerSends(f)) \/ (\E n \in Pieces : Recv(n))
  BY <1>1, BytesMove
<1>2. CASE Refuse
  BY <1>2, Closed
<1>3. CASE line # <<>> /\ On(Head(line))
  <2> DEFINE f == Head(line)
  <2>1. f = Head(line) /\ line # <<>> /\ On(f)
    BY <1>3
  <2> HIDE DEF f
  <2>2. CASE OnClose(f) \/ OnOutOfPlace(f) \/ OnOverflow(f)
    <3>1. Take(f) /\ Fail
      BY <2>2 DEF OnClose, OnOutOfPlace, OnOverflow
    <3> QED
      BY <2>1, <3>1, Closed
  <2>3. CASE OnPing(f) \/ OnIgnored(f)
    BY <2>1, <2>3, ControlTaken
  <2>4. CASE OnWhole(f) \/ OnFirst(f) \/ OnContinuation(f)
    BY <2>1, <2>4, DataTaken
  <2> QED
    BY <2>1, <2>2, <2>3, <2>4 DEF On
<1>4. CASE UNCHANGED receivevars
  <2>1. ReceiveTypeOK'
    BY <1>4 DEF receivevars, ReceiveInv, ReceiveTypeOK
  <2>2. FlowAt(pc, fragmenting, message, seen, delivered)'
    BY <1>4, Before DEF receivevars
  <2> QED
    BY <2>1, <2>2 DEF ReceiveInv, FlowInv
<1> QED
  BY <1>1, <1>2, <1>3, <1>4 DEF ReceiveNext, Receive

(* It holds at first. *)
LEMMA ReceiveStarts ==
  ReceiveInit => ReceiveInv
<1> SUFFICES ASSUME ReceiveInit
             PROVE  ReceiveInv
  OBVIOUS
<1>1. /\ <<>> \in Seq(Frame) /\ <<>> \in Seq(Seq(Frame)) /\ Len(<<>>) = 0
      /\ <<>> \in Seq([kind : {"close", "pong"}, asked : Nat])
  OBVIOUS
<1>2. ReceiveTypeOK
  <2>1. 0 \in 0..Bytes(<<>>)
    BY NothingYet
  <2>2. buf_ \in 0..Bytes(line)
    BY <2>1 DEF ReceiveInit
  <2> QED
    BY <1>1, <2>2 DEF ReceiveInit, ReceiveTypeOK
<1>3. FlowAt("app", FALSE, <<>>, <<>>, <<>>)
  BY <1>1, NothingYet, ReceiveAssumption DEF FlowAt
<1>4. FlowInv
  BY <1>3 DEF ReceiveInit, FlowInv
<1> QED
  BY <1>2, <1>4 DEF ReceiveInv

(* The frames up to the last FIN are those of the messages returned. *)
LEMMA LastEndFacts ==
  ASSUME NEW joined \in Seq(Frame), NEW now \in Seq(Frame), Ended(joined), Partial(now)
  PROVE  joined = SubSeq(joined \o now, 1, LastEnd(joined \o now))
<1> DEFINE d == joined \o now n == Len(joined)
           T == {0} \union {i \in 1..Len(d) : d[i].fin}
<1>1. /\ d \in Seq(Frame) /\ n \in Nat /\ Len(now) \in Nat /\ Len(d) = n + Len(now)
      /\ \A i \in 1..n : d[i] = joined[i]
      /\ \A i \in (n + 1)..(n + Len(now)) : d[i] = now[i - n]
  OBVIOUS
<1>2. SubSeq(d, 1, n) = joined
  OBVIOUS
<1>3. LastEnd(d) = Max(T)
  BY DEF LastEnd
<1>4. joined = <<>> <=> n = 0
  OBVIOUS
<1> HIDE DEF d, n
<1>5. n \in T
  <2>1. CASE n = 0
    BY <2>1
  <2>2. CASE n # 0
    <3>1. n \in 1..n /\ n \in 1..Len(d)
      BY <1>1, <2>2
    <3>2. d[n].fin
      BY <1>1, <1>4, <2>2, <3>1 DEF Ended, n
    <3> QED
      BY <3>1, <3>2
  <2> QED
    BY <2>1, <2>2
<1>6. ASSUME NEW i \in T
      PROVE  i <= n
  <2>1. CASE i = 0
    BY <1>1, <2>1
  <2>2. CASE i \in 1..Len(d) /\ d[i].fin /\ i > n
    <3>1. i \in (n + 1)..(n + Len(now)) /\ i - n \in 1..Len(now)
      BY <1>1, <2>2
    <3>2. ~now[i - n].fin
      BY <3>1 DEF Partial
    <3> QED
      BY <1>1, <2>2, <3>1, <3>2
  <2> QED
    BY <1>1, <2>1, <2>2
<1>7. T \in SUBSET (0..Len(d)) /\ T # {} /\ Len(d) \in Nat
  BY <1>1
<1> HIDE DEF T
<1>8. Max(T) \in T /\ Max(T) >= n
  BY <1>5, <1>7, MaxFacts
<1>9. Max(T) \in 0..Len(d) /\ Max(T) <= n
  BY <1>6, <1>7, <1>8
<1>10. Max(T) = n
  BY <1>1, <1>8, <1>9
<1> QED
  BY <1>2, <1>3, <1>10 DEF d

(* What the invariant says of the messages. *)
LEMMA ReassemblyHolds ==
  ReceiveInv => Reassembly
<1> SUFFICES ASSUME ReceiveInv
             PROVE  Reassembly
  OBVIOUS
<1>1. ASSUME pc # "closed"
      PROVE  FlattenSeq(delivered) = SubSeq(Data(seen), 1, LastEnd(Data(seen)))
  <2> DEFINE joined == FlattenSeq(delivered) now == IF pc = "receive" THEN message ELSE <<>>
  <2>1. joined \in Seq(Frame)
    BY Before, FlattenAppend
  <2>2. now \in Seq(Frame) /\ Partial(now)
    BY Before, NothingYet DEF FlowAt
  <2>3. Flow(Data(seen), delivered, now)
    BY <1>1, Before DEF FlowAt
  <2>4. Ended(joined) /\ Data(seen) = joined \o now
    BY <2>3 DEF Flow
  <2> HIDE DEF joined, now
  <2>5. joined = SubSeq(joined \o now, 1, LastEnd(joined \o now))
    BY <2>1, <2>2, <2>4, LastEndFacts
  <2> QED
    BY <2>4, <2>5 DEF joined
<1>2. ASSUME NEW k \in 1..Len(delivered)
      PROVE  Whole(delivered[k])
  BY <1>2, Before DEF FlowAt
<1>3. ASSUME NEW k \in 1..Len(delivered)
      PROVE  LET m == delivered[k] IN
               /\ m # <<>> /\ SizeOf(m) <= Cap
               /\ \A i \in 1..Len(m) : (IsOpening(m[i]) <=> i = 1) /\ (m[i].fin <=> i = Len(m))
  <2> DEFINE m == delivered[k]
  <2>1. Whole(m)
    BY <1>2
  <2> HIDE DEF m
  <2>2. /\ m # <<>> /\ SizeOf(m) <= Cap
        /\ \A i \in 1..Len(m) : (IsOpening(m[i]) <=> i = 1) /\ (m[i].fin <=> i = Len(m))
    BY <2>1 DEF Whole, Opens
  <2> QED
    BY <2>2 DEF m
<1> QED
  BY <1>1, <1>3 DEF Reassembly

(* receive()'s variables keep their types: buf_ never holds more than what *)
(* the peer has sent and receive() not yet consumed.                       *)
THEOREM ReceiveTypeCorrect ==
  ReceiveSpec => []ReceiveTypeOK
<1>1. ReceiveInv => ReceiveTypeOK
  BY DEF ReceiveInv
<1> QED
  BY <1>1, ReceiveStarts, ReceiveStep, PTL DEF ReceiveSpec

(* Reassembly: whatever frames the peer sends, cut up as the network likes *)
(* and with control frames between them, receive() (run_terminal()'s loop) *)
(* returns the messages that the frames it consumed make up, in order,     *)
(* each well-formed, ended by its FIN and within max_message_bytes_.       *)
THEOREM MessagesReassembled ==
  ReceiveSpec => []Reassembly
<1> QED
  BY ReassemblyHolds, ReceiveStarts, ReceiveStep, PTL DEF ReceiveSpec

-----------------------------------------------------------------------------
(* receive(): what is buffered, and the codec.                             *)

(* The bound, 14 being the longest head. *)
Room == 14 + Cap + Max(Pieces)

(* What the bound is made of. *)
LEMMA RoomFacts ==
  /\ Cap \in Nat /\ Max(Pieces) \in Nat /\ \A n \in Pieces : n \in Nat /\ n <= Max(Pieces)
  /\ Room \in Nat /\ Room > 0
<1>1. Cap \in Nat /\ Pieces \in SUBSET (0..4096) /\ Pieces # {} /\ 4096 \in Nat
  BY ReceiveAssumption
<1>2. Max(Pieces) \in Pieces /\ \A y \in Pieces : Max(Pieces) >= y
  <2> DEFINE N == 4096
  <2>1. N \in Nat /\ Pieces \in SUBSET (0..N) /\ Pieces # {}
    BY <1>1
  <2> HIDE DEF N
  <2> QED
    BY <2>1, MaxFacts
<1> DEFINE most == Max(Pieces)
<1>3. Room = 14 + Cap + most
  BY DEF Room
<1>4. most \in Pieces /\ \A y \in Pieces : most >= y
  BY <1>2
<1> HIDE DEF most
<1>5. most \in Nat /\ (\A n \in Pieces : n \in Nat /\ n <= most) /\ Room \in Nat /\ Room > 0
  BY <1>1, <1>3, <1>4
<1> QED
  BY <1>1, <1>5 DEF most

(* Before ::recv() is called, what is buffered is less than a frame that   *)
(* the cap allows, or than the head of one it does not.                    *)
LEMMA BeforeRecv ==
  ASSUME ReceiveInv, ~TooBig, ~Parsed, line # <<>>
  PROVE  buf_ < 14 + Cap
<1> DEFINE f == Head(line)
<1>1. f \in Frame /\ buf_ \in Nat
  <2>1. line \in Seq(Frame) /\ buf_ \in 0..Bytes(line)
    BY DEF ReceiveInv, ReceiveTypeOK
  <2>2. Bytes(line) \in Nat
    BY <2>1, BytesFacts
  <2> QED
    BY <2>1, <2>2
<1> DEFINE l == f.len bare == HeadSize(f.form, FALSE) size == FrameSize(f)
<1>2. ~(buf_ >= bare /\ l > Cap) /\ ~(buf_ >= size)
  BY DEF TooBig, Parsed
<1>3. l \in Nat /\ bare \in 2..10 /\ size \in Nat /\ size <= 14 + l /\ Cap \in Nat
  <2>1. Cap \in Nat
    BY ReceiveAssumption
  <2> HIDE DEF f
  <2>2. /\ f.len \in Nat /\ HeadSize(f.form, FALSE) \in 2..10
        /\ FrameSize(f) \in Nat /\ FrameSize(f) <= 14 + f.len
    BY <1>1, FrameFacts, Zenon
  <2> QED
    BY <2>1, <2>2, Zenon
<1> HIDE DEF f, l, bare, size
<1> QED
  BY <1>1, <1>2, <1>3

(* No step buffers more than that and one ::recv(). *)
LEMMA RoomStep ==
  ASSUME ReceiveInv, buf_ < Room, [ReceiveNext]_receivevars
  PROVE  buf_' < Room
<1>0. buf_ \in Nat /\ Room \in Nat /\ line \in Seq(Frame) /\ Bytes(line) \in Nat
  <2>1. line \in Seq(Frame) /\ buf_ \in 0..Bytes(line)
    BY DEF ReceiveInv, ReceiveTypeOK
  <2>2. Bytes(line) \in Nat
    BY <2>1, BytesFacts
  <2> QED
    BY <2>1, <2>2, RoomFacts
<1>1. CASE \E n \in Pieces : Recv(n)
  <2>1. PICK n \in Pieces : Recv(n)
    BY <1>1
  <2>2. ~TooBig /\ ~Parsed /\ Bytes(line) - buf_ > 0 /\ buf_' <= buf_ + n /\ buf_' \in Nat
    <3>1. n \in Nat
      BY ReceiveAssumption
    <3> QED
      BY <1>0, <2>1, <3>1 DEF Recv
  <2>3. line # <<>>
    BY <1>0, <2>2, NothingYet
  <2>4. buf_ < 14 + Cap
    BY <2>2, <2>3, BeforeRecv
  <2> DEFINE most == Max(Pieces)
  <2>5. most \in Nat /\ Cap \in Nat /\ n \in Nat /\ n <= most /\ Room = 14 + Cap + most
    BY RoomFacts DEF Room
  <2> HIDE DEF most
  <2> QED
    BY <1>0, <2>2, <2>4, <2>5
<1>2. CASE line # <<>> /\ On(Head(line))
  <2> DEFINE f == Head(line)
  <2>1. Take(f) /\ f = Head(line)
    BY <1>2 DEF On, OnClose, OnPing, OnIgnored, OnOutOfPlace, OnWhole, OnFirst, OnOverflow, OnContinuation
  <2> HIDE DEF f
  <2>2. buf_' <= buf_ /\ buf_' \in 0..Bytes(line') /\ line' \in Seq(Frame)
    BY <1>2, <2>1, TakeFacts
  <2>3. buf_' \in Nat
    <3>1. Bytes(line') \in Nat
      BY <2>2, BytesFacts
    <3> QED
      BY <2>2, <3>1
  <2> QED
    BY <1>0, <2>2, <2>3
<1>3. CASE PeerEnds \/ Call \/ RecvEnds \/ Refuse \/ (\E f \in Frames : PeerSends(f)) \/ UNCHANGED receivevars
  <2>1. buf_' = buf_
    BY <1>3 DEF PeerEnds, Call, RecvEnds, Refuse, PeerSends, receivevars
  <2> QED
    BY <2>1
<1> QED
  BY <1>1, <1>2, <1>3 DEF ReceiveNext, Receive

(* MemoryBounded, for every cap: whichever form a peer sends its lengths   *)
(* in, the server buffers less than the longest head, a payload of         *)
(* max_message_bytes_ and one ::recv() (parse_frame() judges the announced *)
(* length before the payload is there), and the message being put together *)
(* stays within the cap.                                                   *)
THEOREM MemoryIsBounded ==
  ReceiveSpec => []MemoryBounded
<1> DEFINE Inv == ReceiveInv /\ buf_ < Room
<1>1. ReceiveInit => Inv
  <2>1. ReceiveInit => buf_ < Room
    BY RoomFacts DEF ReceiveInit
  <2> QED
    BY <2>1, ReceiveStarts
<1>2. Inv /\ [ReceiveNext]_receivevars => Inv'
  <2>1. Room' = Room
    BY DEF Room
  <2>2. Inv /\ [ReceiveNext]_receivevars => buf_' < Room
    BY RoomStep
  <2>3. Inv /\ [ReceiveNext]_receivevars => ReceiveInv'
    BY ReceiveStep
  <2> QED
    BY <2>1, <2>2, <2>3
<1>3. Inv => MemoryBounded
  <2>1. ReceiveInv => SizeOf(message) <= Cap
    BY Before DEF FlowAt
  <2>2. HeadSize(9, TRUE) = 14
    BY DEF HeadSize
  <2>3. Room = HeadSize(9, TRUE) + Cap + Max(Pieces)
    BY <2>2 DEF Room
  <2> QED
    BY <2>1, <2>3, Zenon DEF MemoryBounded
<1> HIDE DEF Inv
<1> QED
  BY <1>1, <1>2, <1>3, PTL DEF ReceiveSpec

(* EncodersReadBack, around any lengths below 2^32 (the bytes of a length  *)
(* that the model has): parse_frame() reads the header of every encoder as *)
(* the length that was written, within the limits their comments state.    *)
THEOREM EncodersRead ==
  ASSUME Near \in Nat, \A b \in Boundaries : b \in Nat /\ b + Near < 4294967296
  PROVE  ReceiveSpec => []EncodersReadBack
<1>1. ASSUME NEW n \in NearBoundary
      PROVE  n \in Nat /\ n < 4294967296
  <2>1. PICK b \in Boundaries : n \in (IF b < Near THEN 0 ELSE b - Near)..(b + Near)
    BY DEF NearBoundary
  <2>2. b \in Nat /\ b + Near < 4294967296
    BY <2>1
  <2>3. CASE b < Near
    BY <2>1, <2>2, <2>3
  <2>4. CASE ~(b < Near)
    BY <2>1, <2>2, <2>4
  <2> QED
    BY <2>3, <2>4
<1>2. \A n \in NearBoundary :
        /\ ReadsBack(BinaryHeader(n), n)
        /\ n <= 65535 => ReadsBack(TextHeader(n), n)
        /\ n <= 125 => ReadsBack(PongHeader(n), n)
  BY <1>1, HeadersReadBack
<1>3. EncodersReadBack
  BY <1>2 DEF EncodersReadBack
<1>4. TRUE /\ [ReceiveNext]_receivevars => EncodersReadBack'
  <2>1. \A n \in NearBoundary' :
          /\ ReadsBack(BinaryHeader(n), n)
          /\ n <= 65535 => ReadsBack(TextHeader(n), n)
          /\ n <= 125 => ReadsBack(PongHeader(n), n)
    BY <1>2 DEF NearBoundary
  <2> QED
    BY <2>1 DEF EncodersReadBack
<1> QED
  BY <1>3, <1>4, PTL DEF ReceiveSpec
=============================================================================
