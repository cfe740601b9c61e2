------------------------------ MODULE WsReceive ------------------------------
(***************************************************************************)
(* Connection::receive() (include/websocket_server.hpp) in the loop of     *)
(* run_terminal(): frames the peer sends, in any order, are cut into       *)
(* arbitrary pieces by the network, parsed out of buf_, and put together   *)
(* into messages.                                                          *)
(*                                                                         *)
(* A payload is its length and the frame it came in, with the form the     *)
(* length was sent in; buf_ is the number of bytes of the stream it holds, *)
(* from the first byte of the first frame that has not been consumed.      *)
(***************************************************************************)
EXTENDS WsFrame, SequencesExt

CONSTANTS
  Cap,         \* max_message_bytes_
  Frames,      \* the frames the peer sends
  RequireMask, \* require_masked_
  Pieces,      \* how many bytes ::recv() may return (at most sizeof(tmp))
  MaxSent      \* bound: how many frames the peer sends

(* "reserved" is any nibble that names no opcode. *)
Opcode == {"Continuation", "Text", "Binary", "Close", "Ping", "Pong", "reserved"}
Frame == [op : Opcode, fin : BOOLEAN, masked : BOOLEAN, form : Form, len : Nat]

ASSUME ReceiveAssumption ==
  /\ Cap \in Nat /\ MaxSent \in Nat /\ Frames \subseteq Frame
  /\ \A f \in Frames : Fits(f.form, f.len)
  /\ Pieces \subseteq 1..4096 /\ Pieces # {} /\ RequireMask \in BOOLEAN

VARIABLES
  line,        \* the frames sent and not yet consumed
  eof,         \* the peer has shut its side
  buf_,        \* bytes in buf_
  pc,          \* "receive", "closed" (it returned nullopt), or "app"
  fragmenting, \* receive()'s locals
  message,
  seen,        \* history: the frames consumed
  delivered,   \* history: the messages returned
  replies      \* history: the control frames sent

receivevars == <<line, eof, buf_, pc, fragmenting, message, seen, delivered, replies>>

Total(ns) ==
  LET sum[i \in 0..Len(ns)] == IF i = 0 THEN 0 ELSE sum[i - 1] + ns[i] IN sum[Len(ns)]

SizeOf(frames) == Total([i \in 1..Len(frames) |-> frames[i].len])
FrameSize(f) == HeadSize(f.form, f.masked) + f.len
Bytes(frames) == Total([i \in 1..Len(frames) |-> FrameSize(frames[i])])

ReceiveTypeOK ==
  /\ line \in Seq(Frame) /\ eof \in BOOLEAN
  /\ buf_ \in 0..Bytes(line)
  /\ pc \in {"app", "receive", "closed"}
  /\ fragmenting \in BOOLEAN /\ message \in Seq(Frame)
  /\ seen \in Seq(Frame) /\ delivered \in Seq(Seq(Frame))
  /\ replies \in Seq([kind : {"close", "pong"}, asked : Nat])

ReceiveInit ==
  /\ line = <<>> /\ eof = FALSE /\ buf_ = 0
  /\ pc = "app" /\ fragmenting = FALSE /\ message = <<>>
  /\ seen = <<>> /\ delivered = <<>> /\ replies = <<>>

-----------------------------------------------------------------------------
(* The peer (external). *)

PeerSends(f) ==
  /\ ~eof /\ Len(line) + Len(seen) < MaxSent
  /\ line' = Append(line, f)
  /\ UNCHANGED <<eof, buf_, pc, fragmenting, message, seen, delivered, replies>>

PeerEnds ==
  /\ ~eof
  /\ eof' = TRUE
  /\ UNCHANGED <<line, buf_, pc, fragmenting, message, seen, delivered, replies>>

-----------------------------------------------------------------------------
(* run_terminal() calls receive(): new locals.                             *)
Call ==
  /\ pc = "app"
  /\ pc' = "receive" /\ fragmenting' = FALSE /\ message' = <<>>
  /\ UNCHANGED <<line, eof, buf_, seen, delivered, replies>>

(* Mutant: the length is judged when the whole frame is there. *)
MutTooBigLate == line # <<>> /\ buf_ >= FrameSize(Head(line)) /\ Head(line).len > Cap

(* parse_frame()'s outcomes on the front of buf_.  The length is judged as *)
(* soon as the bytes that hold it are there.                               *)
TooBig ==
  /\ line # <<>>
  /\ buf_ >= HeadSize(Head(line).form, FALSE) /\ Head(line).len > Cap

(* Mutant: off by one, a frame needs a byte behind it. *)
MutParsedStrict == line # <<>> /\ buf_ > FrameSize(Head(line)) /\ ~TooBig

Parsed == line # <<>> /\ buf_ >= FrameSize(Head(line)) /\ ~TooBig

(* ::recv() brings some more bytes ... *)
Recv(n) ==
  /\ pc = "receive" /\ ~TooBig /\ ~Parsed
  /\ LET left == Bytes(line) - buf_ IN
     left > 0 /\ buf_' = buf_ + IF n < left THEN n ELSE left
  /\ UNCHANGED <<line, eof, pc, fragmenting, message, seen, delivered, replies>>

(* ... or the end of the stream. *)
RecvEnds ==
  /\ pc = "receive" /\ ~TooBig /\ ~Parsed
  /\ eof /\ buf_ = Bytes(line)
  /\ pc' = "closed"
  /\ UNCHANGED <<line, eof, buf_, fragmenting, message, seen, delivered, replies>>

(* send_control(encode_close(...)) and return nullopt. *)
Fail ==
  /\ pc' = "closed"
  /\ replies' = Append(replies, [kind |-> "close", asked |-> 0])
  /\ UNCHANGED <<eof, fragmenting, message, delivered>>

(* Refused before anything is consumed: 1009, or 1002 for a missing mask. *)
Refuse ==
  /\ pc = "receive"
  /\ TooBig \/ (Parsed /\ RequireMask /\ ~Head(line).masked)
  /\ Fail
  /\ UNCHANGED <<line, buf_, seen>>

(* A frame f that gets past those checks is taken out of buf_. *)
Take(f) ==
  /\ pc = "receive" /\ Parsed /\ f = Head(line)
  /\ RequireMask => f.masked
  /\ line' = Tail(line) /\ buf_' = buf_ - FrameSize(f)
  /\ seen' = Append(seen, f)

OnClose(f) == Take(f) /\ f.op = "Close" /\ Fail

OnPing(f) ==
  /\ Take(f) /\ f.op = "Ping"
  /\ replies' = Append(replies, [kind |-> "pong", asked |-> f.len])
  /\ UNCHANGED <<eof, pc, fragmenting, message, delivered>>

(* A Pong; and the switch has no case for a reserved opcode. *)
OnIgnored(f) ==
  /\ Take(f) /\ f.op \in {"Pong", "reserved"}
  /\ UNCHANGED <<eof, pc, fragmenting, message, delivered, replies>>

IsOpening(f) == f.op \in {"Text", "Binary"}

(* A data frame in the middle of a message, or a Continuation outside one. *)
OnOutOfPlace(f) ==
  /\ Take(f)
  /\ (IsOpening(f) /\ fragmenting) \/ (f.op = "Continuation" /\ ~fragmenting)
  /\ Fail

Return(msg) ==
  /\ pc' = "app"
  /\ delivered' = Append(delivered, msg)
  /\ UNCHANGED <<eof, fragmenting, message, replies>>

OnWhole(f) == Take(f) /\ IsOpening(f) /\ ~fragmenting /\ f.fin /\ Return(<<f>>)

OnFirst(f) ==
  /\ Take(f) /\ IsOpening(f) /\ ~fragmenting /\ ~f.fin
  /\ fragmenting' = TRUE /\ message' = <<f>>
  /\ UNCHANGED <<eof, pc, delivered, replies>>

Overflows(f) == SizeOf(message) + f.len > Cap

OnOverflow(f) ==
  /\ Take(f) /\ f.op = "Continuation" /\ fragmenting
  /\ Overflows(f)
  /\ Fail

(* Mutant: every fragment starts a message of its own. *)
MutOnContinuation(f) ==
  /\ Take(f) /\ f.op = "Continuation" /\ fragmenting /\ ~Overflows(f)
  /\ IF f.fin THEN Return(<<f>>)
     ELSE message' = <<f>> /\ UNCHANGED <<eof, pc, fragmenting, delivered, replies>>

OnContinuation(f) ==
  /\ Take(f) /\ f.op = "Continuation" /\ fragmenting /\ ~Overflows(f)
  /\ IF f.fin THEN Return(Append(message, f))
     ELSE message' = Append(message, f) /\ UNCHANGED <<eof, pc, fragmenting, delivered, replies>>

On(f) ==
  \/ OnClose(f) \/ OnPing(f) \/ OnIgnored(f) \/ OnOutOfPlace(f)
  \/ OnWhole(f) \/ OnFirst(f) \/ OnOverflow(f) \/ OnContinuation(f)

Receive == Call \/ RecvEnds \/ Refuse \/ (\E n \in Pieces : Recv(n)) \/ (line # <<>> /\ On(Head(line)))

ReceiveNext ==
  \/ Receive \/ PeerEnds \/ \E f \in Frames : PeerSends(f)

ReceiveSpec == ReceiveInit /\ [][ReceiveNext]_receivevars

(* The connection's thread keeps running, so a peer that pings reads its   *)
(* pongs: receive() writes them before it goes on.  Otherwise the peer     *)
(* owes nothing.                                                           *)
FairReceiveSpec == ReceiveSpec /\ WF_receivevars(Receive)

-----------------------------------------------------------------------------
(* Correctness.                                                            *)

(* What RFC 6455 says the frames fs carry: the data frames, cut after each *)
(* one with FIN set.                                                       *)
IsData(f) == IsOpening(f) \/ f.op = "Continuation"
Data(fs) == FlattenSeq([i \in 1..Len(fs) |-> IF IsData(fs[i]) THEN <<fs[i]>> ELSE <<>>])
LastEnd(d) == Max({0} \union {i \in 1..Len(d) : d[i].fin})

(* However the bytes were cut up and whatever control frames came between  *)
(* them, receive() has returned exactly the messages that the frames it    *)
(* consumed make up, in order: put together they are the data frames up to *)
(* the last FIN, and each ends at its only FIN, is well-formed (Text or    *)
(* Binary, then Continuations only) and no larger than max_message_bytes_. *)
Reassembly ==
  /\ pc # "closed" => FlattenSeq(delivered) = SubSeq(Data(seen), 1, LastEnd(Data(seen)))
  /\ \A k \in 1..Len(delivered) : LET m == delivered[k] IN
       /\ m # <<>> /\ SizeOf(m) <= Cap
       /\ \A i \in 1..Len(m) : (IsOpening(m[i]) <=> i = 1) /\ (m[i].fin <=> i = Len(m))

(* "a client can't OOM the server by announcing a huge length", in         *)
(* whichever form: what is buffered stays below the longest head, a        *)
(* payload the cap allows and one ::recv().                                *)
MemoryBounded ==
  /\ buf_ < HeadSize(9, TRUE) + Cap + Max(Pieces)
  /\ SizeOf(message) <= Cap

(* A frame that has been sent is consumed, or the connection ends: none is *)
(* left behind in buf_ because the peer has nothing more to say.           *)
EveryFrameConsumed ==
  \A n \in 1..MaxSent :
    (Len(seen) + Len(line) >= n) ~> (Len(seen) >= n \/ pc = "closed")
=============================================================================
