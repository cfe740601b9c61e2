----------------------------- MODULE MCWsReceive -----------------------------
(* The TLC instance of WsReceive, and the codec on every length near one   *)
(* where the form of the length, or one of its bytes, changes.             *)
EXTENDS WsReceive

CONSTANTS Near, Boundaries

(* Data frames of every kind, empty, small and over the cap, in the short  *)
(* form and in longer ones than they need; control frames; and one frame   *)
(* without a mask.                                                         *)
PeerFrames ==
  [op : {"Continuation", "Text"}, fin : BOOLEAN, masked : {TRUE}, form : {1}, len : {0, 2, 9}]
  \union [op : {"Text"}, fin : {TRUE}, masked : {TRUE}, form : {9}, len : {4, 9}]
  \union [op : {"Continuation"}, fin : {TRUE}, masked : {TRUE}, form : {3}, len : {2}]
  \union [op : {"Ping"}, fin : {TRUE}, masked : {TRUE}, form : {1}, len : {2, 9}]
  \union [op : {"Close", "reserved"}, fin : {TRUE}, masked : {TRUE}, form : {1}, len : {2}]
  \union [op : {"Binary"}, fin : {TRUE}, masked : {FALSE}, form : {1}, len : {2}]

NearBoundary == UNION {(IF b < Near THEN 0 ELSE b - Near)..(b + Near) : b \in Boundaries}

(* parse_frame() reads back what encode_binary() wrote, whatever its size; *)
(* encode_text() and encode_pong() up to the 64 KiB and the 125 bytes      *)
(* their comments give them.  Another thread may send while the owner is   *)
(* in receive(); the encoders look at no state, so the first such wait is  *)
(* enough.                                                                 *)
EncodersReadBack ==
  pc = "receive" /\ line = <<>> /\ seen = <<>> =>
    \A n \in NearBoundary :
      /\ ReadsBack(BinaryHeader(n), n)
      /\ n <= 65535 => ReadsBack(TextHeader(n), n)
      /\ n <= 125 => ReadsBack(PongHeader(n), n)
=============================================================================
