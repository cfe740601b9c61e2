------------------------------- MODULE WsFrame -------------------------------
(***************************************************************************)
(* The WebSocket frame codec (include/websocket.hpp): the length bytes     *)
(* each encoder writes and what parse_frame() reads out of them.  A header *)
(* is the sequence of its bytes after the first.  Lengths stay below 2^31: *)
(* the four high bytes of the 64-bit form are zero.                        *)
(***************************************************************************)
EXTENDS Naturals, Sequences

Byte(n, unit) == (n \div unit) % 256

(* The 16-bit and the 64-bit form. *)
Length16(n) == <<126, Byte(n, 256), Byte(n, 1)>>
Length64(n) ==
  <<127, 0, 0, 0, 0, Byte(n, 16777216), Byte(n, 65536), Byte(n, 256), Byte(n, 1)>>

(* encode_text(): no 64-bit form. *)
TextHeader(n) == IF n < 126 THEN <<n>> ELSE Length16(n)

(* Mutant: 126 still in the short form. *)
MutBinaryHeader(n) ==
  IF n <= 126 THEN <<n>> ELSE IF n <= 65535 THEN Length16(n) ELSE Length64(n)

(* encode_binary() *)
BinaryHeader(n) ==
  IF n < 126 THEN <<n>> ELSE IF n <= 65535 THEN Length16(n) ELSE Length64(n)

(* encode_pong(): the length's low seven bits, whatever it is. *)
PongHeader(n) == <<n % 128>>

(* parse_frame() and decode(): the length bytes the first one calls for,   *)
(* and the length they hold.                                               *)
LengthBytes(first) == CASE first = 126 -> 3 [] first = 127 -> 9 [] OTHER -> 1

Declared(h) ==
  CASE h[1] = 126 -> h[2] * 256 + h[3]
    [] h[1] = 127 -> h[6] * 16777216 + h[7] * 65536 + h[8] * 256 + h[9]
    [] OTHER      -> h[1]

(* What was encoded as n bytes is read as n bytes, starting where the      *)
(* payload starts.                                                         *)
ReadsBack(h, n) == Len(h) = LengthBytes(h[1]) /\ Declared(h) = n

(* The forms a length comes in, by their length bytes, and the lengths     *)
(* each can hold: parse_frame() does not ask for the shortest one.         *)
Form == {LengthBytes(first) : first \in 0..127}
Fits(form, n) == (form = 1 => n < 126) /\ (form = 3 => n < 65536)

(* Bytes ahead of a payload: the opcode, the length, and the mask. *)
HeadSize(form, masked) == 1 + form + IF masked THEN 4 ELSE 0
=============================================================================
