----------------------------- MODULE StaticFiles -----------------------------
(***************************************************************************)
(* staticfiles::serve() (static_files.hpp) for a file that is replaced, or *)
(* removed, while requests for it are under way, and a browser that keeps  *)
(* what it received.  Each look at the file is a step of its own.          *)
(***************************************************************************)
EXTENDS Integers, Sequences, SequencesExt

CONSTANTS
  Sizes,     \* the sizes of the successive versions of the file (-1: removed)
  Specs,     \* Range headers: <<a, b>> for "bytes=a-b", or one of the three below
  Blank,     \* none; in a pair, a number that is left out
  Other,     \* a header that does not start with "bytes="
  Malformed, \* "bytes=" without a dash, or with what stoll() reads no number from
  MaxOffset, \* the largest number stoll() reads: that of a long long
  Rel,       \* "file", "directory" or "outside": where the path asked for leads
  Slot       \* requests

Number == Nat \union {Blank}

ASSUME FilesAssumption ==
  /\ Sizes \in Seq(Nat \union {-1}) /\ Sizes # <<>> /\ Blank \notin Int
  /\ Specs \subseteq {Blank, Other, Malformed} \union (Number \X Number)
  /\ {Blank, Other, Malformed} \intersect (Number \X Number) = {}
  /\ Malformed \notin {Blank, Other} /\ MaxOffset \in Nat

VARIABLES
  version,   \* of the file on disk
  cached,    \* what the browser keeps: the body and the ETag it came with
  get        \* the requests

filevars == <<version, cached, get>>

NoCopy == [etag |-> <<>>, body |-> <<>>]

(* A request that has not been made; status, etag and body are the answer. *)
NoRequest ==
  [pc |-> "idle", rel |-> "", range |-> Blank, began |-> 0, match |-> <<>>, size |-> -1,
   status |-> 0, etag |-> <<>>, body |-> <<>>]

FilesInit ==
  /\ version = 1 /\ cached = NoCopy
  /\ get = [q \in Slot |-> NoRequest]

(* The bytes of version v from a to b, counted from 0: each is known by the *)
(* version it is of and its place.                                         *)
Content(v, a, b) == [i \in 1..(b - a + 1) |-> <<v, a + i - 1>>]
Whole(v) == Content(v, 0, Sizes[v] - 1)

(* A deployment replaces the file; modification times are all different. *)
Deploy ==
  /\ version < Len(Sizes) /\ version' = version + 1
  /\ UNCHANGED <<cached, get>>

-----------------------------------------------------------------------------
Step(q, pc) == get[q].pc = pc
Goes(q, g) == get' = [get EXCEPT ![q] = g]

(* The browser asks, with the ETag of its copy or for a range, or for both. *)
Ask(q, rel, conditional, range) ==
  /\ Step(q, "idle") /\ conditional => cached # NoCopy
  /\ Goes(q, [NoRequest EXCEPT !.pc = "resolve", !.rel = rel, !.range = range, !.began = version,
       !.match = IF conditional THEN cached.etag ELSE <<>>])
  /\ UNCHANGED <<version, cached>>

Answer(q, status, etag, body) ==
  Goes(q, [get[q] EXCEPT !.pc = "sent", !.status = status, !.etag = etag, !.body = body])

(* safe_resolve() and is_regular_file() *)
Resolve(q) ==
  /\ Step(q, "resolve")
  /\ IF get[q].rel = "file" /\ Sizes[version] >= 0
     THEN Goes(q, [get[q] EXCEPT !.pc = "size"]) ELSE Answer(q, 404, <<>>, <<>>)
  /\ UNCHANGED <<version, cached>>

(* file_size(); -1 when the file has gone. *)
ReadSize(q) ==
  /\ Step(q, "size")
  /\ Goes(q, [get[q] EXCEPT !.pc = "mtime", !.size = Sizes[version]])
  /\ UNCHANGED <<version, cached>>

(* Mutant: the ETag is the size alone. *)
MutETag(size, v) == <<size>>

ETag(size, v) == <<size, IF Sizes[v] < 0 THEN 0 ELSE v>>

(* parse_range(): is there a range at all, and do its numbers fit?  stoll() *)
(* throws from 2^63 on.                                                    *)
present(range) == range \notin {Blank, Other}
Readable(range) == range # Malformed /\ \A i \in {1, 2} : range[i] = Blank \/ range[i] <= MaxOffset

(* Mutant: the end of a suffix range is taken for its start. *)
MutBounds(range, size) ==
  IF ~Readable(range) THEN Blank ELSE
  LET a == IF range[1] = Blank THEN 0 ELSE range[1]
      b == IF range[2] = Blank \/ range[2] > size - 1 THEN size - 1 ELSE range[2]
  IN IF a > b \/ a >= size THEN Blank ELSE <<a, b>>

(* parse_range(): bounds that are inclusive, or Blank for "unsatisfiable". *)
Bounds(range, size) ==
  IF ~Readable(range) THEN Blank ELSE
  LET a == range[1] b == range[2]
      start == IF a # Blank THEN a ELSE IF size > b THEN size - b ELSE 0
      last == IF a = Blank \/ b = Blank THEN size - 1 ELSE b
      end == IF last > size - 1 THEN size - 1 ELSE last
  IN IF a = Blank /\ (b = Blank \/ b <= 0) THEN Blank
     ELSE IF start > end \/ start >= size THEN Blank ELSE <<start, end>>

(* last_write_time(); then If-None-Match and Range decide, on what was read. *)
Decide(q) ==
  LET g == get[q] etag == ETag(g.size, version) IN
  /\ Step(q, "mtime")
  /\ CASE g.match = etag -> Answer(q, 304, etag, <<>>)
       [] g.match # etag /\ present(g.range) /\ Bounds(g.range, g.size) = Blank -> Answer(q, 416, <<>>, <<>>)
       [] OTHER -> Goes(q, [g EXCEPT !.pc = "read", !.etag = etag])
  /\ UNCHANGED <<version, cached>>

(* The file is opened and read: all of it, or `len` bytes from the start of *)
(* the range into a buffer of zeroes.                                      *)
Read(q) ==
  LET g == get[q] size == Sizes[version]
      bounds == Bounds(g.range, g.size)
      buffer == [i \in 1..(bounds[2] - bounds[1] + 1) |->
                   IF bounds[1] + i - 1 < size THEN <<version, bounds[1] + i - 1>> ELSE <<0, 0>>]
  IN /\ Step(q, "read")
     /\ IF present(g.range) THEN Answer(q, 206, g.etag, buffer) ELSE Answer(q, 200, g.etag, Whole(version))
     /\ UNCHANGED <<version, cached>>

(* The browser keeps a whole body with its ETag. *)
Receive(q) ==
  /\ Step(q, "sent")
  /\ cached' = IF get[q].status = 200 THEN [etag |-> get[q].etag, body |-> get[q].body] ELSE cached
  /\ Goes(q, NoRequest)
  /\ UNCHANGED version

FilesNext ==
  \/ Deploy
  \/ \E q \in Slot :
       \/ \E rel \in Rel, conditional \in BOOLEAN, range \in Specs : Ask(q, rel, conditional, range)
       \/ Resolve(q) \/ ReadSize(q) \/ Decide(q) \/ Read(q) \/ Receive(q)

FilesSpec == FilesInit /\ [][FilesNext]_filevars

-----------------------------------------------------------------------------
(* Correctness.                                                            *)

(* "304 on a matching If-None-Match": a browser that is told its copy is    *)
(* good has the file as it was at some instant of the request, whatever    *)
(* was deployed before, during and after the requests that filled its      *)
(* cache.  (Copies that came in since the request was made are left out.)  *)
NotModifiedRight ==
  \A q \in Slot : Step(q, "sent") /\ get[q].status = 304 /\ cached.etag = get[q].match =>
    \E v \in get[q].began..version : cached.body = Whole(v)

(* The places a range stands for, in a file of `size` bytes. *)
Places(range, size) ==
  LET a == range[1] b == range[2] IN
  {i \in 0..(size - 1) : IF a = Blank THEN b # Blank /\ i >= size - b
                         ELSE i >= a /\ (b = Blank \/ i <= b)}

(* 206 and 416: they answer only a Range of bytes; unless the file is      *)
(* replaced during the request, one whose numbers fit a long long gets     *)
(* exactly the bytes it stands for, and 416 if there are none.  One with a *)
(* larger number gets 416 whatever it stands for.                          *)
RangeRight ==
  \A q \in Slot : LET g == get[q] IN
    Step(q, "sent") /\ g.rel = "file" /\ g.status \in {206, 416} /\ g.began = version =>
      /\ present(g.range)
      /\ (g.status = 206) <=> (Readable(g.range) /\ Places(g.range, g.size) # {})
      /\ g.status = 206 => /\ ToSet(g.body) = {<<version, i>> : i \in Places(g.range, g.size)}
                           /\ \A i \in 2..Len(g.body) : g.body[i][2] > g.body[i - 1][2]
===============================================================================
