------------------------------ MODULE MCKernel ------------------------------
(* The TLC instance of Kernel and Cache: a behaviour is about requests, or  *)
(* about the cache that their handlers share.                              *)
EXTENDS Kernel, TLC

CONSTANTS Worker, CacheKey, Tag, MaxPuts

ASSUME CacheAssumption == IsFiniteSet(Tag)

VARIABLES of, stored, tagged_keys_, task, puts, under, raced

C == INSTANCE Cache

cache == <<stored, tagged_keys_, task, puts, under, raced>>

Lit(text) == Piece("literal", text)

(* An ambiguous pair, a path with two methods, a uri with two parameters, *)
(* and a catch-all.                                                       *)
TestRoutes == <<
  [method |-> "GET", uri |-> <<Lit("posts"), Piece("name", "id")>>,
   middleware |-> <<"throttle">>],
  [method |-> "GET", uri |-> <<Lit("posts"), Lit("new")>>, middleware |-> <<>>],
  [method |-> "PUT", uri |-> <<Lit("posts"), Piece("name", "id")>>, middleware |-> <<"auth">>],
  [method |-> "GET", uri |-> <<Piece("name", "dir"), Lit("raw"), Piece("catch_all", "path")>>,
   middleware |-> <<>>] >>

TestInputs == {
  [method |-> "GET", path |-> <<"posts", "new">>, client |-> "a"],
  [method |-> "PUT", path |-> <<"posts", "1">>, client |-> "a"],
  [method |-> "POST", path |-> <<"posts", "new">>, client |-> "a"],
  [method |-> "GET", path |-> <<"posts", "">>, client |-> "a"],
  [method |-> "GET", path |-> <<"x", "raw", "js", "">>, client |-> "a"] }

TestGlobal == <<"session">>

MCInit ==
  /\ Init /\ C!CacheInit /\ of \in {"requests", "cache"}
  /\ of = "cache" => \A q, r \in Requests : req[q] = req[r] /\ req[r].method = "PUT"

MCNext ==
  \/ of = "requests" /\ Next /\ UNCHANGED <<cache, of>>
  \/ of = "cache" /\ C!CacheNext /\ UNCHANGED <<vars, of>>

MCSpec == MCInit /\ [][MCNext]_<<vars, cache, of>>

(* "flush() forgets every key stored under any of those tags": when it is  *)
(* done with a tag, no value that was stored under it is still there,      *)
(* whichever plain puts, forgets and remembers ran meanwhile, unless two   *)
(* workers have been in tagged_keys_ at the same time.                     *)
FlushForgets == [][~raced' => C!Forgotten]_cache

Symmetry == Permutations(Requests)
=============================================================================
