------------------------------- MODULE Router -------------------------------
(***************************************************************************)
(* The router (src/router.cpp): the routes in the order they were added,   *)
(* the first match of a request, the parameters it captures, and the       *)
(* methods a path has.                                                     *)
(*                                                                         *)
(* A path is the sequence of its segments, an empty one where two slashes  *)
(* meet or the path ends in one.  A uri is a sequence of pieces, one for   *)
(* each segment: a literal, {name}, or {name*}, which can only be last.    *)
(***************************************************************************)
EXTENDS Naturals, SequencesExt

CONSTANTS Routes   \* routes_, a sequence of [method, uri, middleware]

Piece(kind, text) == [kind |-> kind, text |-> text]

EndsInCatchAll(uri) == uri # <<>> /\ Last(uri).kind = "catch_all"

ASSUME RouterAssumption ==
  /\ Routes \in Seq([method : STRING, middleware : Seq(STRING),
                     uri : Seq([kind : {"literal", "name", "catch_all"}, text : STRING])])
  /\ \A k \in 1..Len(Routes) : LET uri == Routes[k].uri IN
       \A i \in 1..Len(uri) : uri[i].kind = "catch_all" => i = Len(uri)

(* The regex that add() makes of the uri: does it match the whole path?    *)
(* {name} is one segment that is not empty, {name*} any number of any.     *)
Matches(uri, path) ==
  /\ IF EndsInCatchAll(uri) THEN Len(path) >= Len(uri) ELSE Len(path) = Len(uri)
  /\ \A i \in 1..Len(uri) :
       /\ uri[i].kind = "literal" => path[i] = uri[i].text
       /\ uri[i].kind = "name" => path[i] # ""

(* The places of the parameters in the uri (param_names), and std::smatch: *)
(* the whole path, then what each group captured.                          *)
ParamPlaces(uri) ==
  LET names[i \in 0..Len(uri)] ==
        IF i = 0 THEN <<>>
        ELSE IF uri[i].kind = "literal" THEN names[i - 1] ELSE Append(names[i - 1], i)
  IN names[Len(uri)]

Groups(uri, path) ==
  LET places == ParamPlaces(uri)
      Captured(i) == IF uri[i].kind = "name" THEN <<path[i]>> ELSE SubSeq(path, i, Len(path))
  IN <<path>> \o [g \in 1..Len(places) |-> Captured(places[g])]

(* Mutant: the groups are counted from the whole match. *)
MutParams(uri, path) ==
  LET places == ParamPlaces(uri)
      Named(name) == {g \in 1..Len(places) : uri[places[g]].text = name}
  IN [name \in {uri[places[g]].text : g \in 1..Len(places)} |->
        Groups(uri, path)[Max(Named(name))]]

(* route_params.  The last one wins where two have the same name. *)
Params(uri, path) ==
  LET places == ParamPlaces(uri)
      Named(name) == {g \in 1..Len(places) : uri[places[g]].text = name}
  IN [name \in {uri[places[g]].text : g \in 1..Len(places)} |->
        Groups(uri, path)[Max(Named(name)) + 1]]

(* match(): the first route with the method and a matching pattern, or 0. *)
match(method, path) ==
  SelectInSeq(Routes, LAMBDA r : r.method = method /\ Matches(r.uri, path))

allowed_methods(path) ==
  LET out[k \in 0..Len(Routes)] ==
        IF k = 0 THEN <<>>
        ELSE IF Matches(Routes[k].uri, path) /\ Routes[k].method \notin ToSet(out[k - 1])
             THEN Append(out[k - 1], Routes[k].method) ELSE out[k - 1]
  IN out[Len(Routes)]
=============================================================================
