-------------------------------- MODULE Query --------------------------------
(***************************************************************************)
(* Reading through Repository and QueryBuilder (repository.hpp) and the    *)
(* relations (relations.hpp), on the connection of Database, while others  *)
(* write.  Each select() and count() is one step under the connection's    *)
(* mutex; paginate() is one of each, and a client that turns the pages     *)
(* makes many.                                                             *)
(***************************************************************************)
EXTENDS Database, Sequences, SequencesExt

CONSTANTS
  Queries,    \* queries that are paged through
  PerPage

VARIABLE walk   \* a client that reads page after page

(* A clause is [column, op, value]; the value of "In" is a set. *)
Q(wheres, order) == [wheres |-> wheres, order |-> order, limit |-> None, offset |-> None]

(* What is paged through has no limit or offset of its own, and is sorted  *)
(* by a column of numbers, if by any.                                      *)
ASSUME QueryAssumption ==
  /\ None \notin Nat /\ PerPage \subseteq Nat
  /\ \A q \in Queries :
       /\ q = Q(q.wheres, q.order)
       /\ q.order # None =>
            /\ DOMAIN q.order = {"column", "descending"} /\ q.order.descending \in BOOLEAN
            /\ q.order.column # "id" => \A v \in Val : v[q.order.column] \in Int

cell(i, column) == IF column = "id" THEN i ELSE rows[i][column]

matches(c, op, v) ==
  CASE op = "Eq" -> c = v [] op = "Ne" -> c # v
    [] op = "Lt" -> c < v [] op = "Lte" -> c <= v
    [] op = "Gt" -> c > v [] op = "Gte" -> c >= v
    [] op = "In" -> c \in v

Filtered(q) ==
  {i \in Id : rows[i] # NoRow /\ \A k \in DOMAIN q.wheres :
     matches(cell(i, q.wheres[k].column), q.wheres[k].op, q.wheres[k].value)}

(* The orders that the rows may come in.  std::stable_sort() keeps equal   *)
(* rows as they were inserted; SQLite (external) promises nothing for rows *)
(* that ORDER BY does not tell apart, and scans by id without one.         *)
Precedes(q, i, j) ==
  IF q.order = None THEN i < j
  ELSE LET a == cell(i, q.order.column) b == cell(j, q.order.column) IN
       \/ IF q.order.descending THEN b < a ELSE a < b
       \/ a = b /\ (backend = "sqlite" \/ i < j)

Sorted(q) == {s \in SetToSeqs(Filtered(q)) : \A k \in 2..Len(s) : Precedes(q, s[k - 1], s[k])}

Window(s, q) ==
  LET from == IF q.offset = None THEN 0 ELSE q.offset
      rest == SubSeq(s, from + 1, Len(s))
  IN IF q.limit = None \/ Len(rest) <= q.limit THEN rest ELSE SubSeq(rest, 1, q.limit)

(* The results that select() may give, as sequences of ids. *)
select(q) == {Window(s, q) : s \in Sorted(q)}
count(q) == Len(CHOOSE s \in select([q EXCEPT !.order = None, !.limit = None, !.offset = None]) : TRUE)

(* A relation is a query on the foreign key, to be refined like any other. *)
has_many(key, owner) == Q(<<[column |-> key, op |-> "Eq", value |-> owner]>>, None)

-----------------------------------------------------------------------------
(* paginate().                                                             *)

(* Mutant: pages are counted from 0. *)
MutOffset(page, per) == page * per

Offset(page, per) == (IF page = 0 THEN 0 ELSE page - 1) * per
LastPage(total, per) == IF per > 0 THEN (total + per - 1) \div per ELSE 1

Idle == [pc |-> "idle"]

(* A client starts to read, at page 1 or at "page 0"; `ids` and `seen` are *)
(* history.                                                                *)
Open(q, page, per) ==
  /\ walk = Idle
  /\ walk' = [pc |-> "count", q |-> q, page |-> page, per |-> per, total |-> 0,
              ids |-> Filtered(q), seen |-> <<>>]

Count ==
  /\ walk.pc = "count"
  /\ walk' = [walk EXCEPT !.pc = "select", !.total = count(walk.q)]

(* The page's rows; then the next page, as far as last_page. *)
Select ==
  LET w == walk last == LastPage(w.total, w.per) IN
  /\ w.pc = "select"
  /\ \E items \in select([w.q EXCEPT !.limit = w.per, !.offset = Offset(w.page, w.per)]) :
       walk' = [w EXCEPT !.seen = @ \o items,
                         !.pc = IF w.page < last THEN "count" ELSE "done",
                         !.page = IF @ = 0 THEN 2 ELSE @ + 1]

(* A step of someone else's.  The walk goes on if it changes no row that   *)
(* there is, and adds rows only behind the others; otherwise it is not     *)
(* followed any further: later pages are shifted against earlier ones.     *)
Meanwhile ==
  LET Appended == \A i \in 1..next_id_ : rows'[i] = rows[i]
      ById == walk.q.order \in {None, [column |-> "id", descending |-> FALSE]}
  IN walk' = IF walk = Idle \/ rows' = rows \/ (Appended /\ ById) THEN walk ELSE Idle

QueryInit == Init /\ walk = Idle

QueryNext ==
  \/ Next /\ Meanwhile
  \/ /\ \/ \E q \in Queries, page \in 0..1, per \in PerPage : Open(q, page, per)
        \/ Count \/ Select
     /\ UNCHANGED vars

QuerySpec == QueryInit /\ [][QueryNext]_<<vars, walk>>

-----------------------------------------------------------------------------
(* Correctness.                                                            *)

(* paginate(): the pages from 1 to last_page together show every row that  *)
(* was there from the start exactly once, although count() and select()    *)
(* are separate calls and rows are appended between them.  (A row that is  *)
(* removed or moved meanwhile shifts the others; and for equal keys SQLite *)
(* may order each page differently.)                                       *)
WalkComplete ==
  walk.pc = "done" /\ walk.per > 0
    /\ (backend = "memory" \/ walk.q.order = None \/ walk.q.order.column = "id")
  => \A i \in walk.ids : Cardinality({k \in DOMAIN walk.seen : walk.seen[k] = i}) = 1
===============================================================================
