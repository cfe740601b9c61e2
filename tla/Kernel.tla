------------------------------- MODULE Kernel -------------------------------
(***************************************************************************)
(* Kernel::handle() (src/kernel.cpp) on the server's workers: each request *)
(* is routed, goes through the pipeline of global and route middleware     *)
(* (src/pipeline.cpp) to its handler, and back.  What is thrown on the way *)
(* becomes a 500.  The workers share the cache (include/cache.hpp) in      *)
(* which throttle() (include/http_auth.hpp) counts requests with a get and *)
(* then a put.                                                             *)
(***************************************************************************)
EXTENDS Router, FiniteSets

CONSTANTS
  Requests,   \* the requests, each handled by a worker of its own
  Inputs,     \* what a request may be: [method, path, client]
  Global,     \* global_, a sequence of middleware
  Budget,     \* throttle()'s max
  Window,     \* throttle()'s window, in seconds
  MaxTime     \* bound on the clock

ASSUME KernelAssumption ==
  /\ IsFiniteSet(Requests) /\ Global \in Seq(STRING)
  /\ \A q \in Inputs : q.path \in Seq(STRING)
  /\ Budget \in Nat /\ Window \in Nat \ {0} /\ MaxTime \in Nat

VARIABLES
  time,    \* steady_clock, in seconds
  items_,  \* ArrayCache::items_: the counters of throttle()
  req      \* the requests and where in handle() they are

vars == <<time, items_, req>>

Status == {0, 200, 401, 404, 405, 429, 500}
Layers == ToSet(Global) \union UNION {ToSet(Routes[k].middleware) : k \in 1..Len(Routes)}

Key(r) == <<req[r].path, req[r].client>>

TypeOK ==
  /\ time \in 0..MaxTime
  /\ \A k \in DOMAIN items_ : items_[k].count \in Nat /\ items_[k].start \in 0..MaxTime
  /\ \A r \in Requests :
       /\ req[r].pc \in {"new", "in", "get", "put", "out", "done"}
       /\ req[r].at \in 0..(Len(req[r].chain) + 1) /\ req[r].status \in Status
       /\ ToSet(req[r].chain) \subseteq Layers \union {"handler"}

(* The last five fields are history: the layers entered and left, whether  *)
(* throttle() let the request through, when it counted it, and whether no  *)
(* other request with its key was between get and put at the same time.    *)
NewRequest(q) ==
  [pc |-> "new", method |-> q.method, path |-> q.path, client |-> q.client,
   chain |-> <<>>, at |-> 0, status |-> 0, allow |-> <<>>, params |-> <<>>, route |-> 0,
   now |-> 0, count |-> 0, start |-> 0,
   entered |-> <<>>, left |-> <<>>, passed |-> FALSE, counted |-> 0, alone |-> TRUE]

Init ==
  /\ time = 0 /\ items_ = <<>>
  /\ req \in [Requests -> {NewRequest(q) : q \in Inputs}]

-----------------------------------------------------------------------------
(* Kernel::handle() up to the pipeline.                                    *)

(* Mutant: wrapped from the front, so that the last one is outermost. *)
MutCompose(stack) ==
  LET next[i \in 0..Len(stack)] == IF i = 0 THEN <<"handler">> ELSE <<stack[i]>> \o next[i - 1]
  IN next[Len(stack)]

(* Pipeline::run(): `next` is wrapped from the back.  A composed `next` is *)
(* the sequence of the layers a call goes through.                         *)
Compose(stack) ==
  LET n == Len(stack)
      next[i \in 0..n] == IF i = 0 THEN <<"handler">> ELSE <<stack[n + 1 - i]>> \o next[i - 1]
  IN next[n]

Unmatched(r) ==
  LET allow == allowed_methods(req[r].path)
  IN /\ req[r].pc = "new" /\ match(req[r].method, req[r].path) = 0
     /\ req' = [req EXCEPT ![r].pc = "done", ![r].allow = allow,
                           ![r].status = IF allow = <<>> THEN 404 ELSE 405]
     /\ UNCHANGED <<time, items_>>

Matched(r) ==
  LET k == match(req[r].method, req[r].path)
  IN /\ req[r].pc = "new" /\ k # 0
     /\ req' = [req EXCEPT ![r].pc = "in", ![r].at = 1, ![r].route = k,
                           ![r].params = Params(Routes[k].uri, req[r].path),
                           ![r].chain = Compose(Global \o Routes[k].middleware)]
     /\ UNCHANGED <<time, items_>>

-----------------------------------------------------------------------------
(* Through the layers and back.  A middleware other than throttle() is the *)
(* application's: it may call next, answer itself, or throw before or      *)
(* after next.                                                             *)

Layer(r) == req[r].chain[req[r].at]
Entering(r, layer) == req[r].pc = "in" /\ Layer(r) = layer
InApplication(r) == req[r].pc = "in" /\ Layer(r) # "throttle"

(* A layer calls next ... *)
Deeper(r, f) ==
  req' = [req EXCEPT ![r] = [f EXCEPT !.pc = "in", !.at = @ + 1,
                                      !.entered = Append(@, Layer(r))]]

(* ... or returns a response that it did not get from next. *)
Answers(r, f, status) ==
  req' = [req EXCEPT ![r] = [f EXCEPT !.pc = "out", !.status = status, !.at = @ - 1,
                                      !.entered = Append(@, Layer(r)),
                                      !.left = Append(@, Layer(r))]]

CallNext(r) ==
  /\ InApplication(r) /\ Layer(r) # "handler"
  /\ Deeper(r, req[r])
  /\ UNCHANGED <<time, items_>>

ShortCircuit(r) ==
  /\ InApplication(r) /\ Layer(r) # "handler"
  /\ Answers(r, req[r], 401)
  /\ UNCHANGED <<time, items_>>

RunHandler(r) ==
  /\ Entering(r, "handler")
  /\ Answers(r, req[r], 200)
  /\ UNCHANGED <<time, items_>>

(* The response goes back through the layer that called next. *)
Return(r) ==
  /\ req[r].pc = "out"
  /\ req' = [req EXCEPT ![r] =
       IF req[r].at = 0 THEN [req[r] EXCEPT !.pc = "done"]
       ELSE [req[r] EXCEPT !.at = @ - 1, !.left = Append(@, Layer(r))]]
  /\ UNCHANGED <<time, items_>>

(* The catch clauses of handle(). *)
Throws(r) ==
  /\ InApplication(r) \/ (req[r].pc = "out" /\ req[r].at > 0 /\ Layer(r) # "throttle")
  /\ req' = [req EXCEPT ![r].pc = "done", ![r].status = 500]
  /\ UNCHANGED <<time, items_>>

-----------------------------------------------------------------------------
(* throttle().                                                             *)

Counting(r) == req[r].pc \in {"get", "put"}

(* It reads the clock ... *)
ThrottleBegins(r) ==
  LET rivals == {o \in Requests \ {r} : Counting(o) /\ Key(o) = Key(r)}
  IN /\ Entering(r, "throttle")
     /\ req' = [o \in Requests |->
          IF o = r THEN [req[r] EXCEPT !.pc = "get", !.now = time, !.alone = rivals = {}]
          ELSE [req[o] EXCEPT !.alone = @ /\ o \notin rivals]]
     /\ UNCHANGED <<time, items_>>

Expired(key) == time >= items_[key].expires

(* Mutant: every hit starts the window again. *)
MutCounted(r, entry) ==
  IF req[r].now >= entry.start + Window
  THEN [count |-> 1, start |-> req[r].now]
  ELSE [count |-> entry.count + 1, start |-> req[r].now]

(* What it makes of the entry it finds. *)
Counted(r, entry) ==
  IF req[r].now >= entry.start + Window
  THEN [count |-> 1, start |-> req[r].now]
  ELSE [count |-> entry.count + 1, start |-> entry.start]

(* ... gets the entry, which get() removes if it has expired ... *)
ThrottleGets(r) ==
  LET key   == Key(r)
      found == key \in DOMAIN items_ /\ ~Expired(key)
      new   == IF found THEN Counted(r, items_[key]) ELSE [count |-> 1, start |-> req[r].now]
  IN /\ req[r].pc = "get"
     /\ items_' = IF found THEN items_ ELSE [k \in DOMAIN items_ \ {key} |-> items_[k]]
     /\ req' = [req EXCEPT ![r].pc = "put", ![r].count = new.count, ![r].start = new.start]
     /\ UNCHANGED time

(* Mutant: one more is let through. *)
MutOverBudget(n) == n > Budget + 1

OverBudget(n) == n > Budget

(* ... and puts it back, to be kept for two windows, before it decides. *)
ThrottlePuts(r) ==
  LET over == OverBudget(req[r].count)
      entry == [count |-> req[r].count, start |-> req[r].start, expires |-> time + 2 * Window]
      f == [req[r] EXCEPT !.passed = ~over, !.counted = time]
  IN /\ req[r].pc = "put"
     /\ items_' = [k \in DOMAIN items_ \union {Key(r)} |-> IF k = Key(r) THEN entry ELSE items_[k]]
     /\ IF over THEN Answers(r, f, 429) ELSE Deeper(r, f)
     /\ UNCHANGED time

Tick ==
  /\ time < MaxTime
  /\ time' = time + 1
  /\ UNCHANGED <<items_, req>>

Step(r) ==
  \/ Unmatched(r) \/ Matched(r)
  \/ CallNext(r) \/ ShortCircuit(r) \/ RunHandler(r) \/ Return(r) \/ Throws(r)
  \/ ThrottleBegins(r) \/ ThrottleGets(r) \/ ThrottlePuts(r)

Next == Tick \/ \E r \in Requests : Step(r)

Spec == Init /\ [][Next]_vars

-----------------------------------------------------------------------------
(* Correctness.                                                            *)

(* A request that has gone into the pipeline was routed to the first route *)
(* that was added for its method and path, and the parameters it got, put  *)
(* back into the uri, give its path (where no name occurs twice).  The     *)
(* others got 405 with the methods the path has, each once, or 404.        *)
RoutedRight ==
  \A r \in Requests : LET q == req[r]
                          Fits(k) == Routes[k].method = q.method /\ Matches(Routes[k].uri, q.path)
                          uri == Routes[q.route].uri IN
    /\ q.route # 0 =>
         /\ Fits(q.route) /\ \A k \in 1..(q.route - 1) : ~Fits(k)
         /\ FlattenSeq([i \in 1..Len(uri) |->
              IF uri[i].kind = "literal" THEN <<uri[i].text>> ELSE q.params[uri[i].text]]) = q.path
    /\ q.pc = "done" /\ q.route = 0 =>
         LET verbs == {Routes[k].method : k \in {j \in 1..Len(Routes) : Matches(Routes[j].uri, q.path)}}
         IN /\ q.method \notin verbs
            /\ q.status = IF verbs = {} THEN 404 ELSE 405
            /\ ToSet(q.allow) = verbs /\ Len(q.allow) = Cardinality(verbs)

(* "the first registered middleware is the outermost layer": the layers    *)
(* are entered in the order they were registered, the global ones first,   *)
(* and left in the reverse order, starting from the innermost that was     *)
(* entered; after a throw none of the others is left in the regular way.   *)
OutermostFirst ==
  \A r \in Requests : LET q == req[r] IN
    q.route # 0 =>
      /\ IsPrefix(q.entered, Global \o Routes[q.route].middleware \o <<"handler">>)
      /\ IsPrefix(q.left, Reverse(q.entered))
      /\ q.pc = "done" /\ q.status # 500 => q.left = Reverse(q.entered)

(* "hammering the endpoint cannot keep resetting the window": whatever     *)
(* requests race, one is refused only when throttle() has let as many as   *)
(* the budget allows through within the window before it, not because it   *)
(* refused others.                                                         *)
RefusalEarned ==
  \A r \in Requests : req[r].status = 429 =>
    Cardinality({o \in Requests \ {r} : /\ Key(o) = Key(r) /\ req[o].passed
                                        /\ req[o].counted + Window > req[r].now}) >= Budget

(* "at most `max` requests per client per `window`", as long as no two     *)
(* requests of the client were between get and put at the same time and    *)
(* none spent a whole window there: no more pass in one window, and        *)
(* windows do not overlap.                                                 *)
BudgetKept ==
  \A key \in DOMAIN items_ :
    LET mine == {r \in Requests : Key(r) = key /\ req[r].count > 0 /\ req[r].pc # "put"}
        starts == {req[r].start : r \in mine}
    IN (\A r \in mine : req[r].alone /\ req[r].counted < req[r].now + Window) =>
         \A s \in starts :
           /\ Cardinality({r \in mine : req[r].passed /\ req[r].start = s}) <= Budget
           /\ \A t \in starts : t > s => t >= s + Window
=============================================================================
