---------------------------- MODULE KernelProofs ----------------------------
(***************************************************************************)
(* Proofs about the kernel, for any routes, middleware, requests, budget   *)
(* and window: a request gets the first route that fits and the parameters *)
(* that make up its path, the layers of a pipeline are entered in the      *)
(* order they were registered and left in the reverse one, and throttle()  *)
(* keeps to its budget and refuses nobody before it is spent.  And about   *)
(* the cache, for any workers, keys and tags: flush() forgets what is      *)
(* stored under a tag.                                                     *)
(***************************************************************************)
EXTENDS MCKernel, FiniteSetTheorems, SequenceTheorems, WellFoundedInduction, TLAPS

-----------------------------------------------------------------------------
(* The requests: their invariants, each a predicate of one record where    *)
(* the requests do not depend on each other.                               *)

Fields ==
  {"pc", "method", "path", "client", "chain", "at", "status", "allow", "params", "route",
   "now", "count", "start", "entered", "left", "passed", "counted", "alone"}

(* The names of the layers of a chain. *)
Name == Layers \union {"handler"}

Stack(k) == Global \o Routes[k].middleware

TypeRec(q, t) ==
  /\ DOMAIN q = Fields
  /\ q.pc \in {"new", "in", "get", "put", "out", "done"}
  /\ q.at \in Nat /\ q.status \in Status /\ q.route \in 0..Len(Routes)
  /\ q.chain \in Seq(Name) /\ q.entered \in Seq(Name) /\ q.left \in Seq(Name)
  /\ q.now \in 0..t /\ q.start \in 0..t /\ q.counted \in 0..t
  /\ q.count \in Nat /\ q.passed \in BOOLEAN /\ q.alone \in BOOLEAN

TypeInv ==
  /\ time \in 0..MaxTime
  /\ \A k \in DOMAIN items_ :
       items_[k].count \in Nat /\ items_[k].start \in 0..time /\ items_[k].expires \in Nat
  /\ DOMAIN req = Requests /\ \A r \in Requests : TypeRec(req[r], time)

(* Where a request is in its chain, and what it has entered and left. *)
Way(pc, route, status, chain, at, entered, left) ==
  /\ pc = "new" => route = 0 /\ entered = <<>> /\ left = <<>>
  /\ route = 0 => pc \in {"new", "done"} /\ chain = <<>> /\ at = 0
  /\ route # 0 => chain = Stack(route) \o <<"handler">>
  /\ pc \in {"in", "get", "put"} => at \in 1..Len(chain) /\ Len(entered) = at - 1 /\ left = <<>>
  /\ pc \in {"new", "in", "get", "put"} => status = 0
  /\ pc \in {"get", "put"} => chain[at] = "throttle"
  /\ pc = "out" => at + Len(left) = Len(entered)
  /\ pc = "done" /\ status # 500 /\ route # 0 => Len(left) = Len(entered)
  /\ Len(left) <= Len(entered) /\ Len(entered) <= Len(chain) /\ at <= Len(chain)
  /\ \A i \in 1..Len(entered) : entered[i] = chain[i]
  /\ \A i \in 1..Len(left) : left[i] = entered[Len(entered) + 1 - i]

WayRec(q) == Way(q.pc, q.route, q.status, q.chain, q.at, q.entered, q.left)

WayInv == \A r \in Requests : WayRec(req[r])

(* throttle() is at most once in the way of a request. *)
ThrottleOnce ==
  \A k \in 1..Len(Routes) : \A i, j \in 1..Len(Stack(k)) :
    Stack(k)[i] = "throttle" /\ Stack(k)[j] = "throttle" => i = j

(* So it counts a request once, and what it found stays as it was. *)
Once(pc, status, chain, at, count, start, passed, counted) ==
  /\ pc \in {"new", "get"} => count = 0
  /\ pc = "put" => count > 0
  /\ pc = "in" /\ count > 0 => \A j \in at..Len(chain) : chain[j] # "throttle"
  /\ passed => count > 0 /\ pc # "put"
  /\ count > 0 /\ pc # "put" => (passed <=> count <= Budget) /\ start <= counted
  /\ status = 429 => count > Budget /\ pc \in {"out", "done"}

OnceRec(q) == Once(q.pc, q.status, q.chain, q.at, q.count, q.start, q.passed, q.counted)

OnceInv == \A r \in Requests : OnceRec(req[r])

(* Those that were let through in the window that began at s. *)
KeyOf(q) == <<q.path, q.client>>

Through(reqs, key, s) ==
  {o \in Requests : KeyOf(reqs[o]) = key /\ reqs[o].passed /\ reqs[o].start = s}

(* As many as n, or as the budget, were let through. *)
Backed(reqs, key, s, n) ==
  \A m \in 0..Budget : m <= n => Cardinality(Through(reqs, key, s)) >= m

(* A count was earned by requests that were let through in its window. *)
EarnedInv ==
  /\ \A k \in DOMAIN items_ : Backed(req, k, items_[k].start, items_[k].count)
  /\ \A r \in Requests : req[r].count > 0 =>
       /\ Backed(req, KeyOf(req[r]), req[r].start, req[r].count - 1)
       /\ req[r].count > 1 => req[r].now < req[r].start + Window

(* Those whose counting is over, and was orderly as BudgetKept demands. *)
Done(q) == q.count > 0 /\ q.pc # "put"

Orderly(reqs, key) ==
  \A r \in Requests : KeyOf(reqs[r]) = key /\ Done(reqs[r]) =>
    reqs[r].alone /\ reqs[r].counted < reqs[r].now + Window

(* q was counted before one that has count n in the window of s. *)
Before(q, s, n) == (q.start = s /\ q.count < n) \/ q.start + Window <= s

(* Two that count at the same time are not alone. *)
AloneInv ==
  \A r, o \in Requests :
    r # o /\ KeyOf(req[o]) = KeyOf(req[r]) /\ req[r].pc \in {"get", "put"} /\ req[o].pc \in {"get", "put"}
      => ~req[r].alone

(* The entry is the last that was counted, unless it has been removed by   *)
(* one that is about to put a new one.                                     *)
EntryInv ==
  \A r \in Requests : Done(req[r]) /\ Orderly(req, KeyOf(req[r])) =>
    \/ /\ KeyOf(req[r]) \in DOMAIN items_
       /\ Before(req[r], items_[KeyOf(req[r])].start, items_[KeyOf(req[r])].count + 1)
       /\ req[r].counted + 2 * Window <= items_[KeyOf(req[r])].expires
    \/ /\ KeyOf(req[r]) \notin DOMAIN items_
       /\ \E o \in Requests : KeyOf(req[o]) = KeyOf(req[r]) /\ req[o].pc = "put"

(* Whoever has read it, alone and in time, comes after that. *)
TurnInv ==
  \A r, o \in Requests :
    /\ KeyOf(req[o]) = KeyOf(req[r]) /\ Done(req[r]) /\ Orderly(req, KeyOf(req[r]))
    /\ req[o].pc = "put" /\ req[o].alone /\ time < req[o].now + Window
    => Before(req[r], req[o].start, req[o].count)

(* So all were counted one by one. *)
OrderInv ==
  \A r, o \in Requests :
    /\ r # o /\ KeyOf(req[o]) = KeyOf(req[r]) /\ Done(req[r]) /\ Done(req[o])
    /\ Orderly(req, KeyOf(req[r]))
    => Before(req[r], req[o].start, req[o].count) \/ Before(req[o], req[r].start, req[r].count)

BudgetInv == AloneInv /\ EntryInv /\ TurnInv /\ OrderInv

BaseInv == TypeInv /\ WayInv

(* A request goes on without being in throttle(). *)
QuietRec(n, q) ==
  /\ n.path = q.path /\ n.client = q.client
  /\ n.now = q.now /\ n.count = q.count /\ n.start = q.start
  /\ n.passed = q.passed /\ n.counted = q.counted /\ n.alone = q.alone
  /\ {n.pc, q.pc} \intersect {"get", "put"} = {} /\ n.pc # "new"
  /\ n.pc = "in" => q.pc = "new" \/ (q.pc = "in" /\ n.chain = q.chain /\ n.at = q.at + 1)
  /\ n.status = 429 => q.status = 429 /\ n.pc \in {"out", "done"}

-----------------------------------------------------------------------------
(* Operators.                                                              *)

(* A set of naturals that is not empty has a least element. *)
LEMMA LeastNatural ==
  ASSUME NEW T \in SUBSET Nat, T # {}
  PROVE  \E x \in T : \A y \in T : x <= y
<1>1. PICK x \in T : \A y \in T : ~(<<y, x>> \in OpToRel(<, Nat))
  BY NatLessThanWellFounded, WFMin
<1>2. \A y \in T : ~(y < x)
  BY <1>1 DEF OpToRel
<1> QED
  BY <1>2

(* What is around the handler after i steps of Pipeline::run()'s loop. *)
Wrapped(stack) ==
  [i \in 0..Len(stack) |-> SubSeq(stack, Len(stack) + 1 - i, Len(stack)) \o <<"handler">>]

(* The loop's steps, taken on it. *)
LEMMA WrappedNext ==
  ASSUME NEW S, NEW stack \in Seq(S)
  PROVE  /\ Wrapped(stack)[0] = <<"handler">>
         /\ \A i \in 1..Len(stack) :
              Wrapped(stack)[i] = <<stack[Len(stack) + 1 - i]>> \o Wrapped(stack)[i - 1]
         /\ Wrapped(stack)[Len(stack)] = stack \o <<"handler">>
<1> DEFINE n == Len(stack)
<1>0. n \in Nat
  OBVIOUS
<1>1. SubSeq(stack, n + 1, n) = << >>
  OBVIOUS
<1>2. Wrapped(stack)[0] = <<"handler">>
  <2>1. Wrapped(stack)[0] = SubSeq(stack, n + 1 - 0, n) \o <<"handler">> /\ n + 1 - 0 = n + 1
    BY <1>0 DEF Wrapped
  <2>2. << >> \o <<"handler">> = <<"handler">>
    OBVIOUS
  <2> QED
    BY <2>1, <2>2, <1>1
<1>3. ASSUME NEW i \in 1..n
      PROVE  Wrapped(stack)[i] = <<stack[n + 1 - i]>> \o Wrapped(stack)[i - 1]
  <2>1. /\ Wrapped(stack)[i] = SubSeq(stack, n + 1 - i, n) \o <<"handler">>
        /\ Wrapped(stack)[i - 1] = SubSeq(stack, n + 1 - (i - 1), n) \o <<"handler">>
    BY <1>0 DEF Wrapped
  <2>2. n + 1 - (i - 1) = n + 2 - i
    BY <1>0
  <2>3. /\ SubSeq(stack, n + 1 - i, n) \in Seq(S) /\ SubSeq(stack, n + 2 - i, n) \in Seq(S)
        /\ Len(SubSeq(stack, n + 1 - i, n)) = i /\ Len(SubSeq(stack, n + 2 - i, n)) = i - 1
        /\ \A j \in 1..i : SubSeq(stack, n + 1 - i, n)[j] = stack[n - i + j]
        /\ \A j \in 1..(i - 1) : SubSeq(stack, n + 2 - i, n)[j] = stack[n + 1 - i + j]
    BY <1>0
  <2> DEFINE a == SubSeq(stack, n + 1 - i, n) \o <<"handler">>
             b == <<stack[n + 1 - i]>> \o (SubSeq(stack, n + 2 - i, n) \o <<"handler">>)
  <2>4. stack[n + 1 - i] \in S
    BY <1>0
  <2>5. a \in Seq(S \union {"handler"}) /\ b \in Seq(S \union {"handler"})
    BY <2>3, <2>4
  <2>6. Len(a) = i + 1 /\ Len(b) = i + 1
    BY <2>3, <2>4
  <2>7. \A j \in 1..(i + 1) : a[j] = b[j]
    BY <2>3, <2>4
  <2> HIDE DEF a, b
  <2>8. a = b
    BY <2>5, <2>6, <2>7, SeqEqual
  <2> QED
    BY <2>1, <2>2, <2>8 DEF a, b
<1>4. Wrapped(stack)[n] = stack \o <<"handler">>
  <2>1. Wrapped(stack)[n] = SubSeq(stack, n + 1 - n, n) \o <<"handler">>
    BY <1>0 DEF Wrapped
  <2>2. n + 1 - n = 1 /\ SubSeq(stack, 1, n) = stack
    BY <1>0
  <2> QED
    BY <2>1, <2>2
<1> QED
  BY <1>2, <1>3, <1>4

(* Pipeline::run(): a call goes through the stack in its order, then to    *)
(* the handler.  By induction on the loop's steps, through the least at    *)
(* which the recursive function would differ.                              *)
LEMMA ComposeInOrder ==
  ASSUME NEW S, NEW stack \in Seq(S)
  PROVE  Compose(stack) = stack \o <<"handler">>
<1> DEFINE n == Len(stack)
           w == Wrapped(stack)
           Is(f) == f = [i \in 0..n |-> IF i = 0 THEN <<"handler">>
                                        ELSE <<stack[n + 1 - i]>> \o f[i - 1]]
           next == CHOOSE f : Is(f)
<1>0. n \in Nat
  OBVIOUS
<1>1. w = [i \in 0..n |-> w[i]]
  BY DEF Wrapped
<1>2. w = [i \in 0..n |-> IF i = 0 THEN <<"handler">> ELSE <<stack[n + 1 - i]>> \o w[i - 1]]
  <2>1. \A i \in 0..n : w[i] = IF i = 0 THEN <<"handler">> ELSE <<stack[n + 1 - i]>> \o w[i - 1]
    <3>1. \A i \in 0..n : i = 0 \/ i \in 1..n
      BY <1>0
    <3> QED
      BY <3>1, WrappedNext
  <2> HIDE DEF w
  <2> QED
    BY <1>1, <2>1
<1>3. next = [i \in 0..n |-> IF i = 0 THEN <<"handler">> ELSE <<stack[n + 1 - i]>> \o next[i - 1]]
  BY <1>2
<1>4. Compose(stack) = next[n]
  BY DEF Compose
<1> HIDE DEF next
<1>5. next[0] = <<"handler">>
  BY <1>0, <1>3
<1>6. \A i \in 1..n : next[i] = <<stack[n + 1 - i]>> \o next[i - 1]
  <2>1. \A i \in 1..n : i \in 0..n /\ i # 0
    BY <1>0
  <2> QED
    BY <2>1, <1>3, Zenon
<1>7. \A i \in 0..n : next[i] = w[i]
  <2> DEFINE Bad == {i \in 0..n : next[i] # w[i]}
  <2>1. SUFFICES ASSUME Bad # {} PROVE FALSE
    OBVIOUS
  <2>2. PICK i \in Bad : \A j \in Bad : i <= j
    <3>1. Bad \in SUBSET Nat
      BY <1>0
    <3> HIDE DEF Bad
    <3> QED
      BY <2>1, <3>1, LeastNatural
  <2>3. i \in 1..n
    <3>1. w[0] = <<"handler">>
      BY WrappedNext
    <3>2. i # 0
      BY <3>1, <1>5
    <3> QED
      BY <1>0, <3>2
  <2>4. next[i - 1] = w[i - 1]
    <3>1. i - 1 \in 0..n /\ i - 1 < i
      BY <1>0, <2>3
    <3> QED
      BY <2>2, <3>1, <1>0
  <2>5. w[i] = <<stack[n + 1 - i]>> \o w[i - 1]
    BY <2>3, WrappedNext
  <2>6. next[i] = <<stack[n + 1 - i]>> \o next[i - 1]
    BY <2>3, <1>6
  <2> QED
    BY <2>2, <2>4, <2>5, <2>6
<1>8. next[n] = w[n]
  BY <1>0, <1>7
<1>9. w[n] = stack \o <<"handler">>
  BY WrappedNext
<1> QED
  BY <1>4, <1>8, <1>9

(* A route for the method, with a uri that matches the path. *)
Fits(k, method, path) == Routes[k].method = method /\ Matches(Routes[k].uri, path)

(* Router::match() gives the first route that fits, or none. *)
LEMMA MatchFirst ==
  ASSUME NEW method, NEW path
  PROVE  \/ /\ match(method, path) = 0
            /\ \A j \in 1..Len(Routes) : ~Fits(j, method, path)
         \/ /\ match(method, path) \in 1..Len(Routes) /\ Fits(match(method, path), method, path)
            /\ \A j \in 1..(match(method, path) - 1) : ~Fits(j, method, path)
<1> DEFINE I == {j \in 1..Len(Routes) : Fits(j, method, path)}
           k == match(method, path)
<1>0. Len(Routes) \in Nat
  BY RouterAssumption
<1>1. k = IF I # {} THEN Min(I) ELSE 0
  BY DEF match, SelectInSeq, Fits
<1>2. CASE I = {}
  BY <1>1, <1>2
<1>3. CASE I # {}
  <2>1. I \in SUBSET Nat
    BY <1>0
  <2> HIDE DEF I
  <2>2. \E x \in I : \A y \in I : x <= y
    BY <1>3, <2>1, LeastNatural
  <2>3. Min(I) \in I /\ \A y \in I : Min(I) <= y
    BY <2>2 DEF Min
  <2>4. k = Min(I)
    BY <1>1, <1>3
  <2>5. k \in I /\ \A y \in I : k <= y
    BY <2>3, <2>4
  <2> HIDE DEF k
  <2>6. k \in 1..Len(Routes) /\ Fits(k, method, path) /\ \A j \in 1..(k - 1) : ~Fits(j, method, path)
    BY <1>0, <2>5 DEF I
  <2> QED
    BY <2>6 DEF k
<1> QED
  BY <1>2, <1>3

-----------------------------------------------------------------------------
(* The way through the layers.                                             *)

(* A chain ends in the handler, and its layers are named. *)
LEMMA ChainFacts ==
  ASSUME NEW k \in 1..Len(Routes)
  PROVE  /\ Stack(k) \in Seq(Name) /\ Compose(Stack(k)) = Stack(k) \o <<"handler">>
         /\ Stack(k) \o <<"handler">> \in Seq(Name)
         /\ Len(Stack(k) \o <<"handler">>) = Len(Stack(k)) + 1
         /\ (Stack(k) \o <<"handler">>)[Len(Stack(k)) + 1] = "handler"
         /\ \A i \in 1..Len(Stack(k)) : (Stack(k) \o <<"handler">>)[i] = Stack(k)[i]
<1>0. "handler" \in Name
  BY DEF Name
<1>1. Stack(k) \in Seq(Name)
  <2>0. ASSUME NEW s \in Seq(STRING), NEW T, ToSet(s) \subseteq T
        PROVE  s \in Seq(T)
    <3>1. \A i \in 1..Len(s) : s[i] \in T
      BY <2>0 DEF ToSet
    <3>2. Len(s) \in Nat /\ s \in [1..Len(s) -> STRING]
      OBVIOUS
    <3>3. s \in [1..Len(s) -> T]
      BY <3>1, <3>2
    <3> QED
      BY <3>2, <3>3
  <2>1. Routes[k].middleware \in Seq(STRING)
    <3> DEFINE Pieces == Seq([kind : {"literal", "name", "catch_all"}, text : STRING])
    <3> HIDE DEF Pieces
    <3> DEFINE Route == [method : STRING, middleware : Seq(STRING), uri : Pieces]
    <3>1. Routes \in Seq(Route)
      BY RouterAssumption DEF Pieces
    <3>2. \A x \in Route : x.middleware \in Seq(STRING)
      OBVIOUS
    <3> HIDE DEF Route
    <3>3. Routes[k] \in Route
      BY <3>1
    <3> QED
      BY <3>2, <3>3
  <2>2. Global \in Seq(STRING)
    BY KernelAssumption
  <2>3. ToSet(Routes[k].middleware) \subseteq Name /\ ToSet(Global) \subseteq Name
    BY DEF Name, Layers
  <2>4. Routes[k].middleware \in Seq(Name) /\ Global \in Seq(Name)
    BY <2>0, <2>1, <2>2, <2>3
  <2> QED
    BY <2>4 DEF Stack
<1>2. Compose(Stack(k)) = Stack(k) \o <<"handler">>
  BY <1>1, ComposeInOrder
<1>3. ASSUME NEW S, NEW x \in S, NEW s \in Seq(S)
      PROVE  /\ s \o <<x>> \in Seq(S) /\ Len(s \o <<x>>) = Len(s) + 1
             /\ (s \o <<x>>)[Len(s) + 1] = x
             /\ \A i \in 1..Len(s) : (s \o <<x>>)[i] = s[i]
  OBVIOUS
<1> QED
  BY <1>0, <1>1, <1>2, <1>3

(* What Append does. *)
LEMMA AppendFacts ==
  ASSUME NEW S, NEW s \in Seq(S), NEW x \in S
  PROVE  /\ Append(s, x) \in Seq(S) /\ Len(Append(s, x)) = Len(s) + 1
         /\ Append(s, x)[Len(s) + 1] = x /\ \A i \in 1..Len(s) : Append(s, x)[i] = s[i]
OBVIOUS

(* One more layer is entered ... *)
LEMMA EnterOne ==
  ASSUME NEW c \in Seq(Name), NEW e \in Seq(Name), NEW at \in 1..Len(c), Len(e) = at - 1,
         \A i \in 1..Len(e) : e[i] = c[i]
  PROVE  /\ c[at] \in Name /\ Append(e, c[at]) \in Seq(Name) /\ Len(Append(e, c[at])) = at
         /\ \A i \in 1..at : Append(e, c[at])[i] = c[i]
<1>1. c[at] \in Name /\ Len(c) \in Nat /\ Len(e) \in Nat
  OBVIOUS
<1>2. \A i \in 1..at : i = at \/ i \in 1..Len(e)
  BY <1>1
<1>3. Len(e) + 1 = at
  BY <1>1
<1> QED
  BY <1>1, <1>2, <1>3, AppendFacts

(* ... or left. *)
LEMMA LeaveOne ==
  ASSUME NEW e \in Seq(Name), NEW l \in Seq(Name), NEW at \in 1..Len(e), at + Len(l) = Len(e),
         \A i \in 1..Len(l) : l[i] = e[Len(e) + 1 - i]
  PROVE  /\ Append(l, e[at]) \in Seq(Name) /\ at - 1 + Len(Append(l, e[at])) = Len(e)
         /\ \A i \in 1..Len(Append(l, e[at])) : Append(l, e[at])[i] = e[Len(e) + 1 - i]
<1>1. e[at] \in Name /\ Len(e) \in Nat /\ Len(l) \in Nat
  OBVIOUS
<1>2. \A i \in 1..(Len(l) + 1) : i = Len(l) + 1 \/ i \in 1..Len(l)
  BY <1>1
<1>3. \A a, b, c \in Nat : a + b = c => c + 1 - (b + 1) = a /\ a - 1 + (b + 1) = c
  OBVIOUS
<1>4. Len(e) + 1 - (Len(l) + 1) = at /\ at - 1 + (Len(l) + 1) = Len(e)
  <2>1. at \in Nat
    BY <1>1
  <2>2. \A b, c \in Nat : at + b = c => c + 1 - (b + 1) = at /\ at - 1 + (b + 1) = c
    BY <1>3, <2>1
  <2> QED
    BY <1>1, <2>2
<1> QED
  BY <1>1, <1>2, <1>4, AppendFacts

(* A record that has what the invariants speak of as q has it is on the   *)
(* same way.                                                               *)
LEMMA SameWayRec ==
  ASSUME NEW n, NEW q, WayRec(q),
         n.pc = q.pc, n.route = q.route, n.chain = q.chain, n.at = q.at, n.status = q.status,
         n.entered = q.entered, n.left = q.left
  PROVE  WayRec(n)
BY DEF WayRec

(* Where next is called there is a layer further in. *)
LEMMA NotLast ==
  ASSUME NEW pc \in {"in", "put"}, NEW route \in 0..Len(Routes), NEW status, NEW at \in Nat,
         NEW c \in Seq(Name), NEW e \in Seq(Name), NEW l \in Seq(Name),
         Way(pc, route, status, c, at, e, l), c[at] # "handler"
  PROVE  at + 1 \in 1..Len(c) /\ Len(c) \in Nat
<1>1. route # 0 /\ Len(Routes) \in Nat
  BY RouterAssumption DEF Way
<1>2. route \in 1..Len(Routes)
  BY <1>1
<1>3. c = Stack(route) \o <<"handler">>
  BY <1>1 DEF Way
<1>4. c[Len(c)] = "handler" /\ Len(c) \in Nat
  BY <1>2, <1>3, ChainFacts
<1>5. at \in 1..Len(c)
  BY DEF Way
<1>6. at # Len(c)
  BY <1>4
<1> QED
  BY <1>4, <1>5, <1>6

(* A layer calls next. *)
LEMMA DeeperWay ==
  ASSUME NEW pc \in {"in", "put"}, NEW route \in 0..Len(Routes), NEW status, NEW at \in Nat,
         NEW c \in Seq(Name), NEW e \in Seq(Name), NEW l \in Seq(Name),
         Way(pc, route, status, c, at, e, l), c[at] # "handler"
  PROVE  Append(e, c[at]) \in Seq(Name) /\ Way("in", route, status, c, at + 1, Append(e, c[at]), l)
<1>1. /\ at \in 1..Len(c) /\ Len(e) = at - 1 /\ l = <<>> /\ \A i \in 1..Len(e) : e[i] = c[i]
      /\ route # 0 /\ c = Stack(route) \o <<"handler">>
  BY DEF Way
<1>2. at + 1 \in 1..Len(c) /\ Len(c) \in Nat
  BY NotLast
<1> DEFINE x == Append(e, c[at])
<1>3. x \in Seq(Name) /\ Len(x) = at /\ \A i \in 1..at : x[i] = c[i]
  BY <1>1, EnterOne
<1> HIDE DEF x
<1>4. Len(l) = 0 /\ Len(x) = at + 1 - 1 /\ 0 <= Len(x) /\ Len(x) <= Len(c)
  BY <1>1, <1>2, <1>3
<1>5. Way("in", route, status, c, at + 1, x, l)
  BY <1>1, <1>2, <1>3, <1>4 DEF Way
<1> QED
  BY <1>3, <1>5 DEF x

(* A layer answers itself. *)
LEMMA AnswersWay ==
  ASSUME NEW pc \in {"in", "put"}, NEW route \in 0..Len(Routes), NEW status, NEW at \in Nat,
         NEW c \in Seq(Name), NEW e \in Seq(Name), NEW l \in Seq(Name),
         Way(pc, route, status, c, at, e, l), NEW new
  PROVE  /\ at - 1 \in Nat /\ Append(e, c[at]) \in Seq(Name) /\ Append(l, c[at]) \in Seq(Name)
         /\ Way("out", route, new, c, at - 1, Append(e, c[at]), Append(l, c[at]))
<1>1. /\ at \in 1..Len(c) /\ Len(e) = at - 1 /\ l = <<>> /\ \A i \in 1..Len(e) : e[i] = c[i]
      /\ route # 0 /\ c = Stack(route) \o <<"handler">>
  BY DEF Way
<1>2. Len(c) \in Nat /\ at - 1 \in Nat
  BY <1>1
<1> DEFINE x == Append(e, c[at]) y == Append(l, c[at])
<1>3. c[at] \in Name /\ x \in Seq(Name) /\ Len(x) = at /\ \A i \in 1..at : x[i] = c[i]
  BY <1>1, EnterOne
<1>4. y \in Seq(Name) /\ Len(y) = 1 /\ y[1] = c[at]
  BY <1>1, <1>3
<1> HIDE DEF x, y
<1>5. \A i \in 1..Len(y) : y[i] = x[Len(x) + 1 - i]
  <2>1. \A i \in 1..1 : i = 1
    OBVIOUS
  <2>2. Len(x) + 1 - 1 = at /\ at \in 1..at
    BY <1>1, <1>3
  <2> QED
    BY <1>3, <1>4, <2>1, <2>2
<1>6. at - 1 + Len(y) = Len(x) /\ Len(y) <= Len(x) /\ Len(x) <= Len(c)
  BY <1>1, <1>2, <1>3, <1>4
<1>7. Way("out", route, new, c, at - 1, x, y)
  BY <1>1, <1>2, <1>3, <1>5, <1>6 DEF Way
<1> QED
  BY <1>2, <1>3, <1>4, <1>7 DEF x, y

(* The response goes back through one more layer, or out of the pipeline. *)
LEMMA ReturnWay ==
  ASSUME NEW route \in 0..Len(Routes), NEW status, NEW at \in Nat,
         NEW c \in Seq(Name), NEW e \in Seq(Name), NEW l \in Seq(Name),
         Way("out", route, status, c, at, e, l)
  PROVE  /\ at = 0 => Way("done", route, status, c, at, e, l)
         /\ at # 0 => /\ at - 1 \in Nat /\ Append(l, c[at]) \in Seq(Name)
                      /\ Way("out", route, status, c, at - 1, e, Append(l, c[at]))
<1>1. /\ at + Len(l) = Len(e) /\ Len(l) <= Len(e) /\ Len(e) <= Len(c)
      /\ route # 0 /\ c = Stack(route) \o <<"handler">>
      /\ \A i \in 1..Len(e) : e[i] = c[i]
      /\ \A i \in 1..Len(l) : l[i] = e[Len(e) + 1 - i]
  BY DEF Way
<1>2. Len(e) \in Nat /\ Len(l) \in Nat /\ Len(c) \in Nat
  OBVIOUS
<1>3. ASSUME at = 0
      PROVE  Way("done", route, status, c, at, e, l)
  BY <1>1, <1>2, <1>3 DEF Way
<1>4. ASSUME at # 0
      PROVE  /\ at - 1 \in Nat /\ Append(l, c[at]) \in Seq(Name)
             /\ Way("out", route, status, c, at - 1, e, Append(l, c[at]))
  <2>1. at \in 1..Len(e) /\ at - 1 \in Nat
    BY <1>1, <1>2, <1>4
  <2>2. e[at] = c[at]
    BY <1>1, <2>1
  <2> DEFINE x == Append(l, e[at])
  <2>3. /\ x \in Seq(Name) /\ at - 1 + Len(x) = Len(e)
        /\ \A i \in 1..Len(x) : x[i] = e[Len(e) + 1 - i]
    BY <1>1, <2>1, LeaveOne
  <2> HIDE DEF x
  <2>4. Len(x) <= Len(e)
    BY <1>2, <2>1, <2>3
  <2>5. Way("out", route, status, c, at - 1, e, x)
    BY <1>1, <1>2, <2>3, <2>4 DEF Way
  <2> QED
    BY <2>1, <2>2, <2>3, <2>5 DEF x
<1> QED
  BY <1>3, <1>4

-----------------------------------------------------------------------------
(* The steps outside throttle().                                           *)

(* One request moves, the others stay. *)
Moves(r) == DOMAIN req' = Requests /\ \A o \in Requests \ {r} : req'[o] = req[o]

(* An assignment to one request. *)
LEMMA MovesOne ==
  ASSUME TypeInv, NEW r \in Requests, NEW n, req' = [req EXCEPT ![r] = n]
  PROVE  Moves(r) /\ req'[r] = n
BY DEF TypeInv, Moves

(* It is enough to look at the one that moves. *)
LEMMA OneKeeps ==
  ASSUME BaseInv, NEW r \in Requests, Moves(r), UNCHANGED <<time, items_>>,
         TypeRec(req'[r], time), WayRec(req'[r])
  PROVE  BaseInv'
<1>1. ASSUME NEW o \in Requests
      PROVE  TypeRec(req'[o], time) /\ WayRec(req'[o])
  <2>1. CASE o = r
    BY <2>1
  <2>2. CASE o # r
    <3>1. req'[o] = req[o]
      BY <2>2 DEF Moves
    <3> QED
      BY <3>1 DEF BaseInv, TypeInv, WayInv
  <2> QED
    BY <2>1, <2>2
<1>2. TypeInv'
  BY <1>1 DEF BaseInv, TypeInv, Moves
<1>3. WayInv'
  BY <1>1 DEF WayInv
<1> QED
  BY <1>2, <1>3 DEF BaseInv

(* The fields of a request. *)
LEMMA RecTypes ==
  ASSUME BaseInv, NEW r \in Requests
  PROVE  /\ TypeRec(req[r], time) /\ WayRec(req[r])
         /\ DOMAIN req[r] = Fields /\ req[r].route \in 0..Len(Routes) /\ req[r].at \in Nat
         /\ req[r].chain \in Seq(Name) /\ req[r].entered \in Seq(Name) /\ req[r].left \in Seq(Name)
         /\ Way(req[r].pc, req[r].route, req[r].status, req[r].chain, req[r].at,
                req[r].entered, req[r].left)
         /\ Len(Routes) \in Nat /\ time \in Nat
BY RouterAssumption, KernelAssumption DEF BaseInv, TypeInv, WayInv, TypeRec, WayRec

(* handle() without a route. *)
LEMMA QuietUnmatched ==
  ASSUME BaseInv, NEW r \in Requests, Unmatched(r)
  PROVE  Moves(r) /\ QuietRec(req'[r], req[r]) /\ BaseInv' /\ UNCHANGED <<time, items_>>
<1> DEFINE q == req[r] n == req'[r]
<1>1. q.pc = "new" /\ UNCHANGED <<time, items_>>
  BY DEF Unmatched
<1>2. DOMAIN req = Requests /\ DOMAIN req[r] = Fields
  BY RecTypes DEF BaseInv, TypeInv
<1>3. /\ Moves(r)
      /\ n.pc = "done" /\ n.status \in {404, 405} /\ n.route = q.route /\ n.chain = q.chain
      /\ n.at = q.at /\ n.entered = q.entered /\ n.left = q.left /\ DOMAIN n = Fields
      /\ n.path = q.path /\ n.client = q.client /\ n.now = q.now /\ n.count = q.count
      /\ n.start = q.start /\ n.passed = q.passed /\ n.counted = q.counted /\ n.alone = q.alone
  BY <1>2 DEF Unmatched, Fields, Moves
<1> HIDE DEF n
<1>4. TypeRec(n, time)
  <2>1. n.status \in Status
    BY <1>3 DEF Status
  <2> QED
    BY <1>3, <2>1, RecTypes, ZenonT(60) DEF TypeRec
<1>5. WayRec(n)
  <2>1. Way(q.pc, q.route, q.status, q.chain, q.at, q.entered, q.left)
    BY RecTypes
  <2>2. Way("done", q.route, n.status, q.chain, q.at, q.entered, q.left)
    BY <1>1, <2>1 DEF Way
  <2> QED
    BY <1>3, <2>2 DEF WayRec
<1>6. QuietRec(n, q)
  BY <1>1, <1>3 DEF QuietRec
<1> QED
  BY <1>1, <1>3, <1>4, <1>5, <1>6, OneKeeps DEF n

(* handle() with a route, up to the pipeline. *)
LEMMA QuietMatched ==
  ASSUME BaseInv, NEW r \in Requests, Matched(r)
  PROVE  Moves(r) /\ QuietRec(req'[r], req[r]) /\ BaseInv' /\ UNCHANGED <<time, items_>>
<1> DEFINE q == req[r] k == match(q.method, q.path) c == Compose(Global \o Routes[k].middleware)
           params == Params(Routes[k].uri, q.path)
           n == [q EXCEPT !.pc = "in", !.at = 1, !.route = k, !.params = params, !.chain = c]
<1>1. q.pc = "new" /\ k # 0 /\ req' = [req EXCEPT ![r] = n] /\ UNCHANGED <<time, items_>>
  BY DEF Matched
<1>2. Moves(r) /\ req'[r] = n
  BY <1>1, MovesOne DEF BaseInv
<1>3. k \in 1..Len(Routes)
  BY <1>1, MatchFirst
<1> HIDE DEF k
<1>4. /\ c \in Seq(Name) /\ c = Stack(k) \o <<"handler">> /\ Len(c) = Len(Stack(k)) + 1
      /\ Len(Stack(k)) \in Nat
  <2>1. c = Compose(Stack(k))
    BY DEF Stack
  <2>2. /\ Stack(k) \in Seq(Name) /\ Compose(Stack(k)) = Stack(k) \o <<"handler">>
        /\ Stack(k) \o <<"handler">> \in Seq(Name)
        /\ Len(Stack(k) \o <<"handler">>) = Len(Stack(k)) + 1
    BY <1>3, ChainFacts
  <2>3. Len(Stack(k)) \in Nat
    BY <2>2
  <2> HIDE DEF c
  <2> QED
    BY <2>1, <2>2, <2>3
<1> HIDE DEF c, params
<1>5. /\ n.pc = "in" /\ n.status = q.status /\ n.route = k /\ n.chain = c
      /\ n.at = 1 /\ n.entered = q.entered /\ n.left = q.left /\ DOMAIN n = Fields
      /\ n.path = q.path /\ n.client = q.client /\ n.now = q.now /\ n.count = q.count
      /\ n.start = q.start /\ n.passed = q.passed /\ n.counted = q.counted /\ n.alone = q.alone
  BY RecTypes DEF Fields
<1> HIDE DEF n
<1>6. k \in 0..Len(Routes) /\ 1 \in Nat /\ Len(Routes) \in Nat
  BY <1>3, RecTypes
<1>7. TypeRec(n, time)
  BY <1>3, <1>4, <1>5, <1>6, RecTypes, ZenonT(60) DEF TypeRec
<1>8. WayRec(n)
  <2>1. Way(q.pc, q.route, q.status, q.chain, q.at, q.entered, q.left)
    BY RecTypes
  <2>2. q.entered = <<>> /\ q.left = <<>> /\ q.status = 0
    BY <1>1, <2>1 DEF Way
  <2>3. Way("in", k, 0, c, 1, <<>>, <<>>)
    BY <1>3, <1>4, <1>6 DEF Way
  <2> QED
    BY <1>5, <2>2, <2>3 DEF WayRec
<1>9. QuietRec(n, q)
  <2>1. q.status # 429
    BY <1>1, RecTypes DEF Way
  <2> QED
    BY <1>1, <1>5, <2>1 DEF QuietRec
<1> QED
  BY <1>1, <1>2, <1>7, <1>8, <1>9, OneKeeps

(* A middleware calls next. *)
LEMMA QuietCallNext ==
  ASSUME BaseInv, NEW r \in Requests, CallNext(r)
  PROVE  Moves(r) /\ QuietRec(req'[r], req[r]) /\ BaseInv' /\ UNCHANGED <<time, items_>>
<1> DEFINE q == req[r] x == Append(q.entered, q.chain[q.at])
           n == [q EXCEPT !.pc = "in", !.at = q.at + 1, !.entered = x]
<1>1. /\ q.pc = "in" /\ q.chain[q.at] # "handler" /\ req' = [req EXCEPT ![r] = n]
      /\ UNCHANGED <<time, items_>>
  BY DEF CallNext, InApplication, Layer, Deeper
<1>2. Moves(r) /\ req'[r] = n
  BY <1>1, MovesOne DEF BaseInv
<1>3. x \in Seq(Name) /\ Way("in", q.route, q.status, q.chain, q.at + 1, x, q.left)
  <2>1. q.pc \in {"in", "put"}
    BY <1>1
  <2> HIDE DEF q, x
  <2> QED
    BY <1>1, <2>1, RecTypes, DeeperWay DEF q, x
<1> HIDE DEF x
<1>4. /\ n.pc = "in" /\ n.status = q.status /\ n.route = q.route /\ n.chain = q.chain
      /\ n.at = q.at + 1 /\ n.entered = x /\ n.left = q.left /\ DOMAIN n = Fields
      /\ n.path = q.path /\ n.client = q.client /\ n.now = q.now /\ n.count = q.count
      /\ n.start = q.start /\ n.passed = q.passed /\ n.counted = q.counted /\ n.alone = q.alone
  BY RecTypes DEF Fields
<1> HIDE DEF n
<1>5. TypeRec(n, time)
  <2>1. q.at + 1 \in Nat
    BY RecTypes
  <2> QED
    BY <1>3, <1>4, <2>1, RecTypes, ZenonT(60) DEF TypeRec
<1>6. WayRec(n)
  BY <1>3, <1>4 DEF WayRec
<1>7. QuietRec(n, q)
  <2>1. q.status # 429
    BY <1>1, RecTypes DEF Way
  <2> QED
    BY <1>1, <1>4, <2>1 DEF QuietRec
<1> QED
  BY <1>1, <1>2, <1>5, <1>6, <1>7, OneKeeps

(* A middleware answers itself, or the handler does. *)
LEMMA QuietAnswers ==
  ASSUME BaseInv, NEW r \in Requests, ShortCircuit(r) \/ RunHandler(r)
  PROVE  Moves(r) /\ QuietRec(req'[r], req[r]) /\ BaseInv' /\ UNCHANGED <<time, items_>>
<1> DEFINE q == req[r] x == Append(q.entered, q.chain[q.at]) y == Append(q.left, q.chain[q.at])
           status == IF ShortCircuit(r) THEN 401 ELSE 200
           n == [q EXCEPT !.pc = "out", !.status = status, !.at = q.at - 1, !.entered = x, !.left = y]
<1>1. q.pc = "in" /\ req' = [req EXCEPT ![r] = n] /\ UNCHANGED <<time, items_>>
  <2>1. CASE ShortCircuit(r)
    <3>1. status = 401
      BY <2>1
    <3> HIDE DEF status
    <3> QED
      BY <2>1, <3>1 DEF ShortCircuit, InApplication, Layer, Answers
  <2>2. CASE ~ShortCircuit(r)
    <3>1. status = 200
      BY <2>2
    <3> HIDE DEF status
    <3> QED
      BY <2>2, <3>1 DEF RunHandler, Entering, Layer, Answers
  <2> QED
    BY <2>1, <2>2
<1>2. Moves(r) /\ req'[r] = n
  <2> HIDE DEF n
  <2> QED
    BY <1>1, MovesOne DEF BaseInv
<1>3. /\ q.at - 1 \in Nat /\ x \in Seq(Name) /\ y \in Seq(Name)
      /\ Way("out", q.route, status, q.chain, q.at - 1, x, y)
  <2>1. q.pc \in {"in", "put"}
    BY <1>1
  <2> HIDE DEF q, x, y, status
  <2> QED
    BY <1>1, <2>1, RecTypes, AnswersWay DEF q, x, y
<1>4. status \in Status /\ status # 429
  BY DEF Status
<1> HIDE DEF x, y, status
<1>5. /\ n.pc = "out" /\ n.status = status /\ n.route = q.route /\ n.chain = q.chain
      /\ n.at = q.at - 1 /\ n.entered = x /\ n.left = y /\ DOMAIN n = Fields
      /\ n.path = q.path /\ n.client = q.client /\ n.now = q.now /\ n.count = q.count
      /\ n.start = q.start /\ n.passed = q.passed /\ n.counted = q.counted /\ n.alone = q.alone
  BY RecTypes DEF Fields
<1> HIDE DEF n
<1>6. TypeRec(n, time)
  <2>1. /\ n.pc \in {"new", "in", "get", "put", "out", "done"}
        /\ n.status \in Status /\ n.at \in Nat /\ n.entered \in Seq(Name) /\ n.left \in Seq(Name)
    BY <1>3, <1>4, <1>5
  <2> QED
    BY <1>5, <2>1, RecTypes, ZenonT(60) DEF TypeRec
<1>7. WayRec(n)
  BY <1>3, <1>5 DEF WayRec
<1>8. QuietRec(n, q)
  BY <1>1, <1>4, <1>5 DEF QuietRec
<1> QED
  BY <1>1, <1>2, <1>6, <1>7, <1>8, OneKeeps

(* The response goes back. *)
LEMMA QuietReturn ==
  ASSUME BaseInv, NEW r \in Requests, Return(r)
  PROVE  Moves(r) /\ QuietRec(req'[r], req[r]) /\ BaseInv' /\ UNCHANGED <<time, items_>>
<1> DEFINE q == req[r] y == Append(q.left, q.chain[q.at]) n == req'[r]
<1>1. q.pc = "out" /\ UNCHANGED <<time, items_>>
  BY DEF Return
<1>2. /\ Moves(r)
      /\ n = IF q.at = 0 THEN [q EXCEPT !.pc = "done"] ELSE [q EXCEPT !.at = q.at - 1, !.left = y]
  <2>1. DOMAIN req = Requests
    BY DEF BaseInv, TypeInv
  <2>2. CASE q.at = 0
    BY <2>1, <2>2 DEF Return, Moves
  <2>3. CASE q.at # 0
    BY <2>1, <2>3 DEF Return, Layer, Moves
  <2> QED
    BY <2>2, <2>3
<1>3. /\ q.at = 0 => Way("done", q.route, q.status, q.chain, q.at, q.entered, q.left)
      /\ q.at # 0 => /\ q.at - 1 \in Nat /\ y \in Seq(Name)
                     /\ Way("out", q.route, q.status, q.chain, q.at - 1, q.entered, y)
  <2> HIDE DEF q, y
  <2> QED
    BY <1>1, RecTypes, ReturnWay DEF q, y
<1> HIDE DEF y, n
<1>4. /\ n.status = q.status /\ n.route = q.route /\ n.chain = q.chain
      /\ n.entered = q.entered /\ DOMAIN n = Fields
      /\ n.path = q.path /\ n.client = q.client /\ n.now = q.now /\ n.count = q.count
      /\ n.start = q.start /\ n.passed = q.passed /\ n.counted = q.counted /\ n.alone = q.alone
      /\ q.at = 0 => n.pc = "done" /\ n.at = q.at /\ n.left = q.left
      /\ q.at # 0 => n.pc = "out" /\ n.at = q.at - 1 /\ n.left = y
  BY <1>1, <1>2, RecTypes DEF Fields
<1>5. n.pc \in {"out", "done"} /\ n.at \in Nat /\ n.left \in Seq(Name)
  BY <1>3, <1>4, RecTypes
<1>6. TypeRec(n, time)
  <2>1. n.pc \in {"new", "in", "get", "put", "out", "done"}
    BY <1>5
  <2> QED
    BY <1>4, <1>5, <2>1, RecTypes, ZenonT(60) DEF TypeRec
<1>7. WayRec(n)
  BY <1>3, <1>4, Zenon DEF WayRec
<1>8. QuietRec(n, q)
  BY <1>1, <1>4, <1>5 DEF QuietRec
<1> QED
  BY <1>1, <1>2, <1>6, <1>7, <1>8, OneKeeps DEF n

(* handle() catches what a layer throws. *)
LEMMA QuietThrows ==
  ASSUME BaseInv, NEW r \in Requests, Throws(r)
  PROVE  Moves(r) /\ QuietRec(req'[r], req[r]) /\ BaseInv' /\ UNCHANGED <<time, items_>>
<1> DEFINE q == req[r] n == req'[r]
<1>1. q.pc \in {"in", "out"} /\ UNCHANGED <<time, items_>>
  BY DEF Throws, InApplication
<1>2. DOMAIN req = Requests /\ DOMAIN req[r] = Fields
  BY RecTypes DEF BaseInv, TypeInv
<1>3. /\ Moves(r)
      /\ n.pc = "done" /\ n.status = 500 /\ n.route = q.route /\ n.chain = q.chain
      /\ n.at = q.at /\ n.entered = q.entered /\ n.left = q.left /\ DOMAIN n = Fields
      /\ n.path = q.path /\ n.client = q.client /\ n.now = q.now /\ n.count = q.count
      /\ n.start = q.start /\ n.passed = q.passed /\ n.counted = q.counted /\ n.alone = q.alone
  BY <1>2 DEF Throws, Fields, Moves
<1> HIDE DEF n
<1>4. TypeRec(n, time)
  <2>1. n.status \in Status /\ n.pc \in {"new", "in", "get", "put", "out", "done"}
    BY <1>3 DEF Status
  <2>2. TypeRec(q, time)
    BY RecTypes
  <2> HIDE DEF q
  <2> QED
    BY <1>3, <2>1, <2>2, ZenonT(60) DEF TypeRec
<1>5. WayRec(n)
  <2>1. Way(q.pc, q.route, q.status, q.chain, q.at, q.entered, q.left)
    BY RecTypes
  <2>2. Way("done", q.route, 500, q.chain, q.at, q.entered, q.left)
    BY <1>1, <2>1 DEF Way
  <2> QED
    BY <1>3, <2>2 DEF WayRec
<1>6. QuietRec(n, q)
  BY <1>1, <1>3 DEF QuietRec
<1> QED
  BY <1>1, <1>3, <1>4, <1>5, <1>6, OneKeeps DEF n

-----------------------------------------------------------------------------
(* The steps of throttle().                                                *)

(* What a step leaves alone of a request but for its place and throttle(). *)
SameRec(n, q) ==
  /\ n.path = q.path /\ n.client = q.client /\ n.chain = q.chain /\ n.status = q.status
  /\ n.passed = q.passed /\ n.counted = q.counted

(* It reads the clock. *)
LEMMA BeginsFacts ==
  ASSUME BaseInv, NEW r \in Requests, ThrottleBegins(r)
  PROVE  /\ BaseInv' /\ UNCHANGED <<time, items_>>
         /\ req[r].pc = "in" /\ req[r].chain[req[r].at] = "throttle" /\ req[r].at \in 1..Len(req[r].chain)
         /\ req'[r].pc = "get" /\ req'[r].now = time
         /\ \A o \in Requests : /\ SameRec(req'[o], req[o]) /\ req'[o].at = req[o].at
                                /\ req'[o].count = req[o].count /\ req'[o].start = req[o].start
         /\ \A o \in Requests \ {r} :
              /\ req'[o].pc = req[o].pc /\ req'[o].now = req[o].now
              /\ req'[o].alone => req[o].alone /\ ~(Counting(o) /\ Key(o) = Key(r))
         /\ req'[r].alone => \A o \in Requests \ {r} : ~(Counting(o) /\ Key(o) = Key(r))
<1> DEFINE rivals == {o \in Requests \ {r} : Counting(o) /\ Key(o) = Key(r)}
           q == req[r] n == [q EXCEPT !.pc = "get", !.now = time, !.alone = rivals = {}]
           m(o) == [req[o] EXCEPT !.alone = req[o].alone /\ o \notin rivals]
<1>1. /\ q.pc = "in" /\ q.chain[q.at] = "throttle" /\ UNCHANGED <<time, items_>>
      /\ req' = [o \in Requests |-> IF o = r THEN n ELSE m(o)]
  BY DEF ThrottleBegins, Entering, Layer
<1>2. DOMAIN req' = Requests /\ req'[r] = n /\ \A o \in Requests \ {r} : req'[o] = m(o)
  <2> HIDE DEF n, m
  <2> QED
    BY <1>1
<1> HIDE DEF rivals
<1>3. /\ n.pc = "get" /\ n.status = q.status /\ n.route = q.route /\ n.chain = q.chain
      /\ n.at = q.at /\ n.entered = q.entered /\ n.left = q.left /\ DOMAIN n = Fields
      /\ n.path = q.path /\ n.client = q.client /\ n.now = time /\ n.count = q.count
      /\ n.start = q.start /\ n.passed = q.passed /\ n.counted = q.counted
      /\ n.alone = (rivals = {})
  BY RecTypes DEF Fields
<1>4. ASSUME NEW o \in Requests \ {r}
      PROVE  /\ m(o).pc = req[o].pc /\ m(o).status = req[o].status /\ m(o).route = req[o].route
             /\ m(o).chain = req[o].chain /\ m(o).at = req[o].at /\ m(o).entered = req[o].entered
             /\ m(o).left = req[o].left /\ DOMAIN m(o) = Fields
             /\ m(o).path = req[o].path /\ m(o).client = req[o].client /\ m(o).now = req[o].now
             /\ m(o).count = req[o].count /\ m(o).start = req[o].start
             /\ m(o).passed = req[o].passed /\ m(o).counted = req[o].counted
             /\ m(o).alone = (req[o].alone /\ o \notin rivals)
  BY RecTypes DEF Fields
<1> HIDE DEF n, m
<1>5. TypeRec(n, time) /\ WayRec(n)
  <2>1. /\ n.pc \in {"new", "in", "get", "put", "out", "done"} /\ time \in 0..time
        /\ n.alone \in BOOLEAN
    BY <1>3, RecTypes
  <2>2. TypeRec(n, time)
    BY <1>3, <2>1, RecTypes, ZenonT(60) DEF TypeRec
  <2>3. Way("get", q.route, q.status, q.chain, q.at, q.entered, q.left)
    <3>1. Way("in", q.route, q.status, q.chain, q.at, q.entered, q.left)
      BY <1>1, RecTypes
    <3> QED
      BY <1>1, <3>1 DEF Way
  <2> QED
    BY <1>3, <2>2, <2>3 DEF WayRec
<1>6. ASSUME NEW o \in Requests \ {r}
      PROVE  TypeRec(m(o), time) /\ WayRec(m(o))
  <2>1. m(o).alone \in BOOLEAN
    BY <1>4
  <2>2. TypeRec(m(o), time)
    BY <1>4, <2>1, RecTypes, ZenonT(60) DEF TypeRec
  <2> QED
    BY <1>4, <2>2, RecTypes, SameWayRec
<1>7. BaseInv'
  <2>1. \A o \in Requests : TypeRec(req'[o], time) /\ WayRec(req'[o])
    BY <1>2, <1>5, <1>6
  <2> QED
    BY <1>1, <1>2, <2>1 DEF BaseInv, TypeInv, WayInv
<1>8. q.at \in 1..Len(q.chain)
  BY <1>1, RecTypes DEF Way
<1>9. \A o \in Requests : /\ SameRec(req'[o], req[o]) /\ req'[o].at = req[o].at
                          /\ req'[o].count = req[o].count /\ req'[o].start = req[o].start
  BY <1>2, <1>3, <1>4 DEF SameRec
<1>10. \A o \in Requests \ {r} :
         /\ req'[o].pc = req[o].pc /\ req'[o].now = req[o].now
         /\ req'[o].alone => req[o].alone /\ ~(Counting(o) /\ Key(o) = Key(r))
  <2>1. ASSUME NEW o \in Requests \ {r}
        PROVE  /\ req'[o].pc = req[o].pc /\ req'[o].now = req[o].now
               /\ req'[o].alone = (req[o].alone /\ o \notin rivals)
    BY <1>2, <1>4
  <2>2. ASSUME NEW o \in Requests \ {r}
        PROVE  o \notin rivals => ~(Counting(o) /\ Key(o) = Key(r))
    BY DEF rivals
  <2>3. ASSUME NEW o \in Requests \ {r}
        PROVE  req'[o].alone => req[o].alone /\ o \notin rivals
    BY <2>1, Zenon
  <2> QED
    BY <2>1, <2>2, <2>3, Zenon
<1>11. req'[r].alone => \A o \in Requests \ {r} : ~(Counting(o) /\ Key(o) = Key(r))
  BY <1>2, <1>3, Zenon DEF rivals
<1> QED
  BY <1>1, <1>2, <1>3, <1>7, <1>8, <1>9, <1>10, <1>11

(* The entries under other keys. *)
OtherEntries(r) ==
  \A k : k # Key(r) =>
    (k \in DOMAIN items_ <=> k \in DOMAIN items_') /\ (k \in DOMAIN items_ => items_'[k] = items_[k])

(* It gets the entry. *)
LEMMA GetsFacts ==
  ASSUME BaseInv, NEW r \in Requests, ThrottleGets(r)
  PROVE  /\ BaseInv' /\ UNCHANGED time /\ Moves(r) /\ OtherEntries(r)
         /\ req[r].pc = "get" /\ req'[r].pc = "put" /\ SameRec(req'[r], req[r])
         /\ req'[r].now = req[r].now /\ req'[r].alone = req[r].alone
         /\ \/ /\ Key(r) \in DOMAIN items_ /\ Key(r) \in DOMAIN items_' /\ items_'[Key(r)] = items_[Key(r)]
               /\ req[r].now >= items_[Key(r)].start + Window
               /\ req'[r].count = 1 /\ req'[r].start = req[r].now
            \/ /\ Key(r) \in DOMAIN items_ /\ Key(r) \in DOMAIN items_' /\ items_'[Key(r)] = items_[Key(r)]
               /\ req[r].now < items_[Key(r)].start + Window
               /\ req'[r].count = items_[Key(r)].count + 1 /\ req'[r].start = items_[Key(r)].start
            \/ /\ Key(r) \in DOMAIN items_ => time >= items_[Key(r)].expires
               /\ Key(r) \notin DOMAIN items_'
               /\ req'[r].count = 1 /\ req'[r].start = req[r].now
<1> DEFINE q == req[r] key == Key(r)
           found == key \in DOMAIN items_ /\ ~Expired(key)
           new == IF found THEN Counted(r, items_[key]) ELSE [count |-> 1, start |-> req[r].now]
           n == [q EXCEPT !.pc = "put", !.count = new.count, !.start = new.start]
<1>1. /\ q.pc = "get" /\ UNCHANGED time
      /\ items_' = IF found THEN items_ ELSE [k \in DOMAIN items_ \ {key} |-> items_[k]]
  BY DEF ThrottleGets
<1>2. req' = [req EXCEPT ![r] = n]
  <2> HIDE DEF found
  <2> QED
    BY DEF ThrottleGets, found
<1>3. Moves(r) /\ req'[r] = n
  <2> HIDE DEF n
  <2> QED
    BY <1>2, MovesOne DEF BaseInv
<1>4. /\ q.now \in 0..time /\ time \in Nat /\ Window \in Nat
      /\ key \in DOMAIN items_ => items_[key].count \in Nat /\ items_[key].start \in 0..time
                                  /\ items_[key].expires \in Nat
  BY RecTypes, KernelAssumption DEF BaseInv, TypeInv, TypeRec
<1>5. \/ found /\ q.now >= items_[key].start + Window /\ new.count = 1 /\ new.start = q.now
      \/ /\ found /\ q.now < items_[key].start + Window
         /\ new.count = items_[key].count + 1 /\ new.start = items_[key].start
      \/ ~found /\ new.count = 1 /\ new.start = q.now
  BY <1>4 DEF Counted
<1>6. OtherEntries(r) /\ (found => items_' = items_) /\ (~found => key \notin DOMAIN items_')
  BY <1>1 DEF OtherEntries
<1>7. ~found => (key \in DOMAIN items_ => time >= items_[key].expires)
  BY <1>4 DEF Expired
<1>8. found => key \in DOMAIN items_
  OBVIOUS
<1>9. new.count \in Nat /\ new.start \in 0..time
  <2> HIDE DEF new, found
  <2> QED
    BY <1>4, <1>5, <1>8
<1> HIDE DEF found, new, key
<1>10. /\ n.pc = "put" /\ n.status = q.status /\ n.route = q.route /\ n.chain = q.chain
       /\ n.at = q.at /\ n.entered = q.entered /\ n.left = q.left /\ DOMAIN n = Fields
       /\ n.path = q.path /\ n.client = q.client /\ n.now = q.now /\ n.count = new.count
       /\ n.start = new.start /\ n.passed = q.passed /\ n.counted = q.counted
       /\ n.alone = q.alone
  BY RecTypes DEF Fields
<1> HIDE DEF n
<1>11. TypeRec(n, time)
  <2>1. n.pc \in {"new", "in", "get", "put", "out", "done"}
    BY <1>10
  <2> QED
    BY <1>9, <1>10, <2>1, RecTypes, ZenonT(60) DEF TypeRec
<1>12. WayRec(n)
  <2>1. Way("get", q.route, q.status, q.chain, q.at, q.entered, q.left)
    BY <1>1, RecTypes
  <2>2. Way("put", q.route, q.status, q.chain, q.at, q.entered, q.left)
    BY <2>1 DEF Way
  <2> QED
    BY <1>10, <2>2 DEF WayRec
<1>13. WayInv'
  BY <1>3, <1>12 DEF BaseInv, WayInv, Moves
<1>14. TypeInv'
  <2>1. \A o \in Requests : TypeRec(req'[o], time)
    BY <1>3, <1>11 DEF BaseInv, TypeInv, Moves
  <2>2. \A k \in DOMAIN items_' : k \in DOMAIN items_ /\ items_'[k] = items_[k]
    BY <1>1
  <2> QED
    BY <1>1, <1>3, <2>1, <2>2 DEF BaseInv, TypeInv, Moves
<1>15. SameRec(n, q)
  BY <1>10 DEF SameRec
<1>16. \/ /\ key \in DOMAIN items_ /\ key \in DOMAIN items_' /\ items_'[key] = items_[key]
          /\ q.now >= items_[key].start + Window
          /\ n.count = 1 /\ n.start = q.now
       \/ /\ key \in DOMAIN items_ /\ key \in DOMAIN items_' /\ items_'[key] = items_[key]
          /\ q.now < items_[key].start + Window
          /\ n.count = items_[key].count + 1 /\ n.start = items_[key].start
       \/ /\ key \in DOMAIN items_ => time >= items_[key].expires
          /\ key \notin DOMAIN items_'
          /\ n.count = 1 /\ n.start = q.now
  BY <1>5, <1>6, <1>7, <1>8, <1>10
<1> QED
  BY <1>1, <1>3, <1>6, <1>10, <1>13, <1>14, <1>15, <1>16 DEF BaseInv, key

(* It puts the entry back, and decides. *)
LEMMA PutsFacts ==
  ASSUME BaseInv, NEW r \in Requests, ThrottlePuts(r)
  PROVE  /\ BaseInv' /\ UNCHANGED time /\ Moves(r) /\ OtherEntries(r)
         /\ req[r].pc = "put" /\ req[r].chain[req[r].at] = "throttle"
         /\ req[r].at \in 1..Len(req[r].chain)
         /\ req'[r].path = req[r].path /\ req'[r].client = req[r].client
         /\ req'[r].count = req[r].count /\ req'[r].start = req[r].start
         /\ req'[r].now = req[r].now /\ req'[r].alone = req[r].alone
         /\ req'[r].chain = req[r].chain /\ req'[r].counted = time
         /\ Key(r) \in DOMAIN items_' /\ items_'[Key(r)].count = req[r].count
         /\ items_'[Key(r)].start = req[r].start /\ items_'[Key(r)].expires = time + 2 * Window
         /\ IF req[r].count > Budget
            THEN req'[r].pc = "out" /\ req'[r].status = 429 /\ ~req'[r].passed
            ELSE /\ req'[r].pc = "in" /\ req'[r].at = req[r].at + 1 /\ req'[r].status = 0
                 /\ req'[r].passed
<1> DEFINE q == req[r] key == Key(r) over == q.count > Budget
           entry == [count |-> q.count, start |-> q.start, expires |-> time + 2 * Window]
           f == [q EXCEPT !.passed = ~over, !.counted = time]
           x == Append(q.entered, q.chain[q.at]) y == Append(q.left, q.chain[q.at])
           n == IF over THEN [f EXCEPT !.pc = "out", !.status = 429, !.at = f.at - 1,
                                       !.entered = Append(f.entered, q.chain[q.at]),
                                       !.left = Append(f.left, q.chain[q.at])]
                ELSE [f EXCEPT !.pc = "in", !.at = f.at + 1,
                               !.entered = Append(f.entered, q.chain[q.at])]
<1>1. /\ q.pc = "put" /\ UNCHANGED time
      /\ items_' = [k \in DOMAIN items_ \union {key} |-> IF k = key THEN entry ELSE items_[k]]
  BY DEF ThrottlePuts
<1>2. req' = [req EXCEPT ![r] = n]
  <2>1. CASE over
    BY <2>1 DEF ThrottlePuts, OverBudget, Answers, Layer
  <2>2. CASE ~over
    BY <2>2 DEF ThrottlePuts, OverBudget, Deeper, Layer
  <2> QED
    BY <2>1, <2>2
<1>3. Moves(r) /\ req'[r] = n
  <2> HIDE DEF n
  <2> QED
    BY <1>2, MovesOne DEF BaseInv
<1>4. /\ q.start \in 0..time /\ time \in Nat /\ Window \in Nat /\ Budget \in Nat
      /\ q.count \in Nat
  BY RecTypes, KernelAssumption DEF BaseInv, TypeInv, TypeRec
<1>5. q.at \in 1..Len(q.chain) /\ q.chain[q.at] = "throttle" /\ q.status = 0
  BY <1>1, RecTypes DEF Way
<1>6. /\ OtherEntries(r) /\ key \in DOMAIN items_' /\ items_'[key] = entry
      /\ \A k \in DOMAIN items_' : k # key => k \in DOMAIN items_ /\ items_'[k] = items_[k]
  <2> HIDE DEF entry
  <2> QED
    BY <1>1 DEF OtherEntries
<1>7. /\ items_'[key].count = q.count /\ items_'[key].start = q.start
      /\ items_'[key].expires = time + 2 * Window
  BY <1>6
<1>8. /\ f.pc = q.pc /\ f.status = q.status /\ f.route = q.route /\ f.chain = q.chain
      /\ f.at = q.at /\ f.entered = q.entered /\ f.left = q.left /\ DOMAIN f = Fields
      /\ f.path = q.path /\ f.client = q.client /\ f.now = q.now /\ f.count = q.count
      /\ f.start = q.start /\ f.passed = ~over /\ f.counted = time /\ f.alone = q.alone
  <2> HIDE DEF over
  <2> QED
    BY RecTypes DEF Fields
<1> HIDE DEF f
<1>9. /\ n.route = q.route /\ n.chain = q.chain /\ n.entered = x /\ DOMAIN n = Fields
      /\ n.path = q.path /\ n.client = q.client /\ n.now = q.now /\ n.count = q.count
      /\ n.start = q.start /\ n.passed = ~over /\ n.counted = time /\ n.alone = q.alone
      /\ over => n.pc = "out" /\ n.status = 429 /\ n.at = q.at - 1 /\ n.left = y
      /\ ~over => n.pc = "in" /\ n.status = q.status /\ n.at = q.at + 1 /\ n.left = q.left
  <2> HIDE DEF over
  <2>1. CASE over
    BY <1>8, <2>1, SMTT(60) DEF Fields
  <2>2. CASE ~over
    BY <1>8, <2>2, SMTT(60) DEF Fields
  <2> QED
    BY <2>1, <2>2
<1>10. /\ q.at - 1 \in Nat /\ x \in Seq(Name) /\ y \in Seq(Name)
       /\ Way("out", q.route, 429, q.chain, q.at - 1, x, y)
  <2>1. q.pc \in {"in", "put"}
    BY <1>1
  <2> HIDE DEF q, x, y
  <2> QED
    BY <2>1, RecTypes, AnswersWay DEF q, x, y
<1>11. Way("in", q.route, q.status, q.chain, q.at + 1, x, q.left)
  <2>1. q.pc \in {"in", "put"} /\ q.chain[q.at] # "handler"
    BY <1>1, <1>5
  <2> HIDE DEF q, x
  <2> QED
    BY <2>1, RecTypes, DeeperWay DEF q, x
<1> HIDE DEF n, x, y
<1>12. WayRec(n)
  <2>1. CASE over
    BY <1>9, <1>10, <2>1, Zenon DEF WayRec
  <2>2. CASE ~over
    BY <1>9, <1>11, <2>2, Zenon DEF WayRec
  <2> QED
    BY <2>1, <2>2
<1>13. TypeRec(n, time)
  <2>1. /\ n.pc \in {"new", "in", "get", "put", "out", "done"} /\ n.status \in Status
        /\ n.at \in Nat /\ n.left \in Seq(Name) /\ n.entered \in Seq(Name) /\ time \in 0..time
    <3>1. q.left \in Seq(Name) /\ q.at \in Nat /\ q.at + 1 \in Nat /\ time \in 0..time
      BY <1>4, RecTypes
    <3>2. CASE over
      BY <1>9, <1>10, <3>1, <3>2 DEF Status
    <3>3. CASE ~over
      BY <1>5, <1>9, <1>10, <3>1, <3>3 DEF Status
    <3> QED
      BY <3>2, <3>3
  <2>2. n.passed \in BOOLEAN
    BY <1>9
  <2> QED
    BY <1>9, <2>1, <2>2, RecTypes, ZenonT(60) DEF TypeRec
<1>14. WayInv'
  BY <1>3, <1>12 DEF BaseInv, WayInv, Moves
<1>15. TypeInv'
  <2>1. \A o \in Requests : TypeRec(req'[o], time)
    BY <1>3, <1>13 DEF BaseInv, TypeInv, Moves
  <2>2. time + 2 * Window \in Nat
    BY <1>4
  <2>3. \A k \in DOMAIN items_' :
          items_'[k].count \in Nat /\ items_'[k].start \in 0..time /\ items_'[k].expires \in Nat
    BY <1>4, <1>6, <1>7, <2>2 DEF BaseInv, TypeInv
  <2> QED
    BY <1>1, <1>3, <2>1, <2>3 DEF BaseInv, TypeInv, Moves
<1>16. IF over THEN n.pc = "out" /\ n.status = 429 /\ ~n.passed
       ELSE n.pc = "in" /\ n.at = q.at + 1 /\ n.status = 0 /\ n.passed
  <2>1. CASE over
    BY <1>9, <2>1, Zenon
  <2>2. CASE ~over
    BY <1>5, <1>9, <2>2, Zenon
  <2> QED
    BY <2>1, <2>2
<1> QED
  BY <1>1, <1>3, <1>5, <1>6, <1>7, <1>9, <1>14, <1>15, <1>16 DEF BaseInv

-----------------------------------------------------------------------------
(* Type correctness and the order of the layers.                           *)

(* Every step is the clock's, one outside throttle(), or one of its three. *)
LEMMA StepCases ==
  ASSUME BaseInv, [Next]_vars
  PROVE  \/ /\ BaseInv' /\ UNCHANGED <<items_, req>> /\ time' \in {time, time + 1}
         \/ \E r \in Requests : /\ Moves(r) /\ QuietRec(req'[r], req[r]) /\ BaseInv'
                                /\ UNCHANGED <<time, items_>>
         \/ \E r \in Requests : ThrottleBegins(r) \/ ThrottleGets(r) \/ ThrottlePuts(r)
<1>1. CASE UNCHANGED vars
  <2>1. BaseInv' /\ UNCHANGED <<items_, req>> /\ time' = time
    BY <1>1 DEF vars, BaseInv, TypeInv, WayInv
  <2> QED
    BY <2>1
<1>2. CASE Tick
  <2>1. time \in Nat /\ time' = time + 1 /\ time' \in 0..MaxTime /\ UNCHANGED <<items_, req>>
    BY <1>2, RecTypes, KernelAssumption DEF Tick, BaseInv, TypeInv
  <2>2. \A i : i \in 0..time => i \in 0..time'
    BY <2>1
  <2>3. ASSUME NEW r \in Requests
        PROVE  TypeRec(req[r], time')
    BY <2>2, Zenon DEF BaseInv, TypeInv, TypeRec
  <2>4. TypeInv'
    BY <2>1, <2>2, <2>3 DEF BaseInv, TypeInv
  <2>5. WayInv'
    BY <2>1 DEF BaseInv, WayInv
  <2> QED
    BY <2>1, <2>4, <2>5 DEF BaseInv
<1>3. ASSUME NEW r \in Requests, Step(r)
      PROVE  \/ /\ Moves(r) /\ QuietRec(req'[r], req[r]) /\ BaseInv' /\ UNCHANGED <<time, items_>>
             \/ ThrottleBegins(r) \/ ThrottleGets(r) \/ ThrottlePuts(r)
  BY <1>3, QuietUnmatched, QuietMatched, QuietCallNext, QuietAnswers, QuietReturn, QuietThrows DEF Step
<1> QED
  BY <1>1, <1>2, <1>3 DEF Next

(* Nothing has been done yet. *)
LEMMA InitBase ==
  ASSUME Init
  PROVE  /\ BaseInv /\ items_ = <<>>
         /\ \A r \in Requests : /\ req[r].count = 0 /\ ~req[r].passed
                                /\ req[r].status = 0 /\ req[r].pc = "new"
<1>1. time = 0 /\ items_ = <<>> /\ DOMAIN req = Requests
  BY DEF Init
<1>2. ASSUME NEW r \in Requests
      PROVE  /\ DOMAIN req[r] = Fields /\ req[r].pc = "new" /\ req[r].chain = <<>> /\ req[r].at = 0
             /\ req[r].status = 0 /\ req[r].route = 0 /\ req[r].now = 0 /\ req[r].count = 0
             /\ req[r].start = 0 /\ req[r].entered = <<>> /\ req[r].left = <<>>
             /\ req[r].passed = FALSE /\ req[r].counted = 0 /\ req[r].alone = TRUE
  <2>1. PICK q \in Inputs : req[r] = NewRequest(q)
    BY DEF Init
  <2> QED
    BY <2>1 DEF NewRequest, Fields
<1>3. /\ <<>> \in Seq(Name) /\ 0 \in 0..0 /\ 0 \in Nat /\ 0 \in 0..Len(Routes)
      /\ 0 \in Status /\ 0 \in 0..MaxTime
  BY RouterAssumption, KernelAssumption DEF Status
<1>4. ASSUME NEW r \in Requests
      PROVE  TypeRec(req[r], time)
  BY <1>1, <1>2, <1>3, Zenon DEF TypeRec
<1>5. ASSUME NEW r \in Requests
      PROVE  WayRec(req[r])
  <2>1. Way("new", 0, 0, <<>>, 0, <<>>, <<>>)
    BY DEF Way
  <2> QED
    BY <1>2, <2>1 DEF WayRec
<1>6. TypeInv
  BY <1>1, <1>3, <1>4 DEF TypeInv
<1> QED
  BY <1>1, <1>2, <1>5, <1>6 DEF BaseInv, WayInv

(* The invariant is kept by every step. *)
LEMMA StepBase ==
  ASSUME BaseInv, [Next]_vars
  PROVE  BaseInv'
BY StepCases, BeginsFacts, GetsFacts, PutsFacts

(* Every state of the kernel satisfies it. *)
LEMMA SpecBase == Spec => []BaseInv
<1>1. Init => BaseInv
  BY InitBase
<1>2. BaseInv /\ [Next]_vars => BaseInv'
  BY StepBase
<1> QED
  BY <1>1, <1>2, PTL DEF Spec

(* Type correctness: a request is at a place of its chain, or next to it,  *)
(* and its chain is made of registered middleware and the handler.         *)
THEOREM KernelTypeCorrect == Spec => []TypeOK
<1>1. BaseInv => TypeOK
  <2> SUFFICES ASSUME BaseInv PROVE TypeOK
    OBVIOUS
  <2>1. ASSUME NEW r \in Requests
        PROVE  /\ req[r].pc \in {"new", "in", "get", "put", "out", "done"}
               /\ req[r].at \in 0..(Len(req[r].chain) + 1) /\ req[r].status \in Status
               /\ ToSet(req[r].chain) \subseteq Layers \union {"handler"}
    <3> DEFINE q == req[r]
    <3>1. q.pc \in {"new", "in", "get", "put", "out", "done"} /\ q.status \in Status
      BY RecTypes DEF TypeRec
    <3>2. Way(q.pc, q.route, q.status, q.chain, q.at, q.entered, q.left)
      BY RecTypes
    <3>3. ToSet(q.chain) \subseteq Name
      BY RecTypes DEF ToSet
    <3>4. q.at \in 0..(Len(q.chain) + 1)
      BY <3>1, <3>2, RecTypes DEF Way
    <3> QED
      BY <3>1, <3>3, <3>4 DEF Name
  <2>2. \A k \in DOMAIN items_ : items_[k].count \in Nat /\ items_[k].start \in 0..MaxTime
    BY KernelAssumption DEF BaseInv, TypeInv
  <2> QED
    BY <2>1, <2>2 DEF TypeOK, BaseInv, TypeInv
<1> QED
  BY <1>1, SpecBase, PTL

(* "the first registered middleware is the outermost layer": whatever the  *)
(* middleware do, the layers are entered in the order they were registered *)
(* and left in the reverse one, and all of them are left unless one threw. *)
THEOREM LayersInOrder == Spec => []OutermostFirst
<1>1. BaseInv => OutermostFirst
  <2> SUFFICES ASSUME BaseInv, NEW r \in Requests, req[r].route # 0
               PROVE  /\ IsPrefix(req[r].entered, Global \o Routes[req[r].route].middleware \o <<"handler">>)
                      /\ IsPrefix(req[r].left, Reverse(req[r].entered))
                      /\ req[r].pc = "done" /\ req[r].status # 500 => req[r].left = Reverse(req[r].entered)
    BY DEF OutermostFirst
  <2> DEFINE q == req[r] c == q.chain e == q.entered l == q.left
  <2>1. c \in Seq(Name) /\ e \in Seq(Name) /\ l \in Seq(Name)
    BY RecTypes
  <2>2. Way(q.pc, q.route, q.status, c, q.at, e, l)
    BY RecTypes
  <2>3. c = Global \o Routes[q.route].middleware \o <<"handler">>
    BY <2>2 DEF Way, Stack
  <2>4. /\ Len(l) <= Len(e) /\ Len(e) <= Len(c) /\ \A i \in 1..Len(e) : e[i] = c[i]
        /\ \A i \in 1..Len(l) : l[i] = e[Len(e) + 1 - i]
        /\ q.pc = "done" /\ q.status # 500 => Len(l) = Len(e)
    BY <2>2 DEF Way
  <2> HIDE DEF c, e, l
  <2>5. ASSUME NEW s \in Seq(Name), NEW t \in Seq(Name), Len(s) <= Len(t), \A i \in 1..Len(s) : s[i] = t[i]
        PROVE  IsPrefix(s, t)
    <3>1. /\ SubSeq(s, 1, Len(s)) \in Seq(Name) /\ SubSeq(t, 1, Len(s)) \in Seq(Name)
          /\ Len(SubSeq(s, 1, Len(s))) = Len(s) /\ Len(SubSeq(t, 1, Len(s))) = Len(s)
          /\ \A i \in 1..Len(s) : SubSeq(s, 1, Len(s))[i] = SubSeq(t, 1, Len(s))[i]
      BY <2>5
    <3>2. SubSeq(s, 1, Len(s)) = SubSeq(t, 1, Len(s))
      BY <3>1, SeqEqual
    <3> QED
      BY <2>5, <3>2 DEF IsPrefix
  <2>6. /\ Reverse(e) \in Seq(Name) /\ Len(Reverse(e)) = Len(e)
        /\ \A i \in 1..Len(e) : Reverse(e)[i] = e[Len(e) + 1 - i]
    <3>1. Len(e) \in Nat /\ \A i \in 1..Len(e) : Len(e) - i + 1 = Len(e) + 1 - i /\ e[Len(e) + 1 - i] \in Name
      BY <2>1
    <3> QED
      BY <2>1, <3>1 DEF Reverse
  <2>7. IsPrefix(e, c)
    BY <2>1, <2>4, <2>5
  <2>8. \A i \in 1..Len(l) : l[i] = Reverse(e)[i]
    BY <2>1, <2>4, <2>6
  <2>9. IsPrefix(l, Reverse(e))
    BY <2>1, <2>4, <2>5, <2>6, <2>8
  <2>10. q.pc = "done" /\ q.status # 500 => l = Reverse(e)
    <3> HIDE DEF q
    <3> QED
      BY <2>1, <2>4, <2>6, <2>8, SeqEqual
  <2> QED
    BY <2>3, <2>7, <2>9, <2>10 DEF c, e, l
<1> QED
  BY <1>1, SpecBase, PTL

-----------------------------------------------------------------------------
(* throttle() counts a request once.                                       *)

(* Nothing of a request that throttle() looks at changes. *)
LEMMA QuietOnce ==
  ASSUME NEW n, NEW q, NEW t, QuietRec(n, q), TypeRec(n, t), TypeRec(q, t), OnceRec(q)
  PROVE  OnceRec(n)
<1>1. /\ n.pc \in {"in", "out", "done"} /\ q.pc # "put"
      /\ n.count = q.count /\ n.start = q.start /\ n.passed = q.passed /\ n.counted = q.counted
      /\ n.pc = "in" => q.pc = "new" \/ (q.pc = "in" /\ n.chain = q.chain /\ n.at = q.at + 1)
      /\ n.status = 429 => q.status = 429 /\ n.pc \in {"out", "done"}
  <2>1. q.pc # "put" /\ n.pc \notin {"get", "put", "new"}
    BY DEF QuietRec
  <2>2. n.pc \in {"new", "in", "get", "put", "out", "done"}
    BY DEF TypeRec
  <2>3. n.pc \in {"in", "out", "done"}
    BY <2>1, <2>2
  <2> QED
    BY <2>1, <2>3, Zenon DEF QuietRec
<1>2. Once(q.pc, q.status, q.chain, q.at, q.count, q.start, q.passed, q.counted)
  BY DEF OnceRec
<1>3. ASSUME n.pc = "in", n.count > 0, NEW j \in n.at..Len(n.chain)
      PROVE  n.chain[j] # "throttle"
  <2>1. q.pc = "in" /\ n.chain = q.chain /\ n.at = q.at + 1
    BY <1>1, <1>2, <1>3 DEF Once, TypeRec
  <2>2. q.at \in Nat /\ Len(q.chain) \in Nat
    BY DEF TypeRec
  <2>3. j \in q.at..Len(q.chain)
    BY <2>1, <2>2
  <2> QED
    BY <1>1, <1>2, <1>3, <2>1, <2>3 DEF Once
<1>4. n.passed => n.count > 0
  BY <1>1, <1>2, Zenon DEF Once
<1>5. n.count > 0 => (n.passed <=> n.count <= Budget) /\ n.start <= n.counted
  BY <1>1, <1>2, Zenon DEF Once
<1>6. n.status = 429 => n.count > Budget /\ n.pc \in {"out", "done"}
  BY <1>1, <1>2, Zenon DEF Once
<1>7. n.pc \notin {"new", "get", "put"}
  BY <1>1
<1> QED
  BY <1>3, <1>4, <1>5, <1>6, <1>7, Zenon DEF OnceRec, Once

(* Who is past its throttle() meets no other. *)
LEMMA NoOther ==
  ASSUME BaseInv, ThrottleOnce, NEW r \in Requests, req[r].pc \in {"in", "put"},
         req[r].chain[req[r].at] = "throttle"
  PROVE  \A j \in (req[r].at + 1)..Len(req[r].chain) : req[r].chain[j] # "throttle"
<1> DEFINE q == req[r] k == q.route c == q.chain at == q.at
<1>1. Way(q.pc, k, q.status, c, at, q.entered, q.left)
  BY RecTypes
<1>2. k \in 1..Len(Routes)
  BY <1>1, RecTypes DEF Way
<1>3. c = Stack(k) \o <<"handler">> /\ at \in 1..Len(c)
  BY <1>1, <1>2 DEF Way
<1> HIDE DEF q, k, c, at
<1>4. /\ Stack(k) \in Seq(Name) /\ Len(c) = Len(Stack(k)) + 1 /\ c[Len(Stack(k)) + 1] = "handler"
      /\ \A i \in 1..Len(Stack(k)) : c[i] = Stack(k)[i]
  BY <1>2, <1>3, ChainFacts
<1>5. Len(Stack(k)) \in Nat /\ c[at] = "throttle"
  BY <1>4 DEF q, c, at
<1>6. at \in 1..Len(Stack(k))
  BY <1>3, <1>4, <1>5
<1>7. ASSUME NEW j \in (at + 1)..Len(c)
      PROVE  c[j] # "throttle"
  <2>1. CASE j = Len(Stack(k)) + 1
    BY <1>4, <2>1
  <2>2. CASE j \in 1..Len(Stack(k))
    BY <1>2, <1>4, <1>5, <1>6, <2>2 DEF ThrottleOnce
  <2> QED
    BY <1>4, <1>5, <1>6, <2>1, <2>2
<1> QED
  BY <1>7 DEF c, at, q

(* The invariant is kept by every step. *)
LEMMA StepOnce ==
  ASSUME BaseInv, OnceInv, ThrottleOnce, [Next]_vars
  PROVE  OnceInv'
<1>0. BaseInv'
  BY StepBase
<1>c. /\ Budget \in Nat /\ time \in Nat
      /\ \A o \in Requests : req[o].count \in Nat /\ req[o].at \in Nat /\ req[o].start \in 0..time
  BY RecTypes, KernelAssumption DEF BaseInv, TypeInv, TypeRec
<1>d. \A o \in Requests : OnceRec(req[o])
  BY DEF OnceInv
<1>e. ASSUME NEW o \in Requests
      PROVE  Once(req[o].pc, req[o].status, req[o].chain, req[o].at, req[o].count, req[o].start,
                  req[o].passed, req[o].counted)
  BY <1>d DEF OnceRec
<1>f. SUFFICES \A o \in Requests : OnceRec(req'[o])
  BY DEF OnceInv, OnceRec
<1>1. CASE UNCHANGED <<items_, req>>
  BY <1>1, <1>d
<1>2. ASSUME NEW r \in Requests, Moves(r), QuietRec(req'[r], req[r]), UNCHANGED <<time, items_>>
      PROVE  \A o \in Requests : OnceRec(req'[o])
  <2>1. TypeRec(req[r], time) /\ TypeRec(req'[r], time)
    BY <1>0, <1>2 DEF BaseInv, TypeInv
  <2>2. OnceRec(req'[r])
    BY <1>2, <1>d, <2>1, QuietOnce
  <2> QED
    BY <1>2, <1>d, <2>2 DEF Moves
<1>3. ASSUME NEW r \in Requests, ThrottleBegins(r)
      PROVE  \A o \in Requests : OnceRec(req'[o])
  <2>1. ASSUME NEW o \in Requests \ {r}
        PROVE  OnceRec(req'[o])
    <3>1. /\ req'[o].pc = req[o].pc /\ SameRec(req'[o], req[o]) /\ req'[o].at = req[o].at
          /\ req'[o].count = req[o].count /\ req'[o].start = req[o].start
      BY <1>3, BeginsFacts
    <3> QED
      BY <1>d, <3>1, Zenon DEF SameRec, OnceRec
  <2>2. OnceRec(req'[r])
    <3>1. /\ req[r].pc = "in" /\ req[r].chain[req[r].at] = "throttle" /\ req[r].at \in 1..Len(req[r].chain)
          /\ req'[r].pc = "get" /\ SameRec(req'[r], req[r]) /\ req'[r].at = req[r].at
          /\ req'[r].count = req[r].count /\ req'[r].start = req[r].start
      BY <1>3, BeginsFacts
    <3>2. req[r].at \in req[r].at..Len(req[r].chain)
      BY <3>1
    <3>3. ~(req[r].count > 0)
      BY <1>e, <3>1, <3>2 DEF Once
    <3>4. req[r].count = 0 /\ ~req[r].passed /\ req[r].status # 429
      <4>1. req[r].count = 0
        BY <1>c, <3>3
      <4>2. ~req[r].passed
        BY <1>e, <3>3, Zenon DEF Once
      <4>3. req[r].status # 429
        BY <1>e, <3>1 DEF Once
      <4> QED
        BY <4>1, <4>2, <4>3
    <3>5. /\ req'[r].count = 0 /\ ~req'[r].passed /\ req'[r].status # 429
      BY <3>1, <3>4 DEF SameRec
    <3>6. ~(req'[r].count > 0)
      BY <3>5
    <3> HIDE DEF Moves
    <3>7. req'[r].pc # "put" /\ req'[r].pc # "in" /\ req'[r].pc = "get"
      BY <3>1
    <3> QED
      BY <3>5, <3>6, <3>7, Zenon DEF OnceRec, Once
  <2> QED
    BY <2>1, <2>2
<1>4. ASSUME NEW r \in Requests, ThrottleGets(r)
      PROVE  \A o \in Requests : OnceRec(req'[o])
  <2>1. OnceRec(req'[r])
    <3>1. /\ req[r].pc = "get" /\ req'[r].pc = "put" /\ SameRec(req'[r], req[r])
          /\ req'[r].count = 1 \/ (Key(r) \in DOMAIN items_ /\ req'[r].count = items_[Key(r)].count + 1)
      BY <1>4, GetsFacts
    <3>2. req'[r].count > 0
      BY <3>1 DEF BaseInv, TypeInv
    <3>3. ~req[r].passed /\ req[r].status # 429
      <4>1. ~(req[r].count > 0)
        BY <1>e, <1>c, <3>1 DEF Once
      <4>2. ~req[r].passed
        BY <1>e, <4>1, Zenon DEF Once
      <4>3. req[r].status # 429
        BY <1>e, <3>1 DEF Once
      <4> QED
        BY <4>2, <4>3
    <3>4. ~req'[r].passed /\ req'[r].status # 429
      BY <3>1, <3>3 DEF SameRec
    <3>5. req'[r].pc = "put" /\ req'[r].pc \notin {"new", "get", "in"}
      BY <3>1
    <3> QED
      BY <3>2, <3>4, <3>5, Zenon DEF OnceRec, Once
  <2> QED
    BY <1>4, <1>d, <2>1, GetsFacts DEF Moves
<1>5. ASSUME NEW r \in Requests, ThrottlePuts(r)
      PROVE  \A o \in Requests : OnceRec(req'[o])
  <2>1. OnceRec(req'[r])
    <3>1. /\ req[r].pc = "put" /\ req[r].chain[req[r].at] = "throttle"
          /\ req'[r].count = req[r].count /\ req'[r].start = req[r].start
          /\ req'[r].chain = req[r].chain /\ req'[r].counted = time
          /\ IF req[r].count > Budget
             THEN req'[r].pc = "out" /\ req'[r].status = 429 /\ ~req'[r].passed
             ELSE /\ req'[r].pc = "in" /\ req'[r].at = req[r].at + 1 /\ req'[r].status = 0
                  /\ req'[r].passed
      BY <1>5, PutsFacts
    <3>2. req[r].count > 0
      BY <1>e, <3>1 DEF Once
    <3>3. \A j \in (req[r].at + 1)..Len(req[r].chain) : req[r].chain[j] # "throttle"
      BY <3>1, NoOther
    <3>4. req'[r].start <= req'[r].counted
      BY <1>c, <3>1
    <3>5. CASE req[r].count > Budget
      <4>1. /\ req'[r].pc = "out" /\ ~req'[r].passed /\ req'[r].count > Budget /\ ~(req'[r].count <= Budget)
            /\ req'[r].count > 0
        BY <1>c, <3>1, <3>2, <3>5
      <4>2. req'[r].pc \notin {"new", "get", "put", "in"} /\ req'[r].pc \in {"out", "done"}
        BY <4>1
      <4> QED
        BY <3>4, <4>1, <4>2, Zenon DEF OnceRec, Once
    <3>6. CASE ~(req[r].count > Budget)
      <4>1. /\ req'[r].pc = "in" /\ req'[r].passed /\ req'[r].count <= Budget /\ req'[r].status # 429
            /\ req'[r].count > 0 /\ req'[r].at = req[r].at + 1
        BY <1>c, <3>1, <3>2, <3>6
      <4>2. req'[r].pc \notin {"new", "get", "put"}
        BY <4>1
      <4>3. \A j \in req'[r].at..Len(req'[r].chain) : req'[r].chain[j] # "throttle"
        BY <3>1, <3>3, <4>1
      <4> QED
        BY <3>4, <4>1, <4>2, <4>3, Zenon DEF OnceRec, Once
    <3> QED
      BY <3>5, <3>6
  <2> QED
    BY <1>5, <1>d, <2>1, PutsFacts DEF Moves
<1> QED
  BY <1>1, <1>2, <1>3, <1>4, <1>5, StepCases

-----------------------------------------------------------------------------
(* Whom throttle() refuses.                                                *)

(* All that throttle() knows of a request stays as it was. *)
Kept(o) ==
  /\ req'[o].path = req[o].path /\ req'[o].client = req[o].client
  /\ req'[o].now = req[o].now /\ req'[o].count = req[o].count /\ req'[o].start = req[o].start
  /\ req'[o].passed = req[o].passed /\ req'[o].counted = req[o].counted
  /\ req'[o].pc = "put" <=> req[o].pc = "put"
  /\ req'[o].pc = "get" => req[o].pc = "get"
  /\ req'[o].alone => req[o].alone

(* Every step keeps all but the one that is in throttle(). *)
LEMMA StepKept ==
  ASSUME BaseInv, [Next]_vars
  PROVE  \/ /\ \A o \in Requests : Kept(o)
            /\ items_' = items_ /\ time' \in Nat /\ time <= time'
         \/ \E r \in Requests : /\ ThrottleBegins(r) \/ ThrottleGets(r) \/ ThrottlePuts(r)
                                /\ \A o \in Requests \ {r} : Kept(o)
                                /\ time' = time
<1>0. time \in Nat
  BY RecTypes, KernelAssumption DEF BaseInv, TypeInv
<1>1. ASSUME NEW o \in Requests, req'[o] = req[o]
      PROVE  Kept(o)
  BY <1>1 DEF Kept
<1>2. CASE UNCHANGED <<items_, req>> /\ time' \in {time, time + 1}
  BY <1>0, <1>1, <1>2
<1>3. ASSUME NEW r \in Requests, Moves(r), QuietRec(req'[r], req[r]), UNCHANGED <<time, items_>>
      PROVE  /\ \A o \in Requests : Kept(o)
             /\ items_' = items_ /\ time' \in Nat /\ time <= time'
  <2>1. req'[r].pc \notin {"get", "put"} /\ req[r].pc \notin {"get", "put"}
    BY <1>3 DEF QuietRec
  <2>2. Kept(r)
    BY <1>3, <2>1, Zenon DEF QuietRec, Kept
  <2> QED
    BY <1>0, <1>1, <1>3, <2>2 DEF Moves
<1>4. ASSUME NEW r \in Requests, ThrottleBegins(r)
      PROVE  (\A o \in Requests \ {r} : Kept(o)) /\ time' = time
  BY <1>4, BeginsFacts DEF Kept, SameRec
<1>5. ASSUME NEW r \in Requests, ThrottleGets(r) \/ ThrottlePuts(r)
      PROVE  (\A o \in Requests \ {r} : Kept(o)) /\ time' = time
  BY <1>1, <1>5, GetsFacts, PutsFacts DEF Moves
<1> QED
  BY <1>2, <1>3, <1>4, <1>5, StepCases

(* Keys stay, and who was let through remains so, in the same window. *)
LEMMA StaysThrough ==
  ASSUME BaseInv, OnceInv, [Next]_vars, NEW o \in Requests
  PROVE  /\ KeyOf(req'[o]) = KeyOf(req[o])
         /\ req[o].passed => req'[o].passed /\ req'[o].start = req[o].start
<1>1. CASE Kept(o)
  BY <1>1, Zenon DEF Kept, KeyOf
<1>2. CASE ThrottleBegins(o)
  <2>1. SameRec(req'[o], req[o]) /\ req'[o].start = req[o].start
    BY <1>2, BeginsFacts
  <2> QED
    BY <2>1, Zenon DEF SameRec, KeyOf
<1>3. CASE ThrottleGets(o)
  <2>1. SameRec(req'[o], req[o]) /\ req[o].pc = "get"
    BY <1>3, GetsFacts
  <2>2. req[o].count = 0
    BY <2>1 DEF OnceInv, OnceRec, Once
  <2>3. ~(req[o].count > 0)
    BY <2>2
  <2>4. ~req[o].passed
    BY <2>3, Zenon DEF OnceInv, OnceRec, Once
  <2> QED
    BY <2>1, <2>4, Zenon DEF SameRec, KeyOf
<1>4. CASE ThrottlePuts(o)
  <2>1. req'[o].path = req[o].path /\ req'[o].client = req[o].client /\ req[o].pc = "put"
    BY <1>4, PutsFacts
  <2>2. ~req[o].passed
    BY <2>1, Zenon DEF OnceInv, OnceRec, Once
  <2> QED
    BY <2>1, <2>2, Zenon DEF KeyOf
<1> QED
  BY <1>1, <1>2, <1>3, <1>4, StepKept

(* There are finitely many. *)
LEMMA ThroughFinite ==
  ASSUME NEW reqs, NEW key, NEW s
  PROVE  IsFiniteSet(Through(reqs, key, s)) /\ Cardinality(Through(reqs, key, s)) \in Nat
<1>1. Through(reqs, key, s) \in SUBSET Requests
  BY DEF Through
<1>2. IsFiniteSet(Requests)
  BY KernelAssumption
<1> QED
  BY <1>1, <1>2, FS_Subset, FS_CardinalityType

(* So what is backed stays backed. *)
LEMMA BackedGrows ==
  ASSUME BaseInv, OnceInv, [Next]_vars
  PROVE  \A key, s, n : Backed(req, key, s, n) => Backed(req', key, s, n)
<1> SUFFICES ASSUME NEW key, NEW s, NEW n, Backed(req, key, s, n), NEW m \in 0..Budget, m <= n
             PROVE  Cardinality(Through(req', key, s)) >= m
  BY DEF Backed
<1>1. Through(req, key, s) \subseteq Through(req', key, s)
  BY StaysThrough, Zenon DEF Through
<1>2. Cardinality(Through(req, key, s)) <= Cardinality(Through(req', key, s))
  <2>1. IsFiniteSet(Through(req', key, s))
    BY ThroughFinite
  <2> QED
    BY <1>1, <2>1, FS_Subset
<1>3. Cardinality(Through(req, key, s)) \in Nat /\ Cardinality(Through(req', key, s)) \in Nat
  BY ThroughFinite
<1>4. Cardinality(Through(req, key, s)) >= m
  BY DEF Backed
<1> QED
  BY <1>2, <1>3, <1>4, KernelAssumption

(* One that is let through adds to what backs its entry. *)
LEMMA BackedByOneMore ==
  ASSUME BaseInv, OnceInv, EarnedInv, [Next]_vars, NEW r \in Requests, ThrottlePuts(r)
  PROVE  Backed(req', KeyOf(req[r]), req[r].start, req[r].count)
<1> DEFINE k == KeyOf(req[r]) s == req[r].start n == req[r].count
           T == Through(req, k, s) U == Through(req', k, s)
<1>1. /\ req[r].pc = "put" /\ req'[r].start = s
      /\ IF n > Budget THEN ~req'[r].passed ELSE req'[r].passed
  BY PutsFacts
<1>2. n > 0 /\ ~req[r].passed
  <2>1. n > 0
    BY <1>1 DEF OnceInv, OnceRec, Once
  <2>2. ~req[r].passed
    BY <1>1, Zenon DEF OnceInv, OnceRec, Once
  <2> QED
    BY <2>1, <2>2
<1>3. n \in Nat /\ Budget \in Nat
  BY RecTypes, KernelAssumption DEF TypeRec
<1>4. Backed(req, k, s, n - 1)
  BY <1>2 DEF EarnedInv
<1>5. Backed(req', k, s, n - 1)
  BY <1>4, BackedGrows
<1>6. ASSUME NEW m \in 0..Budget, m <= n
      PROVE  Cardinality(U) >= m
  <2>1. CASE m <= n - 1
    BY <1>5, <2>1 DEF Backed
  <2>2. CASE ~(m <= n - 1)
    <3>1. m = n /\ n - 1 \in 0..Budget /\ n - 1 <= n - 1 /\ ~(n > Budget)
      BY <1>2, <1>3, <1>6, <2>2
    <3>2. Cardinality(T) >= n - 1
      BY <1>4, <3>1 DEF Backed
    <3>3. T \subseteq U
      BY StaysThrough, Zenon DEF Through
    <3>4. r \notin T /\ r \in U
      <4>1. r \notin T
        BY <1>2, Zenon DEF Through
      <4>2. req'[r].passed /\ KeyOf(req'[r]) = k
        BY <1>1, <3>1, StaysThrough
      <4>3. r \in U
        BY <1>1, <4>2, Zenon DEF Through
      <4> QED
        BY <4>1, <4>3
    <3>5. IsFiniteSet(T) /\ IsFiniteSet(U) /\ Cardinality(T) \in Nat /\ Cardinality(U) \in Nat
      BY ThroughFinite
    <3> HIDE DEF T, U
    <3>6. Cardinality(T \union {r}) = Cardinality(T) + 1 /\ T \union {r} \in SUBSET U
      BY <3>3, <3>4, <3>5, FS_AddElement
    <3>7. Cardinality(T \union {r}) <= Cardinality(U)
      BY <3>5, <3>6, FS_Subset
    <3> QED
      BY <1>3, <3>1, <3>2, <3>5, <3>6, <3>7
  <2> QED
    BY <2>1, <2>2
<1> QED
  BY <1>6 DEF Backed

(* A count is earned by requests that were let through. *)
LEMMA StepEarned ==
  ASSUME BaseInv, OnceInv, EarnedInv, [Next]_vars
  PROVE  EarnedInv'
<1> DEFINE Good(o) == /\ Backed(req', KeyOf(req'[o]), req'[o].start, req'[o].count - 1)
                      /\ req'[o].count > 1 => req'[o].now < req'[o].start + Window
<1>1. ASSUME NEW o \in Requests, Kept(o), req'[o].count > 0
      PROVE  Good(o)
  <2>1. /\ KeyOf(req'[o]) = KeyOf(req[o]) /\ req'[o].start = req[o].start
        /\ req'[o].count = req[o].count /\ req'[o].now = req[o].now
    BY <1>1 DEF Kept, KeyOf
  <2>2. /\ Backed(req, KeyOf(req[o]), req[o].start, req[o].count - 1)
        /\ req[o].count > 1 => req[o].now < req[o].start + Window
    BY <1>1, <2>1 DEF EarnedInv
  <2>3. Backed(req', KeyOf(req[o]), req[o].start, req[o].count - 1)
    BY <2>2, BackedGrows
  <2> QED
    BY <2>1, <2>2, <2>3
<1>2. ASSUME NEW k \in DOMAIN items_, k \in DOMAIN items_', items_'[k] = items_[k]
      PROVE  Backed(req', k, items_'[k].start, items_'[k].count)
  <2>1. Backed(req, k, items_[k].start, items_[k].count)
    BY DEF EarnedInv
  <2>2. Backed(req', k, items_[k].start, items_[k].count)
    BY <2>1, BackedGrows
  <2> QED
    BY <1>2, <2>2
<1>3. ASSUME NEW r \in Requests, ThrottleBegins(r), req'[r].count > 0
      PROVE  FALSE
  <2>1. req'[r].count = req[r].count /\ req[r].pc = "in" /\ req[r].chain[req[r].at] = "throttle"
        /\ req[r].at \in 1..Len(req[r].chain)
    BY <1>3, BeginsFacts
  <2>2. req[r].at \in req[r].at..Len(req[r].chain)
    BY <2>1
  <2> QED
    BY <1>3, <2>1, <2>2 DEF OnceInv, OnceRec, Once
<1>4. ASSUME NEW r \in Requests, ThrottleGets(r)
      PROVE  /\ Good(r)
             /\ \A k \in DOMAIN items_' : k \in DOMAIN items_ /\ items_'[k] = items_[k]
  <2> DEFINE key == Key(r)
  <2>1. key = KeyOf(req[r]) /\ KeyOf(req'[r]) = key
    BY StaysThrough DEF Key, KeyOf
  <2>2. /\ OtherEntries(r) /\ req'[r].now = req[r].now
        /\ \/ /\ key \in DOMAIN items_ /\ key \in DOMAIN items_' /\ items_'[key] = items_[key]
              /\ req'[r].count = 1 /\ req'[r].start = req[r].now
           \/ /\ key \in DOMAIN items_ /\ key \in DOMAIN items_' /\ items_'[key] = items_[key]
              /\ req[r].now < items_[key].start + Window
              /\ req'[r].count = items_[key].count + 1 /\ req'[r].start = items_[key].start
           \/ /\ key \notin DOMAIN items_'
              /\ req'[r].count = 1 /\ req'[r].start = req[r].now
    BY <1>4, GetsFacts
  <2>3. \A k \in DOMAIN items_' : k \in DOMAIN items_ /\ items_'[k] = items_[k]
    BY <2>2 DEF OtherEntries
  <2> HIDE DEF key
  <2>4. CASE req'[r].count = 1
    <3>1. Backed(req', key, req'[r].start, 0)
      <4>1. Cardinality(Through(req', key, req'[r].start)) \in Nat
        BY ThroughFinite
      <4> QED
        BY <4>1, KernelAssumption DEF Backed
    <3>2. req'[r].count - 1 = 0 /\ ~(req'[r].count > 1)
      BY <2>4
    <3> QED
      BY <2>1, <2>3, <3>1, <3>2
  <2>5. CASE /\ key \in DOMAIN items_ /\ key \in DOMAIN items_' /\ items_'[key] = items_[key]
             /\ req[r].now < items_[key].start + Window
             /\ req'[r].count = items_[key].count + 1 /\ req'[r].start = items_[key].start
    <3>1. Backed(req', key, items_[key].start, items_[key].count)
      BY <1>2, <2>5
    <3>2. req'[r].count - 1 = items_[key].count
      BY <2>5 DEF BaseInv, TypeInv
    <3> QED
      BY <2>1, <2>2, <2>3, <2>5, <3>1, <3>2
  <2> QED
    BY <2>2, <2>3, <2>4, <2>5
<1>5. ASSUME NEW r \in Requests, ThrottlePuts(r)
      PROVE  /\ Good(r)
             /\ \A k \in DOMAIN items_' : Backed(req', k, items_'[k].start, items_'[k].count)
  <2>1. Key(r) = KeyOf(req[r]) /\ KeyOf(req'[r]) = KeyOf(req[r])
    BY StaysThrough DEF Key, KeyOf
  <2>2. /\ OtherEntries(r) /\ req[r].pc = "put" /\ req'[r].count = req[r].count
        /\ req'[r].start = req[r].start /\ req'[r].now = req[r].now
        /\ items_'[Key(r)].count = req[r].count /\ items_'[Key(r)].start = req[r].start
    BY <1>5, PutsFacts
  <2>3. req[r].count > 0
    BY <2>2 DEF OnceInv, OnceRec, Once
  <2>4. /\ Backed(req, KeyOf(req[r]), req[r].start, req[r].count - 1)
        /\ req[r].count > 1 => req[r].now < req[r].start + Window
    BY <2>3 DEF EarnedInv
  <2>5. Backed(req', KeyOf(req[r]), req[r].start, req[r].count - 1)
    BY <2>4, BackedGrows
  <2>6. Good(r)
    BY <2>1, <2>2, <2>4, <2>5
  <2>7. ASSUME NEW k \in DOMAIN items_'
        PROVE  Backed(req', k, items_'[k].start, items_'[k].count)
    <3>1. CASE k = Key(r)
      BY <1>5, <2>1, <2>2, <3>1, BackedByOneMore
    <3>2. CASE k # Key(r)
      BY <1>2, <2>2, <3>2 DEF OtherEntries
    <3> QED
      BY <3>1, <3>2
  <2> QED
    BY <2>6, <2>7
<1> HIDE DEF Good
<1>6. \A o \in Requests : req'[o].count > 0 => Good(o)
  BY <1>1, <1>3, <1>4, <1>5, StepKept
<1>7. \A k \in DOMAIN items_' : Backed(req', k, items_'[k].start, items_'[k].count)
  <2>1. ASSUME NEW r \in Requests, ThrottleBegins(r)
        PROVE  items_' = items_
    BY <2>1, BeginsFacts
  <2> QED
    BY <1>2, <1>4, <1>5, <2>1, StepKept
<1> QED
  BY <1>6, <1>7 DEF EarnedInv, Good

(* At first nothing is counted. *)
LEMMA InitCounts ==
  ASSUME Init
  PROVE  OnceInv /\ EarnedInv /\ BudgetInv
<1>1. BaseInv /\ items_ = <<>>
  BY InitBase
<1>2. ASSUME NEW r \in Requests
      PROVE  req[r].count = 0 /\ ~req[r].passed /\ req[r].status = 0 /\ req[r].pc = "new"
  BY InitBase
<1>3. DOMAIN items_ = {} /\ \A r \in Requests : ~(req[r].count > 0)
  BY <1>1, <1>2
<1>4. OnceInv
  <2>1. ASSUME NEW r \in Requests
        PROVE  OnceRec(req[r])
    <3>1. req[r].status # 429 /\ req[r].pc \notin {"put", "in"}
      BY <1>2
    <3> QED
      BY <1>2, <1>3, <3>1, Zenon DEF OnceRec, Once
  <2> QED
    BY <2>1 DEF OnceInv
<1>5. EarnedInv
  BY <1>3 DEF EarnedInv
<1>6. BudgetInv
  BY <1>2, <1>3 DEF BudgetInv, AloneInv, EntryInv, TurnInv, OrderInv, Done
<1> QED
  BY <1>4, <1>5, <1>6

(* "hammering the endpoint cannot keep resetting the window": whatever     *)
(* requests race in throttle(), one is refused only when others have used  *)
(* up the budget within the window before it.                              *)
THEOREM RefusedForCause == ThrottleOnce /\ Spec => []RefusalEarned
<1> SUFFICES ASSUME ThrottleOnce PROVE Spec => []RefusalEarned
  OBVIOUS
<1> DEFINE I == BaseInv /\ OnceInv /\ EarnedInv
<1>1. Init => I
  BY InitBase, InitCounts
<1>2. I /\ [Next]_vars => I'
  BY StepBase, StepOnce, StepEarned
<1>3. I => RefusalEarned
  <2> SUFFICES ASSUME I, NEW r \in Requests, req[r].status = 429
               PROVE  Cardinality({o \in Requests \ {r} : /\ Key(o) = Key(r) /\ req[o].passed
                                                           /\ req[o].counted + Window > req[r].now}) >= Budget
    BY DEF RefusalEarned
  <2> DEFINE R == {o \in Requests \ {r} : /\ Key(o) = Key(r) /\ req[o].passed
                                           /\ req[o].counted + Window > req[r].now}
             T == Through(req, KeyOf(req[r]), req[r].start)
  <2>1. req[r].count > Budget /\ Budget \in Nat /\ Window \in Nat /\ req[r].count \in Nat
    BY RecTypes, KernelAssumption DEF OnceInv, OnceRec, Once, TypeRec
  <2>2. IsFiniteSet(R) /\ Cardinality(R) \in Nat
    <3>1. R \in SUBSET Requests /\ IsFiniteSet(Requests)
      BY KernelAssumption
    <3> QED
      BY <3>1, FS_Subset, FS_CardinalityType
  <2>3. Cardinality(T) >= Budget /\ Cardinality(T) \in Nat
    <3>1. Backed(req, KeyOf(req[r]), req[r].start, req[r].count - 1)
      BY <2>1 DEF EarnedInv
    <3>2. Budget \in 0..Budget /\ Budget <= req[r].count - 1
      BY <2>1
    <3> QED
      BY <3>1, <3>2, ThroughFinite DEF Backed
  <2>4. CASE Budget = 0
    BY <2>2, <2>4
  <2>5. CASE Budget # 0
    <3>1. req[r].now < req[r].start + Window
      BY <2>1, <2>5 DEF EarnedInv
    <3>2. ~req[r].passed
      <4>1. req[r].count > 0 /\ ~(req[r].count <= Budget) /\ req[r].pc # "put"
        BY <2>1 DEF OnceInv, OnceRec, Once
      <4> QED
        BY <4>1, Zenon DEF OnceInv, OnceRec, Once
    <3>3. ASSUME NEW o \in T
          PROVE  o \in R
      <4>1. o \in Requests /\ KeyOf(req[o]) = KeyOf(req[r]) /\ req[o].passed /\ req[o].start = req[r].start
        BY DEF Through
      <4>2. o # r
        BY <3>2, <4>1
      <4>3. req[o].start <= req[o].counted
        BY <4>1, Zenon DEF OnceInv, OnceRec, Once
      <4>4. req[o].counted \in Nat /\ req[o].start \in Nat /\ req[r].now \in Nat
        BY <4>1, RecTypes DEF TypeRec
      <4>5. req[o].counted + Window > req[r].now
        BY <2>1, <3>1, <4>1, <4>3, <4>4
      <4>6. Key(o) = Key(r)
        BY <4>1 DEF Key, KeyOf
      <4> QED
        BY <4>1, <4>2, <4>5, <4>6
    <3>4. T \in SUBSET R
      BY <3>3
    <3>5. Cardinality(T) <= Cardinality(R)
      <4> HIDE DEF T, R
      <4> QED
        BY <2>2, <3>4, FS_Subset
    <3> QED
      BY <2>1, <2>2, <2>3, <3>5
  <2> QED
    BY <2>4, <2>5
<1> QED
  BY <1>1, <1>2, <1>3, PTL DEF Spec

-----------------------------------------------------------------------------
(* How many throttle() lets through.                                       *)

(* Whose counting is over stays as it was, and only a put ends a counting. *)
LEMMA DoneStays ==
  ASSUME BaseInv, OnceInv, [Next]_vars, NEW o \in Requests
  PROVE  /\ Done(req[o]) =>
              /\ Done(req'[o]) /\ req'[o].count = req[o].count /\ req'[o].start = req[o].start
              /\ req'[o].now = req[o].now /\ req'[o].counted = req[o].counted
              /\ req'[o].alone => req[o].alone
              /\ ~ThrottleBegins(o) /\ ~ThrottleGets(o) /\ ~ThrottlePuts(o)
         /\ Done(req'[o]) => Done(req[o]) \/ ThrottlePuts(o)
<1>0. ASSUME NEW p \in Requests, ThrottleBegins(p)
      PROVE  req[p].count = 0 /\ req'[p].count = 0 /\ req[p].pc = "in" /\ req'[p].pc = "get"
  <2>1. /\ req'[p].count = req[p].count /\ req[p].pc = "in" /\ req'[p].pc = "get"
        /\ req[p].chain[req[p].at] = "throttle" /\ req[p].at \in 1..Len(req[p].chain)
    BY <1>0, BeginsFacts
  <2>2. req[p].at \in req[p].at..Len(req[p].chain) /\ req[p].count \in Nat
    BY <2>1, RecTypes DEF TypeRec
  <2>3. ~(req[p].count > 0)
    BY <2>1, <2>2 DEF OnceInv, OnceRec, Once
  <2> QED
    BY <2>1, <2>2, <2>3
<1>1. CASE Kept(o) /\ ~ThrottleBegins(o) /\ ~ThrottleGets(o) /\ ~ThrottlePuts(o)
  BY <1>1, Zenon DEF Kept, Done
<1>2. CASE ThrottleBegins(o)
  BY <1>0, <1>2 DEF Done
<1>3. CASE ThrottleGets(o)
  <2>1. req[o].pc = "get" /\ req'[o].pc = "put"
    BY <1>3, GetsFacts
  <2>2. req[o].count = 0
    BY <2>1 DEF OnceInv, OnceRec, Once
  <2> QED
    BY <2>1, <2>2 DEF Done
<1>4. CASE ThrottlePuts(o)
  <2>1. req[o].pc = "put"
    BY <1>4, PutsFacts
  <2> QED
    BY <1>4, <2>1 DEF Done
<1> QED
  BY <1>1, <1>2, <1>3, <1>4, StepKept

(* Orderly after a step, orderly before. *)
LEMMA OrderlyBefore ==
  ASSUME BaseInv, OnceInv, [Next]_vars
  PROVE  \A key : Orderly(req', key) => Orderly(req, key)
<1> SUFFICES ASSUME NEW key, Orderly(req', key), NEW r \in Requests, KeyOf(req[r]) = key, Done(req[r])
             PROVE  req[r].alone /\ req[r].counted < req[r].now + Window
  BY DEF Orderly
<1>1. /\ Done(req'[r]) /\ req'[r].now = req[r].now /\ req'[r].counted = req[r].counted
      /\ req'[r].alone => req[r].alone
  BY DoneStays
<1>2. KeyOf(req'[r]) = key
  BY StaysThrough
<1>3. req'[r].alone /\ req'[r].counted < req'[r].now + Window
  BY <1>1, <1>2 DEF Orderly
<1> QED
  BY <1>1, <1>3

(* What can change with a step: nothing, or one request in throttle(). *)
LEMMA StepShape ==
  ASSUME BaseInv, OnceInv, [Next]_vars
  PROVE  \/ (\A o \in Requests : Kept(o)) /\ items_' = items_ /\ time' \in Nat /\ time <= time'
         \/ \E r \in Requests : /\ ThrottleBegins(r) /\ items_' = items_ /\ time' = time
                                /\ \A o \in Requests \ {r} : Kept(o)
         \/ \E r \in Requests : ThrottleGets(r) /\ time' = time /\ \A o \in Requests \ {r} : Kept(o)
         \/ \E r \in Requests : ThrottlePuts(r) /\ time' = time /\ \A o \in Requests \ {r} : Kept(o)
BY StepKept, BeginsFacts

(* AloneInv is kept. *)
LEMMA StepAlone ==
  ASSUME BaseInv, OnceInv, AloneInv, [Next]_vars
  PROVE  AloneInv'
<1> SUFFICES ASSUME NEW x \in Requests, NEW o \in Requests, x # o, KeyOf(req'[o]) = KeyOf(req'[x]),
                    req'[x].pc \in {"get", "put"}, req'[o].pc \in {"get", "put"}, req'[x].alone
             PROVE  FALSE
  BY DEF AloneInv
<1>1. KeyOf(req[o]) = KeyOf(req[x])
  BY StaysThrough
<1>2. ASSUME NEW p \in Requests, Kept(p)
      PROVE  /\ req'[p].pc \in {"get", "put"} => req[p].pc \in {"get", "put"}
             /\ req'[p].alone => req[p].alone
  BY <1>2 DEF Kept
<1>3. ~(req[x].pc \in {"get", "put"} /\ req[o].pc \in {"get", "put"} /\ req[x].alone)
  BY <1>1 DEF AloneInv
<1>4. CASE \A p \in Requests : Kept(p)
  BY <1>2, <1>3, <1>4
<1>5. ASSUME NEW r \in Requests, ThrottleBegins(r), \A p \in Requests \ {r} : Kept(p)
      PROVE  FALSE
  <2>1. \A p \in Requests : Counting(p) <=> req[p].pc \in {"get", "put"}
    BY DEF Counting
  <2>2. \A p, q \in Requests : Key(p) = Key(q) <=> KeyOf(req[p]) = KeyOf(req[q])
    BY DEF Key, KeyOf
  <2>3. CASE x = r
    <3>1. ~(Counting(o) /\ Key(o) = Key(r))
      BY <1>5, <2>3, BeginsFacts
    <3>2. req[o].pc \in {"get", "put"}
      BY <1>2, <1>5, <2>3
    <3> QED
      BY <1>1, <2>1, <2>2, <2>3, <3>1, <3>2
  <2>4. CASE o = r
    <3>1. ~(Counting(x) /\ Key(x) = Key(r))
      BY <1>5, <2>4, BeginsFacts
    <3>2. req[x].pc \in {"get", "put"}
      BY <1>2, <1>5, <2>4
    <3> QED
      BY <1>1, <2>1, <2>2, <2>4, <3>1, <3>2
  <2> QED
    BY <1>2, <1>3, <1>5, <2>3, <2>4
<1>6. ASSUME NEW r \in Requests, ThrottleGets(r), \A p \in Requests \ {r} : Kept(p)
      PROVE  FALSE
  <2>1. req[r].pc = "get" /\ req'[r].alone = req[r].alone
    BY <1>6, GetsFacts
  <2> QED
    BY <1>2, <1>3, <1>6, <2>1
<1>7. ASSUME NEW r \in Requests, ThrottlePuts(r), \A p \in Requests \ {r} : Kept(p)
      PROVE  FALSE
  <2>1. req[r].pc = "put" /\ req'[r].alone = req[r].alone
    BY <1>7, PutsFacts
  <2> QED
    BY <1>2, <1>3, <1>7, <2>1
<1> QED
  BY <1>4, <1>5, <1>6, <1>7, StepShape

(* The numbers that the order is about. *)
LEMMA CountTypes ==
  ASSUME BaseInv
  PROVE  /\ Window \in Nat /\ Window > 0 /\ Budget \in Nat /\ time \in Nat
         /\ \A r \in Requests :
              /\ req[r].count \in Nat /\ req[r].start \in Nat /\ req[r].now \in Nat
              /\ req[r].counted \in Nat /\ req[r].counted <= time
              /\ KeyOf(req[r]) = Key(r)
         /\ \A k \in DOMAIN items_ :
              items_[k].count \in Nat /\ items_[k].start \in Nat /\ items_[k].expires \in Nat
<1>1. Window \in Nat /\ Window > 0 /\ Budget \in Nat /\ time \in Nat
  BY KernelAssumption DEF BaseInv, TypeInv
<1> QED
  BY <1>1 DEF BaseInv, TypeInv, TypeRec, Key, KeyOf

(* EntryInv is kept. *)
LEMMA StepEntry ==
  ASSUME BaseInv, OnceInv, BudgetInv, [Next]_vars
  PROVE  EntryInv'
<1> SUFFICES ASSUME NEW x \in Requests, Done(req'[x]), Orderly(req', KeyOf(req'[x]))
             PROVE  \/ /\ KeyOf(req'[x]) \in DOMAIN items_'
                       /\ Before(req'[x], items_'[KeyOf(req'[x])].start, items_'[KeyOf(req'[x])].count + 1)
                       /\ req'[x].counted + 2 * Window <= items_'[KeyOf(req'[x])].expires
                    \/ /\ KeyOf(req'[x]) \notin DOMAIN items_'
                       /\ \E o \in Requests : KeyOf(req'[o]) = KeyOf(req'[x]) /\ req'[o].pc = "put"
  BY DEF EntryInv
<1> DEFINE k == KeyOf(req[x])
           In(items, q) == /\ k \in DOMAIN items
                           /\ Before(q, items[k].start, items[k].count + 1)
                           /\ q.counted + 2 * Window <= items[k].expires
           Out(items, reqs) == /\ k \notin DOMAIN items
                               /\ \E o \in Requests : KeyOf(req[o]) = k /\ reqs[o].pc = "put"
<1>1. \A o \in Requests : KeyOf(req'[o]) = KeyOf(req[o])
  BY StaysThrough
<1>2. Orderly(req', k) /\ Orderly(req, k)
  BY <1>1, OrderlyBefore
<1>3. ASSUME Done(req[x])
      PROVE  In(items_, req'[x]) \/ Out(items_, req)
  <2>1. req'[x].count = req[x].count /\ req'[x].start = req[x].start /\ req'[x].counted = req[x].counted
    BY <1>3, DoneStays
  <2>2. In(items_, req[x]) \/ Out(items_, req)
    BY <1>2, <1>3 DEF BudgetInv, EntryInv
  <2> QED
    BY <2>1, <2>2 DEF Before
<1>4. Done(req[x]) \/ ThrottlePuts(x)
  BY DoneStays
<1>5. ASSUME items_' = items_, \A o \in Requests : req[o].pc = "put" => req'[o].pc = "put", ~ThrottlePuts(x)
      PROVE  In(items_', req'[x]) \/ Out(items_', req')
  BY <1>3, <1>4, <1>5
<1>6. CASE (\A o \in Requests : Kept(o)) /\ items_' = items_
  <2>1. \A o \in Requests : req[o].pc = "put" => req'[o].pc = "put"
    BY <1>6 DEF Kept
  <2>2. ~ThrottlePuts(x)
    <3>1. ASSUME ThrottlePuts(x) PROVE FALSE
      <4>1. req[x].pc = "put" /\ req'[x].pc # "put"
        BY <3>1, PutsFacts
      <4> QED
        BY <1>6, <4>1 DEF Kept
    <3> QED
      BY <3>1
  <2>3. In(items_', req'[x]) \/ Out(items_', req')
    BY <1>5, <1>6, <2>1, <2>2
  <2> QED
    BY <1>1, <2>3
<1>7. ASSUME NEW r \in Requests, ThrottleBegins(r), items_' = items_, \A o \in Requests \ {r} : Kept(o)
      PROVE  In(items_', req'[x]) \/ Out(items_', req')
  <2>0. req[r].pc = "in" /\ req'[r].pc = "get"
    BY <1>7, BeginsFacts
  <2>1. \A o \in Requests : req[o].pc = "put" => req'[o].pc = "put"
    BY <1>7, <2>0 DEF Kept
  <2>2. ~ThrottlePuts(x)
    <3>1. ASSUME ThrottlePuts(x) PROVE FALSE
      <4>1. req[x].pc = "put" /\ req'[x].pc # "put"
        BY <3>1, PutsFacts
      <4> QED
        BY <1>7, <2>0, <4>1 DEF Kept
    <3> QED
      BY <3>1
  <2> QED
    BY <1>5, <1>7, <2>1, <2>2
<1>8. ASSUME NEW r \in Requests, ThrottleGets(r), \A o \in Requests \ {r} : Kept(o)
      PROVE  In(items_', req'[x]) \/ Out(items_', req')
  <2>1. /\ OtherEntries(r) /\ req[r].pc = "get" /\ req'[r].pc = "put"
        /\ \/ Key(r) \in DOMAIN items_ /\ Key(r) \in DOMAIN items_' /\ items_'[Key(r)] = items_[Key(r)]
           \/ Key(r) \notin DOMAIN items_'
    BY <1>8, GetsFacts
  <2>2. Key(r) = KeyOf(req[r])
    BY DEF Key, KeyOf
  <2>3. Done(req[x])
    <3>1. ASSUME ThrottlePuts(x) PROVE FALSE
      <4>1. req[x].pc = "put" /\ req'[x].pc # "put"
        BY <3>1, PutsFacts
      <4> QED
        BY <1>8, <2>1, <4>1 DEF Kept
    <3> QED
      BY <1>4, <3>1
  <2>4. In(items_, req'[x]) \/ Out(items_, req)
    BY <1>3, <2>3
  <2>5. \A o \in Requests : req[o].pc = "put" => req'[o].pc = "put"
    BY <1>8, <2>1 DEF Kept
  <2>6. CASE k = Key(r) /\ Key(r) \notin DOMAIN items_'
    BY <2>1, <2>2, <2>6
  <2>7. CASE k # Key(r)
    <3>1. (k \in DOMAIN items_' <=> k \in DOMAIN items_) /\ (k \in DOMAIN items_ => items_'[k] = items_[k])
      BY <2>1, <2>7 DEF OtherEntries
    <3> QED
      BY <2>4, <2>5, <3>1
  <2>8. CASE /\ k = Key(r) /\ Key(r) \in DOMAIN items_ /\ Key(r) \in DOMAIN items_'
             /\ items_'[Key(r)] = items_[Key(r)]
    BY <2>4, <2>5, <2>8
  <2> QED
    BY <2>1, <2>6, <2>7, <2>8
<1>9. ASSUME NEW r \in Requests, ThrottlePuts(r), \A o \in Requests \ {r} : Kept(o)
      PROVE  In(items_', req'[x]) \/ Out(items_', req')
  <2>1. /\ OtherEntries(r) /\ req[r].pc = "put" /\ req'[r].pc # "put" /\ req'[r].counted = time
        /\ req'[r].count = req[r].count /\ req'[r].start = req[r].start
        /\ req'[r].now = req[r].now /\ req'[r].alone = req[r].alone
        /\ Key(r) \in DOMAIN items_' /\ items_'[Key(r)].count = req[r].count
        /\ items_'[Key(r)].start = req[r].start /\ items_'[Key(r)].expires = time + 2 * Window
    BY <1>9, PutsFacts
  <2>2. /\ Window \in Nat /\ time \in Nat /\ Key(r) = KeyOf(req[r])
        /\ req[r].count \in Nat /\ req[r].start \in Nat
        /\ req[x].count \in Nat /\ req[x].start \in Nat /\ req[x].counted \in Nat /\ req[x].counted <= time
    BY CountTypes
  <2>3. CASE x = r
    <3>1. Before(req'[x], items_'[k].start, items_'[k].count + 1)
      BY <2>1, <2>2, <2>3 DEF Before
    <3> QED
      BY <2>1, <2>2, <2>3, <3>1
  <2>4. CASE x # r /\ k # Key(r)
    <3>1. (k \in DOMAIN items_' <=> k \in DOMAIN items_) /\ (k \in DOMAIN items_ => items_'[k] = items_[k])
      BY <2>1, <2>4 DEF OtherEntries
    <3>2. Done(req[x])
      BY <1>9, <2>4 DEF Kept, Done
    <3>3. ASSUME NEW o \in Requests, KeyOf(req[o]) = k, req[o].pc = "put"
          PROVE  req'[o].pc = "put"
      BY <1>9, <2>2, <2>4, <3>3 DEF Kept
    <3> QED
      BY <1>3, <3>1, <3>2, <3>3
  <2>5. CASE x # r /\ k = Key(r)
    <3>1. Done(req[x]) /\ req'[x].start = req[x].start /\ req'[x].count = req[x].count
          /\ req'[x].counted = req[x].counted
      BY <1>9, <2>5 DEF Kept, Done
    <3>2. req[r].alone /\ time < req[r].now + Window
      <4>1. req[r].count > 0
        BY <2>1 DEF OnceInv, OnceRec, Once
      <4>2. Done(req'[r]) /\ KeyOf(req'[r]) = k
        BY <1>1, <2>1, <2>2, <2>5, <4>1 DEF Done
      <4> QED
        BY <1>2, <2>1, <4>2 DEF Orderly
    <3>3. Before(req[x], req[r].start, req[r].count)
      BY <1>2, <2>1, <2>2, <2>5, <3>1, <3>2 DEF BudgetInv, TurnInv
    <3>4. Before(req'[x], items_'[k].start, items_'[k].count + 1)
      BY <2>1, <2>2, <2>5, <3>1, <3>3 DEF Before
    <3> QED
      BY <2>1, <2>2, <2>5, <3>1, <3>4
  <2> QED
    BY <2>3, <2>4, <2>5
<1>10. In(items_', req'[x]) \/ Out(items_', req') \/ ((\A o \in Requests : Kept(o)) /\ items_' = items_)
  <2> HIDE DEF In, Out
  <2> QED
    BY <1>7, <1>8, <1>9, StepShape
<1> QED
  BY <1>1, <1>6, <1>10

(* Who is done counting in an orderly way has come before the one that     *)
(* reads the entry now.                                                    *)
LEMMA GetsLater ==
  ASSUME BaseInv, OnceInv, BudgetInv, [Next]_vars, NEW r \in Requests, ThrottleGets(r),
         NEW x \in Requests, Done(req[x]), KeyOf(req[x]) = KeyOf(req[r]), Orderly(req, KeyOf(req[x])),
         req[r].alone, time < req[r].now + Window
  PROVE  Before(req[x], req'[r].start, req'[r].count)
<1> DEFINE k == Key(r)
<1>1. /\ req[r].pc = "get"
      /\ \/ /\ k \in DOMAIN items_ /\ req[r].now >= items_[k].start + Window
            /\ req'[r].count = 1 /\ req'[r].start = req[r].now
         \/ /\ k \in DOMAIN items_
            /\ req'[r].count = items_[k].count + 1 /\ req'[r].start = items_[k].start
         \/ /\ k \in DOMAIN items_ => time >= items_[k].expires
            /\ req'[r].count = 1 /\ req'[r].start = req[r].now
  BY GetsFacts
<1>2. k = KeyOf(req[x])
  BY DEF Key, KeyOf
<1>3. /\ Window \in Nat /\ Window > 0 /\ time \in Nat /\ req[r].now \in Nat
      /\ req[x].count \in Nat /\ req[x].start \in Nat /\ req[x].counted \in Nat
  BY CountTypes
<1>4. req[x].start <= req[x].counted
  BY DEF Done, OnceInv, OnceRec, Once
<1>5. /\ k \in DOMAIN items_
      /\ Before(req[x], items_[k].start, items_[k].count + 1)
      /\ req[x].counted + 2 * Window <= items_[k].expires
  <2>1. \A p \in Requests : KeyOf(req[p]) = k => req[p].pc # "put"
    BY <1>1, <1>2 DEF BudgetInv, AloneInv
  <2> QED
    BY <1>2, <2>1 DEF BudgetInv, EntryInv
<1>6. items_[k].start \in Nat /\ items_[k].count \in Nat /\ items_[k].expires \in Nat
  BY <1>5, CountTypes
<1> HIDE DEF k
<1> QED
  BY <1>1, <1>3, <1>4, <1>5, <1>6 DEF Before

(* TurnInv is kept. *)
LEMMA StepTurn ==
  ASSUME BaseInv, OnceInv, BudgetInv, [Next]_vars
  PROVE  TurnInv'
<1> SUFFICES ASSUME NEW x \in Requests, NEW o \in Requests, KeyOf(req'[o]) = KeyOf(req'[x]),
                    Done(req'[x]), Orderly(req', KeyOf(req'[x])),
                    req'[o].pc = "put", req'[o].alone, time' < req'[o].now + Window
             PROVE  Before(req'[x], req'[o].start, req'[o].count)
  BY DEF TurnInv
<1>1. KeyOf(req'[x]) = KeyOf(req[x]) /\ KeyOf(req'[o]) = KeyOf(req[o])
  BY StaysThrough
<1>2. Orderly(req, KeyOf(req[x])) /\ KeyOf(req[o]) = KeyOf(req[x])
  BY <1>1, OrderlyBefore
<1>3. time \in Nat /\ Window \in Nat /\ req[o].now \in Nat
  BY CountTypes
<1>4. ASSUME Kept(o), Done(req[x]), time' \in Nat, time <= time'
      PROVE  Before(req'[x], req'[o].start, req'[o].count)
  <2>1. req'[x].start = req[x].start /\ req'[x].count = req[x].count
    BY <1>4, DoneStays
  <2>2. /\ req[o].pc = "put" /\ req[o].alone /\ req'[o].start = req[o].start
        /\ req'[o].count = req[o].count /\ req'[o].now = req[o].now
    BY <1>4 DEF Kept
  <2>3. time < req[o].now + Window
    BY <1>3, <1>4, <2>2
  <2>4. Before(req[x], req[o].start, req[o].count)
    BY <1>2, <1>4, <2>2, <2>3 DEF BudgetInv, TurnInv
  <2> QED
    BY <2>1, <2>2, <2>4 DEF Before
<1>5. CASE (\A p \in Requests : Kept(p)) /\ time' \in Nat /\ time <= time'
  <2>1. Done(req[x])
    BY <1>5 DEF Kept, Done
  <2> QED
    BY <1>4, <1>5, <2>1
<1>6. ASSUME NEW r \in Requests, ThrottleBegins(r), time' = time, \A p \in Requests \ {r} : Kept(p)
      PROVE  Before(req'[x], req'[o].start, req'[o].count)
  <2>1. req'[r].pc = "get" /\ req[r].pc = "in"
    BY <1>6, BeginsFacts
  <2>2. Kept(o)
    BY <1>6, <2>1
  <2>3. Done(req[x])
    <3>1. ASSUME ThrottlePuts(x) PROVE FALSE
      <4>1. req[x].pc = "put" /\ req'[x].pc # "put"
        BY <3>1, PutsFacts
      <4> QED
        BY <1>6, <2>1, <4>1 DEF Kept
    <3> QED
      BY <3>1, DoneStays
  <2> QED
    BY <1>3, <1>4, <1>6, <2>2, <2>3
<1>7. ASSUME NEW r \in Requests, ThrottleGets(r), time' = time, \A p \in Requests \ {r} : Kept(p)
      PROVE  Before(req'[x], req'[o].start, req'[o].count)
  <2>1. /\ req'[r].pc = "put" /\ req[r].pc = "get" /\ req'[r].alone = req[r].alone
        /\ req'[r].now = req[r].now
    BY <1>7, GetsFacts
  <2>2. Done(req[x])
    <3>1. ASSUME ThrottlePuts(x) PROVE FALSE
      <4>1. req[x].pc = "put" /\ req'[x].pc # "put"
        BY <3>1, PutsFacts
      <4> QED
        BY <1>7, <2>1, <4>1 DEF Kept
    <3> QED
      BY <3>1, DoneStays
  <2>3. CASE o # r
    BY <1>3, <1>4, <1>7, <2>2, <2>3
  <2>4. CASE o = r
    <3>1. Before(req[x], req'[r].start, req'[r].count)
      BY <1>2, <1>7, <2>1, <2>2, <2>4, GetsLater
    <3>2. req'[x].start = req[x].start /\ req'[x].count = req[x].count
      BY <2>2, DoneStays
    <3> QED
      BY <2>4, <3>1, <3>2 DEF Before
  <2> QED
    BY <2>3, <2>4
<1>8. ASSUME NEW r \in Requests, ThrottlePuts(r), time' = time, \A p \in Requests \ {r} : Kept(p)
      PROVE  Before(req'[x], req'[o].start, req'[o].count)
  <2>1. req[r].pc = "put" /\ req'[r].pc # "put"
    BY <1>8, PutsFacts
  <2>2. o # r /\ Kept(o)
    BY <1>8, <2>1
  <2>3. x # r
    <3>1. req[o].pc = "put" /\ req[o].alone
      BY <2>2 DEF Kept
    <3> QED
      BY <1>2, <2>1, <2>2, <3>1 DEF BudgetInv, AloneInv
  <2>4. Done(req[x])
    BY <1>8, <2>3 DEF Kept, Done
  <2> QED
    BY <1>3, <1>4, <1>8, <2>2, <2>4
<1> QED
  BY <1>5, <1>6, <1>7, <1>8, StepShape

(* OrderInv is kept. *)
LEMMA StepOrder ==
  ASSUME BaseInv, OnceInv, BudgetInv, [Next]_vars
  PROVE  OrderInv'
<1> SUFFICES ASSUME NEW x \in Requests, NEW o \in Requests, x # o, KeyOf(req'[o]) = KeyOf(req'[x]),
                    Done(req'[x]), Done(req'[o]), Orderly(req', KeyOf(req'[x]))
             PROVE  \/ Before(req'[x], req'[o].start, req'[o].count)
                    \/ Before(req'[o], req'[x].start, req'[x].count)
  BY DEF OrderInv
<1>1. KeyOf(req'[x]) = KeyOf(req[x]) /\ KeyOf(req'[o]) = KeyOf(req[o])
  BY StaysThrough
<1>2. Orderly(req, KeyOf(req[x])) /\ KeyOf(req[o]) = KeyOf(req[x])
  BY <1>1, OrderlyBefore
<1>3. ASSUME NEW p \in Requests, NEW r \in Requests, ThrottlePuts(r), Done(req[p]),
             KeyOf(req[p]) = KeyOf(req[x]), KeyOf(req[r]) = KeyOf(req[x])
      PROVE  Before(req'[p], req'[r].start, req'[r].count)
  <2>1. /\ req[r].pc = "put" /\ req'[r].pc # "put" /\ req'[r].counted = time
        /\ req'[r].count = req[r].count /\ req'[r].start = req[r].start
        /\ req'[r].now = req[r].now /\ req'[r].alone = req[r].alone
    BY <1>3, PutsFacts
  <2>2. Done(req'[r]) /\ KeyOf(req'[r]) = KeyOf(req'[x])
    <3>1. req[r].count > 0
      BY <2>1 DEF OnceInv, OnceRec, Once
    <3>2. KeyOf(req'[r]) = KeyOf(req[r])
      BY StaysThrough
    <3> QED
      BY <1>1, <1>3, <2>1, <3>1, <3>2 DEF Done
  <2>3. req[r].alone /\ time < req[r].now + Window
    BY <2>1, <2>2 DEF Orderly
  <2>4. Before(req[p], req[r].start, req[r].count)
    BY <1>2, <1>3, <2>1, <2>3 DEF BudgetInv, TurnInv
  <2>5. req'[p].start = req[p].start /\ req'[p].count = req[p].count
    BY <1>3, DoneStays
  <2> QED
    BY <2>1, <2>4, <2>5 DEF Before
<1>4. CASE Done(req[x]) /\ Done(req[o])
  <2>1. /\ req'[x].start = req[x].start /\ req'[x].count = req[x].count
        /\ req'[o].start = req[o].start /\ req'[o].count = req[o].count
    BY <1>4, DoneStays
  <2>2. Before(req[x], req[o].start, req[o].count) \/ Before(req[o], req[x].start, req[x].count)
    BY <1>2, <1>4 DEF BudgetInv, OrderInv
  <2> QED
    BY <2>1, <2>2 DEF Before
<1>5. CASE ThrottlePuts(x) /\ Done(req[o])
  BY <1>2, <1>3, <1>5
<1>6. CASE ThrottlePuts(o) /\ Done(req[x])
  BY <1>2, <1>3, <1>6
<1>7. ~(ThrottlePuts(x) /\ ThrottlePuts(o))
  <2>1. ASSUME ThrottlePuts(x), ThrottlePuts(o) PROVE FALSE
    <3>1. req[o].pc = "put" /\ req'[o].pc # "put" /\ Moves(x)
      BY <2>1, PutsFacts
    <3> QED
      BY <3>1 DEF Moves
  <2> QED
    BY <2>1
<1> QED
  BY <1>4, <1>5, <1>6, <1>7, DoneStays

(* "at most `max` requests per client per `window`": when no two requests  *)
(* of a client are between get and put at the same time and none spends a  *)
(* window there, no more pass in a window, and windows do not overlap.     *)
THEOREM ThrottleKeepsBudget == ThrottleOnce /\ Spec => []BudgetKept
<1> SUFFICES ASSUME ThrottleOnce PROVE Spec => []BudgetKept
  OBVIOUS
<1> DEFINE I == BaseInv /\ OnceInv /\ BudgetInv
<1>1. Init => I
  BY InitBase, InitCounts
<1>2. I /\ [Next]_vars => I'
  <2>1. ASSUME I, [Next]_vars
        PROVE  AloneInv' /\ EntryInv' /\ TurnInv' /\ OrderInv'
    <3>1. AloneInv
      BY <2>1 DEF BudgetInv
    <3> QED
      BY <2>1, <3>1, StepAlone, StepEntry, StepTurn, StepOrder
  <2> QED
    BY <2>1, StepBase, StepOnce DEF BudgetInv
<1>3. I => BudgetKept
  <2> SUFFICES ASSUME I, NEW key \in DOMAIN items_
               PROVE  LET mine == {r \in Requests : Key(r) = key /\ req[r].count > 0 /\ req[r].pc # "put"}
                          starts == {req[r].start : r \in mine}
                      IN (\A r \in mine : req[r].alone /\ req[r].counted < req[r].now + Window) =>
                           \A s \in starts :
                             /\ Cardinality({r \in mine : req[r].passed /\ req[r].start = s}) <= Budget
                             /\ \A t \in starts : t > s => t >= s + Window
    BY DEF BudgetKept
  <2> DEFINE mine == {r \in Requests : Key(r) = key /\ req[r].count > 0 /\ req[r].pc # "put"}
             starts == {req[r].start : r \in mine}
  <2> SUFFICES ASSUME \A r \in mine : req[r].alone /\ req[r].counted < req[r].now + Window,
                      NEW s \in starts
               PROVE  /\ Cardinality({r \in mine : req[r].passed /\ req[r].start = s}) <= Budget
                      /\ \A t \in starts : t > s => t >= s + Window
    OBVIOUS
  <2>1. /\ Window \in Nat /\ Window > 0 /\ Budget \in Nat
        /\ \A r \in Requests : req[r].count \in Nat /\ req[r].start \in Nat /\ KeyOf(req[r]) = Key(r)
    BY CountTypes
  <2>2. Orderly(req, key) /\ \A r \in mine : r \in Requests /\ KeyOf(req[r]) = key /\ Done(req[r])
    BY <2>1 DEF Orderly, Done
  <2>3. \A r, o \in mine : r # o =>
          Before(req[r], req[o].start, req[o].count) \/ Before(req[o], req[r].start, req[r].count)
    BY <2>2 DEF BudgetInv, OrderInv
  <2>4. \A r \in mine : req[r].passed => req[r].count \in 1..Budget
    <3> SUFFICES ASSUME NEW r \in mine, req[r].passed PROVE req[r].count \in 1..Budget
      OBVIOUS
    <3>1. Done(req[r]) /\ r \in Requests
      BY <2>2
    <3>2. req[r].count > 0 /\ req[r].count <= Budget
      BY <3>1, Zenon DEF Done, OnceInv, OnceRec, Once
    <3> QED
      BY <2>1, <3>1, <3>2
  <2> HIDE DEF mine
  <2>5. \A t \in starts : t > s => t >= s + Window
    <3> SUFFICES ASSUME NEW t \in starts, t > s PROVE t >= s + Window
      OBVIOUS
    <3>1. PICK r \in mine : req[r].start = s
      OBVIOUS
    <3>2. PICK o \in mine : req[o].start = t
      OBVIOUS
    <3>3. s \in Nat /\ t \in Nat
      BY <2>1, <2>2, <3>1, <3>2
    <3>4. r # o
      BY <3>1, <3>2, <3>3
    <3> QED
      BY <2>1, <2>3, <3>1, <3>2, <3>3, <3>4 DEF Before
  <2>6. Cardinality({r \in mine : req[r].passed /\ req[r].start = s}) <= Budget
    <3> DEFINE P == {r \in mine : req[r].passed /\ req[r].start = s}
               f == [r \in P |-> req[r].count]
    <3>1. f \in [P -> 1..Budget]
      BY <2>4
    <3>2. ASSUME NEW r \in P, NEW o \in P, f[r] = f[o]
          PROVE  r = o
      <4>1. r \in mine /\ o \in mine /\ req[r].start = s /\ req[o].start = s /\ req[r].count = req[o].count
        BY <3>2
      <4>2. req[r].count \in Nat /\ s \in Nat
        BY <2>1, <2>2, <4>1
      <4> QED
        BY <2>1, <2>3, <4>1, <4>2 DEF Before
    <3>3. f \in Injection(P, 1..Budget)
      <4> HIDE DEF f, P
      <4> QED
        BY <3>1, <3>2 DEF Injection, IsInjective
    <3>4. IsFiniteSet(1..Budget) /\ Cardinality(1..Budget) = Budget
      <4>1. 1 \in Int /\ Budget \in Int
        BY <2>1
      <4>2. /\ IsFiniteSet(1..Budget)
            /\ Cardinality(1..Budget) = IF 1 > Budget THEN 0 ELSE Budget - 1 + 1
        BY <4>1, FS_Interval
      <4> QED
        BY <2>1, <4>2
    <3>5. Cardinality(P) <= Cardinality(1..Budget)
      <4> HIDE DEF f, P
      <4> QED
        BY <3>3, <3>4, FS_Injection
    <3> QED
      BY <3>4, <3>5
  <2> QED
    BY <2>5, <2>6
<1> QED
  BY <1>1, <1>2, <1>3, PTL DEF Spec

-----------------------------------------------------------------------------
(* The cache's tags.                                                       *)

Tagging(t) == t.pc \in {"tag", "forget"}

TaskOK(t, n) ==
  /\ DOMAIN t = {"pc", "tags", "key", "from"}
  /\ t.pc \in {"rest", "compute", "tag", "flush", "forget"}
  /\ t.pc = "compute" => t.key \in CacheKey
  /\ t.pc \in {"tag", "flush", "forget"} => t.tags \in Seq(Tag) /\ t.tags # <<>>
  /\ t.pc = "tag" => t.key \in CacheKey /\ t.from \in 1..n
  /\ t.pc = "forget" => t.key \in Nat /\ t.key > 0

(* What a flush() has come past is no longer there. *)
Behind(t, values, keys, tagged) ==
  t.pc = "forget" =>
    \A p \in tagged[Head(t.tags)] : \A i \in 1..Len(keys[Head(t.tags)]) :
      i < t.key /\ keys[Head(t.tags)][i] = p[1] => values[p[1]] # p[2]

CacheTypes ==
  /\ puts \in Nat /\ DOMAIN stored = CacheKey /\ tagged_keys_ \in [Tag -> Seq(CacheKey)]
  /\ DOMAIN under = Tag
  /\ DOMAIN task = Worker /\ \A w \in Worker : TaskOK(task[w], puts)

(* tagged_keys_ knows the keys of all that is stored under a tag. *)
Held ==
  \A g \in Tag : \A p \in under[g] :
    /\ p[1] \in CacheKey /\ p[2] \in 1..puts
    /\ \E i \in 1..Len(tagged_keys_[g]) : tagged_keys_[g][i] = p[1]

CacheInv ==
  /\ CacheTypes /\ Held
  /\ ~raced => /\ \A w, o \in Worker : w # o => ~(Tagging(task[w]) /\ Tagging(task[o]))
               /\ \A w \in Worker : Behind(task[w], stored, tagged_keys_, under)

(* What a worker goes on to. *)
LEMMA GoesFacts ==
  ASSUME DOMAIN task = Worker, NEW w \in Worker, NEW t, C!Goes(w, t)
  PROVE  /\ DOMAIN task' = Worker /\ \A o \in Worker \ {w} : task'[o] = task[o]
         /\ \/ task'[w] = C!Rest
            \/ task'[w] = t /\ ~(t.pc \in {"tag", "flush"} /\ t.tags = <<>>)
         /\ ~raced' => ~raced /\ \A o \in Worker \ {w} : ~(Tagging(task'[w]) /\ Tagging(task[o]))
<1>1. DOMAIN task' = Worker /\ \A o \in Worker \ {w} : task'[o] = task[o]
  BY DEF C!Goes
<1>2. task'[w] = IF t.pc \in {"tag", "flush"} /\ t.tags = <<>> THEN C!Rest ELSE t
  BY DEF C!Goes
<1>3. raced' = (raced \/ (Tagging(task'[w]) /\ \E o \in Worker \ {w} : Tagging(task[o])))
  BY DEF C!Goes, C!InTags, Tagging
<1>4. ~raced' => ~raced /\ \A o \in Worker \ {w} : ~(Tagging(task'[w]) /\ Tagging(task[o]))
  BY <1>3, Zenon
<1> QED
  BY <1>1, <1>2, <1>4

(* A worker that is at rest is fine. *)
LEMMA RestOK ==
  /\ \A n : TaskOK(C!Rest, n) /\ C!Rest.pc = "rest" /\ ~Tagging(C!Rest)
  /\ \A values, keys, tagged : Behind(C!Rest, values, keys, tagged)
BY DEF C!Rest, TaskOK, Tagging, Behind

(* The tags of a TaggedCache. *)
LEMMA TagSeqs ==
  ASSUME NEW tags \in {<<g>> : g \in Tag} \union SetToSeqs(Tag)
  PROVE  tags \in Seq(Tag)
<1>1. CASE tags \in {<<g>> : g \in Tag}
  <2>1. PICK g \in Tag : tags = <<g>>
    BY <1>1
  <2> QED
    BY <2>1
<1>2. CASE tags \in SetToSeqs(Tag)
  <2>1. Cardinality(Tag) \in Nat
    BY CacheAssumption, FS_CardinalityType
  <2>2. tags \in [1..Cardinality(Tag) -> Tag]
    BY <1>2 DEF SetToSeqs
  <2> QED
    BY <2>1, <2>2
<1> QED
  BY <1>1, <1>2

(* A step that leaves the tags as they are: a value may have been removed, *)
(* or stored anew.                                                         *)
LEMMA TagsAlone ==
  ASSUME CacheInv, NEW w \in Worker, UNCHANGED <<tagged_keys_, under>>,
         DOMAIN task' = Worker, \A o \in Worker \ {w} : task'[o] = task[o], TaskOK(task'[w], puts'),
         puts' \in Nat, puts <= puts', DOMAIN stored' = CacheKey,
         \A k \in CacheKey : stored'[k] \in {stored[k], 0} \/ stored'[k] > puts,
         ~raced' => /\ ~raced /\ \A o \in Worker \ {w} : ~(Tagging(task'[w]) /\ Tagging(task[o]))
                    /\ Behind(task'[w], stored', tagged_keys_, under)
  PROVE  CacheInv'
<1>1. CacheTypes'
  <2>1. \A i : i \in 1..puts => i \in 1..puts'
    BY DEF CacheInv, CacheTypes
  <2>2. ASSUME NEW o \in Worker
        PROVE  TaskOK(task'[o], puts')
    <3>1. CASE o = w
      BY <3>1
    <3>2. CASE o # w
      <4>1. TaskOK(task[o], puts) /\ task'[o] = task[o]
        BY <3>2 DEF CacheInv, CacheTypes
      <4> QED
        BY <2>1, <4>1 DEF TaskOK
    <3> QED
      BY <3>1, <3>2
  <2> QED
    BY <2>2 DEF CacheInv, CacheTypes
<1>2. Held'
  <2>1. \A i : i \in 1..puts => i \in 1..puts'
    BY DEF CacheInv, CacheTypes
  <2> QED
    BY <2>1 DEF CacheInv, Held
<1>3. ASSUME ~raced'
      PROVE  \A x, o \in Worker : x # o => ~(Tagging(task'[x]) /\ Tagging(task'[o]))
  BY <1>3 DEF CacheInv
<1>4. ASSUME ~raced', NEW o \in Worker
      PROVE  Behind(task'[o], stored', tagged_keys_', under')
  <2>1. CASE o = w
    BY <1>4, <2>1
  <2>2. CASE o # w
    <3>1. task'[o] = task[o] /\ Behind(task[o], stored, tagged_keys_, under) /\ TaskOK(task[o], puts)
      BY <1>4, <2>2 DEF CacheInv, CacheTypes
    <3> DEFINE t == task[o] g == Head(t.tags)
    <3>2. SUFFICES ASSUME t.pc = "forget", NEW p \in under[g], NEW i \in 1..Len(tagged_keys_[g]),
                          i < t.key, tagged_keys_[g][i] = p[1]
                   PROVE  stored'[p[1]] # p[2]
      BY <3>1 DEF Behind
    <3>3. g \in Tag
      BY <3>1, <3>2 DEF TaskOK
    <3>4. p[1] \in CacheKey /\ p[2] \in 1..puts
      BY <3>2, <3>3 DEF CacheInv, Held
    <3>5. stored[p[1]] # p[2]
      BY <3>1, <3>2 DEF Behind
    <3> QED
      BY <3>4, <3>5 DEF CacheInv, CacheTypes
  <2> QED
    BY <2>1, <2>2
<1> QED
  BY <1>1, <1>2, <1>3, <1>4 DEF CacheInv

(* A value is stored. *)
LEMMA StoreFacts ==
  ASSUME CacheInv, NEW k \in CacheKey, C!Store(k)
  PROVE  /\ puts' \in Nat /\ puts' = puts + 1 /\ puts <= puts' /\ DOMAIN stored' = CacheKey
         /\ \A j \in CacheKey : stored'[j] \in {stored[j], 0} \/ stored'[j] > puts
<1>1. puts \in Nat /\ DOMAIN stored = CacheKey
  BY DEF CacheInv, CacheTypes
<1>2. puts' = puts + 1 /\ stored' = [stored EXCEPT ![k] = puts + 1]
  BY DEF C!Store
<1> QED
  BY <1>1, <1>2

(* The steps that leave the tags alone. *)
LEMMA CachePut ==
  ASSUME CacheInv, NEW w \in Worker, NEW k \in CacheKey, C!Put(w, k) \/ C!Forget(w, k)
  PROVE  CacheInv' /\ UNCHANGED under
<1>0. /\ task[w] = C!Rest /\ UNCHANGED <<tagged_keys_, task, under, raced>>
      /\ C!Store(k) \/ (stored' = [stored EXCEPT ![k] = 0] /\ UNCHANGED puts)
  BY DEF C!Put, C!Forget
<1>1. puts \in Nat /\ DOMAIN stored = CacheKey /\ DOMAIN task = Worker /\ UNCHANGED <<tagged_keys_, under>>
  BY <1>0 DEF CacheInv, CacheTypes
<1>2. /\ puts' \in Nat /\ puts <= puts' /\ DOMAIN stored' = CacheKey
      /\ \A j \in CacheKey : stored'[j] \in {stored[j], 0} \/ stored'[j] > puts
  BY <1>0, <1>1, StoreFacts
<1>3. /\ DOMAIN task' = Worker /\ \A o \in Worker \ {w} : task'[o] = task[o]
      /\ TaskOK(task'[w], puts') /\ ~Tagging(task'[w]) /\ Behind(task'[w], stored', tagged_keys_, under)
  BY <1>0, <1>1, RestOK
<1>4. ~raced' => /\ ~raced /\ \A o \in Worker \ {w} : ~(Tagging(task'[w]) /\ Tagging(task[o]))
                 /\ Behind(task'[w], stored', tagged_keys_, under)
  BY <1>0, <1>3
<1> QED
  BY <1>1, <1>2, <1>3, <1>4, TagsAlone

(* A worker that goes on, with a task that fits, without touching the tags. *)
LEMMA CacheGoes ==
  ASSUME CacheInv, NEW w \in Worker, NEW t, C!Goes(w, t), UNCHANGED <<tagged_keys_, under>>,
         (t.pc \in {"tag", "flush"} /\ t.tags = <<>>) \/ TaskOK(t, puts'),
         puts' \in Nat, puts <= puts', DOMAIN stored' = CacheKey,
         \A k \in CacheKey : stored'[k] \in {stored[k], 0} \/ stored'[k] > puts,
         ~raced => Behind(t, stored', tagged_keys_, under)
  PROVE  CacheInv' /\ UNCHANGED under
<1>1. DOMAIN task = Worker
  BY DEF CacheInv, CacheTypes
<1>2. /\ DOMAIN task' = Worker /\ \A o \in Worker \ {w} : task'[o] = task[o]
      /\ \/ task'[w] = C!Rest
         \/ task'[w] = t /\ ~(t.pc \in {"tag", "flush"} /\ t.tags = <<>>)
      /\ ~raced' => ~raced /\ \A o \in Worker \ {w} : ~(Tagging(task'[w]) /\ Tagging(task[o]))
  BY <1>1, GoesFacts
<1>3. TaskOK(task'[w], puts')
  BY <1>2, RestOK
<1>4. ~raced => Behind(task'[w], stored', tagged_keys_, under)
  BY <1>2, RestOK
<1>5. ~raced' => /\ ~raced /\ \A o \in Worker \ {w} : ~(Tagging(task'[w]) /\ Tagging(task[o]))
                 /\ Behind(task'[w], stored', tagged_keys_, under)
  BY <1>2, <1>4
<1> QED
  BY <1>2, <1>3, <1>5, TagsAlone

(* remember() finds nothing and computes. *)
LEMMA CacheRemember ==
  ASSUME CacheInv, NEW w \in Worker, NEW k \in CacheKey, C!Remember(w, k)
  PROVE  CacheInv' /\ UNCHANGED under
<1> DEFINE t == [C!Rest EXCEPT !.pc = "compute", !.key = k]
<1>1. C!Goes(w, t) /\ UNCHANGED <<stored, tagged_keys_, puts, under>>
  BY DEF C!Remember
<1>2. TaskOK(t, puts') /\ Behind(t, stored', tagged_keys_, under)
  <2>1. t.pc = "compute" /\ t.key = k /\ DOMAIN t = {"pc", "tags", "key", "from"}
    BY DEF C!Rest
  <2> HIDE DEF t
  <2> QED
    BY <2>1 DEF TaskOK, Behind
<1>3. puts' \in Nat /\ puts <= puts' /\ DOMAIN stored' = CacheKey /\ UNCHANGED <<tagged_keys_, under>>
  BY <1>1 DEF CacheInv, CacheTypes
<1>4. \A j \in CacheKey : stored'[j] \in {stored[j], 0} \/ stored'[j] > puts
  BY <1>1
<1> HIDE DEF t
<1> QED
  BY <1>1, <1>2, <1>3, <1>4, CacheGoes

(* ... and stores what it has computed. *)
LEMMA CacheComputed ==
  ASSUME CacheInv, NEW w \in Worker, C!Computed(w)
  PROVE  CacheInv' /\ UNCHANGED under
<1>1. /\ task[w].pc = "compute" /\ C!Store(task[w].key) /\ C!Goes(w, C!Rest)
      /\ UNCHANGED <<tagged_keys_, under>>
  BY DEF C!Computed
<1>2. task[w].key \in CacheKey
  BY <1>1 DEF CacheInv, CacheTypes, TaskOK
<1>3. /\ puts' \in Nat /\ puts <= puts' /\ DOMAIN stored' = CacheKey
      /\ \A j \in CacheKey : stored'[j] \in {stored[j], 0} \/ stored'[j] > puts
  BY <1>1, <1>2, StoreFacts
<1>4. TaskOK(C!Rest, puts') /\ Behind(C!Rest, stored', tagged_keys_, under)
  BY RestOK
<1> QED
  BY <1>1, <1>3, <1>4, CacheGoes

(* TaggedCache::put() stores its value. *)
LEMMA CacheTaggedPut ==
  ASSUME CacheInv, NEW w \in Worker, NEW k \in CacheKey,
         NEW tags \in {<<g>> : g \in Tag} \union SetToSeqs(Tag), C!TaggedPut(w, k, tags)
  PROVE  CacheInv' /\ UNCHANGED under
<1> DEFINE t == [pc |-> "tag", tags |-> tags, key |-> k, from |-> puts + 1]
<1>1. C!Store(k) /\ C!Goes(w, t) /\ UNCHANGED <<tagged_keys_, under>>
  BY DEF C!TaggedPut
<1>2. /\ puts' \in Nat /\ puts' = puts + 1 /\ puts <= puts' /\ DOMAIN stored' = CacheKey
      /\ \A j \in CacheKey : stored'[j] \in {stored[j], 0} \/ stored'[j] > puts
  BY <1>1, StoreFacts
<1>3. (t.pc \in {"tag", "flush"} /\ t.tags = <<>>) \/ TaskOK(t, puts')
  <2>1. tags \in Seq(Tag) /\ puts \in Nat
    BY TagSeqs DEF CacheInv, CacheTypes
  <2> QED
    BY <1>2, <2>1 DEF TaskOK
<1>4. Behind(t, stored', tagged_keys_, under)
  BY DEF Behind
<1> HIDE DEF t
<1> QED
  BY <1>1, <1>2, <1>3, <1>4, CacheGoes

(* flush() begins. *)
LEMMA CacheFlush ==
  ASSUME CacheInv, NEW w \in Worker,
         NEW tags \in {<<g>> : g \in Tag} \union SetToSeqs(Tag), C!Flush(w, tags)
  PROVE  CacheInv' /\ UNCHANGED under
<1> DEFINE t == [pc |-> "flush", tags |-> tags, key |-> 1, from |-> puts]
<1>1. C!Goes(w, t) /\ UNCHANGED <<stored, tagged_keys_, puts, under>>
  BY DEF C!Flush
<1>2. puts' \in Nat /\ puts <= puts' /\ DOMAIN stored' = CacheKey /\ UNCHANGED <<tagged_keys_, under>>
  BY <1>1 DEF CacheInv, CacheTypes
<1>3. (t.pc \in {"tag", "flush"} /\ t.tags = <<>>) \/ TaskOK(t, puts')
  BY TagSeqs DEF TaskOK
<1>4. Behind(t, stored', tagged_keys_, under)
  BY DEF Behind
<1>5. \A j \in CacheKey : stored'[j] \in {stored[j], 0} \/ stored'[j] > puts
  BY <1>1
<1> HIDE DEF t
<1> QED
  BY <1>1, <1>2, <1>3, <1>4, <1>5, CacheGoes

(* flush() goes to the keys of a tag, or past one that has none. *)
LEMMA CacheFindTag ==
  ASSUME CacheInv, NEW w \in Worker, C!FindTag(w)
  PROVE  CacheInv' /\ UNCHANGED under
<1> DEFINE t == task[w]
           u == IF tagged_keys_[Head(t.tags)] = <<>> THEN [t EXCEPT !.tags = Tail(t.tags)]
                ELSE [t EXCEPT !.pc = "forget", !.key = 1]
<1>1. t.pc = "flush" /\ C!Goes(w, u) /\ UNCHANGED <<stored, tagged_keys_, puts, under>>
  BY DEF C!FindTag
<1>2. puts' \in Nat /\ puts <= puts' /\ DOMAIN stored' = CacheKey /\ UNCHANGED <<tagged_keys_, under>>
  BY <1>1 DEF CacheInv, CacheTypes
<1>3. TaskOK(t, puts)
  BY DEF CacheInv, CacheTypes
<1>4. /\ (u.pc \in {"tag", "flush"} /\ u.tags = <<>>) \/ TaskOK(u, puts')
      /\ Behind(u, stored', tagged_keys_, under)
  <2> DEFINE a == [t EXCEPT !.tags = Tail(t.tags)] b == [t EXCEPT !.pc = "forget", !.key = 1]
  <2>1. /\ (a.pc \in {"tag", "flush"} /\ a.tags = <<>>) \/ TaskOK(a, puts')
        /\ Behind(a, stored', tagged_keys_, under)
    <3>1. /\ a.pc = "flush" /\ DOMAIN a = DOMAIN t /\ a.tags = Tail(t.tags)
          /\ t.tags \in Seq(Tag) /\ t.tags # <<>>
      BY <1>1, <1>3 DEF TaskOK
    <3>2. a.tags \in Seq(Tag)
      BY <3>1
    <3> HIDE DEF a
    <3> QED
      BY <1>3, <3>1, <3>2 DEF TaskOK, Behind
  <2>2. TaskOK(b, puts') /\ Behind(b, stored', tagged_keys_, under)
    <3>1. b.pc = "forget" /\ b.key = 1 /\ DOMAIN b = DOMAIN t /\ b.tags = t.tags
      BY <1>1, <1>3 DEF TaskOK
    <3> HIDE DEF b
    <3>2. TaskOK(b, puts')
      BY <1>1, <1>3, <3>1 DEF TaskOK
    <3>3. Behind(b, stored', tagged_keys_, under)
      BY <3>1 DEF Behind
    <3> QED
      BY <3>2, <3>3
  <2> QED
    BY <2>1, <2>2
<1>5. \A j \in CacheKey : stored'[j] \in {stored[j], 0} \/ stored'[j] > puts
  BY <1>1
<1> HIDE DEF u
<1> QED
  BY <1>1, <1>2, <1>4, <1>5, CacheGoes

(* flush() forgets the next key of the tag. *)
LEMMA CacheForgetNext ==
  ASSUME CacheInv, NEW w \in Worker, C!ForgetNext(w)
  PROVE  CacheInv' /\ UNCHANGED under
<1> DEFINE t == task[w] g == Head(t.tags) k == tagged_keys_[g][t.key]
           u == [t EXCEPT !.key = t.key + 1]
<1>1. /\ t.pc = "forget" /\ ~(t.key > Len(tagged_keys_[g])) /\ stored' = [stored EXCEPT ![k] = 0]
      /\ C!Goes(w, u) /\ UNCHANGED <<tagged_keys_, puts, under>>
  BY DEF C!ForgetNext, C!PastEnd
<1>2. TaskOK(t, puts) /\ DOMAIN stored = CacheKey /\ puts \in Nat
  BY DEF CacheInv, CacheTypes
<1>3. g \in Tag /\ t.key \in Nat /\ t.key > 0
  BY <1>1, <1>2 DEF TaskOK
<1>4. tagged_keys_[g] \in Seq(CacheKey)
  BY <1>3 DEF CacheInv, CacheTypes
<1>5. k \in CacheKey
  BY <1>1, <1>3, <1>4
<1>6. /\ puts' \in Nat /\ puts <= puts' /\ DOMAIN stored' = CacheKey /\ UNCHANGED <<tagged_keys_, under>>
      /\ stored'[k] = 0 /\ \A j \in CacheKey : j # k => stored'[j] = stored[j]
  BY <1>1, <1>2, <1>5
<1>7. \A j \in CacheKey : stored'[j] \in {stored[j], 0} \/ stored'[j] > puts
  BY <1>6
<1>8. u.pc = "forget" /\ u.tags = t.tags /\ u.key = t.key + 1 /\ DOMAIN u = DOMAIN t
  BY <1>1, <1>2 DEF TaskOK
<1> HIDE DEF u
<1>9. TaskOK(u, puts')
  BY <1>1, <1>2, <1>3, <1>8 DEF TaskOK
<1>10. ASSUME ~raced
       PROVE  Behind(u, stored', tagged_keys_, under)
  <2>1. SUFFICES ASSUME NEW p \in under[g], NEW i \in 1..Len(tagged_keys_[g]),
                        i < t.key + 1, tagged_keys_[g][i] = p[1]
                 PROVE  stored'[p[1]] # p[2]
    BY <1>8 DEF Behind
  <2>2. p[1] \in CacheKey /\ p[2] \in 1..puts
    BY <1>3 DEF CacheInv, Held
  <2>3. CASE p[1] = k
    BY <1>6, <2>2, <2>3
  <2>4. CASE p[1] # k
    <3>1. i < t.key
      BY <1>3, <1>4, <2>1, <2>4
    <3>2. stored[p[1]] # p[2]
      BY <1>1, <1>10, <2>1, <3>1 DEF CacheInv, Behind
    <3> QED
      BY <1>6, <2>2, <2>4, <3>2
  <2> QED
    BY <2>3, <2>4
<1> QED
  BY <1>1, <1>6, <1>7, <1>9, <1>10, CacheGoes

(* TaggedCache::put() adds its key to the next tag. *)
LEMMA CacheAddTag ==
  ASSUME CacheInv, ~raced, NEW w \in Worker, C!AddTag(w)
  PROVE  CacheInv' /\ \A g \in Tag : under[g] \subseteq under'[g]
<1> DEFINE t == task[w] g == Head(t.tags) u == [t EXCEPT !.tags = Tail(t.tags)]
<1>1. /\ t.pc = "tag" /\ tagged_keys_' = [tagged_keys_ EXCEPT ![g] = Append(tagged_keys_[g], t.key)]
      /\ under' = [under EXCEPT ![g] = under[g] \union {<<t.key, t.from>>}]
      /\ C!Goes(w, u) /\ UNCHANGED <<stored, puts>>
  BY DEF C!AddTag
<1>2. /\ TaskOK(t, puts) /\ puts \in Nat /\ tagged_keys_ \in [Tag -> Seq(CacheKey)]
      /\ DOMAIN under = Tag /\ DOMAIN task = Worker /\ DOMAIN stored = CacheKey
  BY DEF CacheInv, CacheTypes
<1>3. g \in Tag /\ t.key \in CacheKey /\ t.from \in 1..puts /\ t.tags \in Seq(Tag) /\ t.tags # <<>>
  BY <1>1, <1>2 DEF TaskOK
<1>4. /\ DOMAIN task' = Worker /\ \A o \in Worker \ {w} : task'[o] = task[o]
      /\ task'[w] = C!Rest \/ (task'[w] = u /\ u.tags # <<>>)
  <2>1. u.pc = "tag"
    BY <1>1, <1>2 DEF TaskOK
  <2> HIDE DEF u
  <2> QED
    BY <1>1, <1>2, <2>1, GoesFacts
<1>5. /\ u.pc = "tag" /\ u.tags = Tail(t.tags) /\ u.key = t.key /\ u.from = t.from /\ DOMAIN u = DOMAIN t
  BY <1>1, <1>2 DEF TaskOK
<1> HIDE DEF u
<1>6. Tail(t.tags) \in Seq(Tag)
  BY <1>3
<1>7. TaskOK(task'[w], puts) /\ task'[w].pc # "forget"
  <2>1. CASE task'[w] = C!Rest
    BY <2>1, RestOK
  <2>2. CASE task'[w] = u /\ u.tags # <<>>
    BY <1>2, <1>3, <1>5, <1>6, <2>2 DEF TaskOK
  <2> QED
    BY <1>4, <2>1, <2>2
<1>8. /\ tagged_keys_' \in [Tag -> Seq(CacheKey)] /\ DOMAIN under' = Tag
      /\ tagged_keys_'[g] = Append(tagged_keys_[g], t.key)
      /\ under'[g] = under[g] \union {<<t.key, t.from>>}
      /\ \A h \in Tag : h # g => tagged_keys_'[h] = tagged_keys_[h] /\ under'[h] = under[h]
  BY <1>1, <1>2, <1>3
<1>9. /\ Len(Append(tagged_keys_[g], t.key)) = Len(tagged_keys_[g]) + 1
       /\ Append(tagged_keys_[g], t.key)[Len(tagged_keys_[g]) + 1] = t.key
       /\ \A j \in 1..Len(tagged_keys_[g]) : Append(tagged_keys_[g], t.key)[j] = tagged_keys_[g][j]
  <2>1. tagged_keys_[g] \in Seq(CacheKey)
    BY <1>2, <1>3
  <2> HIDE DEF t, g
  <2> QED
    BY <1>3, <2>1, AppendFacts
<1>10. CacheTypes'
  <2>1. \A o \in Worker : TaskOK(task'[o], puts)
    BY <1>4, <1>7 DEF CacheInv, CacheTypes
  <2> QED
    BY <1>1, <1>2, <1>4, <1>8, <2>1 DEF CacheTypes
<1>11. Held'
  <2> SUFFICES ASSUME NEW h \in Tag, NEW p \in under'[h]
               PROVE  /\ p[1] \in CacheKey /\ p[2] \in 1..puts
                      /\ \E i \in 1..Len(tagged_keys_'[h]) : tagged_keys_'[h][i] = p[1]
    BY <1>1 DEF Held
  <2>1. CASE p \in under[h]
    <3>1. p[1] \in CacheKey /\ p[2] \in 1..puts
      BY <2>1 DEF CacheInv, Held
    <3>2. PICK i \in 1..Len(tagged_keys_[h]) : tagged_keys_[h][i] = p[1]
      BY <2>1 DEF CacheInv, Held
    <3>3. tagged_keys_[h] \in Seq(CacheKey)
      BY <1>2
    <3>4. i \in 1..Len(tagged_keys_'[h]) /\ tagged_keys_'[h][i] = p[1]
      <4>1. CASE h = g
        <5>1. /\ Len(tagged_keys_'[g]) = Len(tagged_keys_[g]) + 1
              /\ \A j \in 1..Len(tagged_keys_[g]) : tagged_keys_'[g][j] = tagged_keys_[g][j]
          BY <1>8, <1>9
        <5> QED
          BY <3>2, <3>3, <4>1, <5>1
      <4>2. CASE h # g
        BY <1>8, <3>2, <4>2
      <4> QED
        BY <4>1, <4>2
    <3> QED
      BY <3>1, <3>4
  <2>2. CASE h = g /\ p = <<t.key, t.from>>
    <3>1. tagged_keys_[g] \in Seq(CacheKey)
      BY <1>2, <1>3
    <3> DEFINE n == Len(tagged_keys_[g]) + 1
    <3>2. n \in 1..Len(tagged_keys_'[g]) /\ tagged_keys_'[g][n] = t.key
      <4>1. /\ Len(tagged_keys_'[g]) = Len(tagged_keys_[g]) + 1
            /\ tagged_keys_'[g][Len(tagged_keys_[g]) + 1] = t.key
        BY <1>8, <1>9
      <4> QED
        BY <3>1, <4>1
    <3>3. p[1] = t.key /\ p[2] = t.from
      BY <2>2
    <3> QED
      BY <1>3, <2>2, <3>2, <3>3
  <2> QED
    BY <1>8, <2>1, <2>2
<1>12. Tagging(task[w]) /\ \A o \in Worker \ {w} : ~Tagging(task'[o])
  <2>1. Tagging(task[w])
    BY <1>1 DEF Tagging
  <2> QED
    BY <1>4, <2>1 DEF CacheInv
<1>13. \A o \in Worker : Behind(task'[o], stored', tagged_keys_', under')
  BY <1>7, <1>12 DEF Behind, Tagging
<1>14. \A o, x \in Worker : o # x => ~(Tagging(task'[o]) /\ Tagging(task'[x]))
  BY <1>12
<1>15. \A h \in Tag : under[h] \subseteq under'[h]
  BY <1>8
<1> QED
  BY <1>10, <1>11, <1>13, <1>14, <1>15 DEF CacheInv

(* flush() erases a tag: all that was stored under it is gone. *)
LEMMA CacheEraseTag ==
  ASSUME CacheInv, ~raced, NEW w \in Worker, C!EraseTag(w)
  PROVE  CacheInv' /\ C!Forgotten
<1> DEFINE t == task[w] g == Head(t.tags) u == [t EXCEPT !.pc = "flush", !.tags = Tail(t.tags)]
<1>1. /\ t.pc = "forget" /\ t.key > Len(tagged_keys_[g])
      /\ tagged_keys_' = [tagged_keys_ EXCEPT ![g] = <<>>] /\ under' = [under EXCEPT ![g] = {}]
      /\ C!Goes(w, u) /\ UNCHANGED <<stored, puts>>
  BY DEF C!EraseTag, C!PastEnd
<1>2. /\ TaskOK(t, puts) /\ puts \in Nat /\ tagged_keys_ \in [Tag -> Seq(CacheKey)]
      /\ DOMAIN under = Tag /\ DOMAIN task = Worker /\ DOMAIN stored = CacheKey
  BY DEF CacheInv, CacheTypes
<1>3. g \in Tag /\ t.key \in Nat /\ t.tags \in Seq(Tag) /\ t.tags # <<>>
  BY <1>1, <1>2 DEF TaskOK
<1>4. u.pc = "flush" /\ u.tags = Tail(t.tags) /\ DOMAIN u = DOMAIN t
  BY <1>1, <1>2 DEF TaskOK
<1> HIDE DEF u
<1>5. /\ DOMAIN task' = Worker /\ \A o \in Worker \ {w} : task'[o] = task[o]
      /\ task'[w] = C!Rest \/ (task'[w] = u /\ u.tags # <<>>)
  BY <1>1, <1>2, <1>4, GoesFacts
<1>6. Tail(t.tags) \in Seq(Tag)
  BY <1>3
<1>7. TaskOK(task'[w], puts) /\ task'[w].pc # "forget"
  <2>1. CASE task'[w] = C!Rest
    BY <2>1, RestOK
  <2>2. CASE task'[w] = u /\ u.tags # <<>>
    BY <1>2, <1>4, <1>6, <2>2 DEF TaskOK
  <2> QED
    BY <1>5, <2>1, <2>2
<1>8. /\ tagged_keys_' \in [Tag -> Seq(CacheKey)] /\ DOMAIN under' = Tag
      /\ under'[g] = {}
      /\ \A h \in Tag : h # g => tagged_keys_'[h] = tagged_keys_[h] /\ under'[h] = under[h]
  BY <1>1, <1>2, <1>3
<1>9. CacheTypes'
  <2>1. \A o \in Worker : TaskOK(task'[o], puts)
    BY <1>5, <1>7 DEF CacheInv, CacheTypes
  <2> QED
    BY <1>1, <1>2, <1>5, <1>8, <2>1 DEF CacheTypes
<1>10. Held'
  BY <1>1, <1>8 DEF CacheInv, Held
<1>11. \A o \in Worker \ {w} : ~Tagging(task'[o])
  <2>1. Tagging(task[w])
    BY <1>1 DEF Tagging
  <2> QED
    BY <1>5, <2>1 DEF CacheInv
<1>12. \A o \in Worker : Behind(task'[o], stored', tagged_keys_', under')
  BY <1>7, <1>11 DEF Behind, Tagging
<1>13. \A o, x \in Worker : o # x => ~(Tagging(task'[o]) /\ Tagging(task'[x]))
  BY <1>11
<1>14. C!Forgotten
  <2> SUFFICES ASSUME NEW h \in Tag, under'[h] = {}, NEW p \in under[h]
               PROVE  stored'[p[1]] # p[2]
    BY DEF C!Forgotten
  <2>1. h = g
    BY <1>8
  <2>2. PICK i \in 1..Len(tagged_keys_[g]) : tagged_keys_[g][i] = p[1]
    BY <2>1 DEF CacheInv, Held
  <2>3. i < t.key
    BY <1>1, <1>2, <1>3, <2>2
  <2>4. Behind(t, stored, tagged_keys_, under)
    BY DEF CacheInv
  <2> QED
    BY <1>1, <2>1, <2>2, <2>3, <2>4 DEF Behind
<1> QED
  BY <1>9, <1>10, <1>12, <1>13, <1>14 DEF CacheInv

(* The invariant is kept, and what is flushed is gone. *)
LEMMA StepCache ==
  ASSUME CacheInv, [C!CacheNext]_cache
  PROVE  CacheInv' /\ C!Forgotten
<1>1. ASSUME \A g \in Tag : under[g] \subseteq under'[g]
      PROVE  C!Forgotten
  BY <1>1 DEF C!Forgotten
<1>2. CASE UNCHANGED cache
  <2>1. UNCHANGED <<stored, tagged_keys_, task, puts, under, raced>>
    BY <1>2 DEF cache
  <2>2. CacheInv'
    BY <2>1 DEF CacheInv, CacheTypes, Held
  <2> QED
    BY <1>1, <2>1, <2>2
<1>3. ASSUME ~raced, NEW w \in Worker, C!CacheStep(w)
      PROVE  CacheInv' /\ C!Forgotten
  <2>1. CASE \E k \in CacheKey : C!Put(w, k) \/ C!Forget(w, k) \/ C!Remember(w, k)
    BY <1>1, <2>1, CachePut, CacheRemember
  <2>2. CASE \E tags \in {<<g>> : g \in Tag} \union SetToSeqs(Tag) :
               C!Flush(w, tags) \/ \E k \in CacheKey : C!TaggedPut(w, k, tags)
    BY <1>1, <2>2, CacheFlush, CacheTaggedPut
  <2>3. CASE C!Computed(w) \/ C!FindTag(w) \/ C!ForgetNext(w)
    BY <1>1, <2>3, CacheComputed, CacheFindTag, CacheForgetNext
  <2>4. CASE C!AddTag(w)
    BY <1>1, <1>3, <2>4, CacheAddTag
  <2>5. CASE C!EraseTag(w)
    BY <1>3, <2>5, CacheEraseTag
  <2>6. C!SetToSeqs(Tag) = SetToSeqs(Tag)
    <3>1. C!Cardinality(Tag) = Cardinality(Tag)
      BY DEF C!Cardinality, Cardinality
    <3> QED
      BY <3>1 DEF C!SetToSeqs, SetToSeqs
  <2> QED
    BY <1>3, <2>1, <2>2, <2>3, <2>4, <2>5, <2>6 DEF C!CacheStep
<1> QED
  BY <1>2, <1>3 DEF C!CacheNext

(* "flush() forgets every key stored under any of those tags": when it is  *)
(* done with a tag, nothing that was stored under it is left, whatever     *)
(* puts, forgets and remembers ran meanwhile, as long as no two workers    *)
(* are in tagged_keys_ at the same time.                                   *)
THEOREM FlushIsComplete == C!CacheInit /\ [][C!CacheNext]_cache => FlushForgets
<1>1. C!CacheInit => CacheInv
  <2> SUFFICES ASSUME C!CacheInit PROVE CacheInv
    OBVIOUS
  <2>1. CacheTypes
    <3>1. \A w \in Worker : TaskOK(task[w], puts)
      BY RestOK DEF C!CacheInit
    <3> QED
      BY <3>1 DEF C!CacheInit, CacheTypes
  <2>2. Held
    BY DEF C!CacheInit, Held
  <2>3. \A w \in Worker : ~Tagging(task[w]) /\ Behind(task[w], stored, tagged_keys_, under)
    BY RestOK DEF C!CacheInit
  <2> QED
    BY <2>1, <2>2, <2>3 DEF CacheInv
<1>2. CacheInv /\ [C!CacheNext]_cache => CacheInv'
  BY StepCache
<1> DEFINE A == ~raced' => C!Forgotten
<1>3. CacheInv /\ [C!CacheNext]_cache => [A]_cache
  BY StepCache
<1> HIDE DEF A
<1>4. C!CacheInit /\ [][C!CacheNext]_cache => [][A]_cache
  BY <1>1, <1>2, <1>3, PTL
<1> QED
  BY <1>4 DEF FlushForgets, A

-----------------------------------------------------------------------------
(* Routing.                                                                *)

(* Induction up to n. *)
LEMMA UpTo ==
  ASSUME NEW n \in Nat, NEW G, 0 \in G, \A i \in 1..n : i - 1 \in G => i \in G
  PROVE  \A i \in 0..n : i \in G
<1> DEFINE Bad == {i \in 0..n : i \notin G}
<1> SUFFICES ASSUME Bad # {} PROVE FALSE
  OBVIOUS
<1>1. PICK i \in Bad : \A j \in Bad : i <= j
  <2>1. Bad \in SUBSET Nat
    OBVIOUS
  <2> HIDE DEF Bad
  <2> QED
    BY <2>1, LeastNatural
<1>2. i \in 1..n /\ i - 1 \in 0..n /\ i - 1 < i
  BY <1>1
<1>3. i - 1 \in G
  BY <1>1, <1>2
<1> QED
  BY <1>1, <1>2, <1>3

(* f is the values that a loop has after each of its n steps. *)
RunOf(f, n, X, base, step) ==
  f \in [0..n -> X] /\ f[0] = base /\ \A i \in 1..n : f[i] = step[i][f[i - 1]]

(* A loop that makes its next value of the last one can be run. *)
LEMMA LoopRuns ==
  ASSUME NEW n \in Nat, NEW X, NEW base \in X, NEW step \in [1..n -> [X -> X]]
  PROVE  \E f : RunOf(f, n, X, base, step)
<1> DEFINE Runs(m, f) == f[0] = base /\ \A i \in 1..m : f[i] = step[i][f[i - 1]]
           G == {m \in 0..n : \E f \in [0..m -> X] : Runs(m, f)}
<1>1. 0 \in G
  <2> DEFINE f == [i \in 0..0 |-> base]
  <2>1. f \in [0..0 -> X] /\ Runs(0, f)
    OBVIOUS
  <2>2. 0 \in 0..n
    OBVIOUS
  <2> HIDE DEF f, Runs
  <2> QED
    BY <2>1, <2>2
<1>2. ASSUME NEW m \in 1..n, m - 1 \in G
      PROVE  m \in G
  <2>1. PICK f \in [0..(m - 1) -> X] : Runs(m - 1, f)
    BY <1>2
  <2>2. m - 1 \in 0..(m - 1) /\ m \in 0..n
    OBVIOUS
  <2>3. f[m - 1] \in X
    BY <2>2
  <2>4. step[m] \in [X -> X]
    OBVIOUS
  <2>5. step[m][f[m - 1]] \in X
    BY <2>3, <2>4
  <2> DEFINE new == step[m][f[m - 1]]
             g == [i \in 0..m |-> IF i = m THEN new ELSE f[i]]
  <2>6. g \in [0..m -> X]
    <3>1. \A i \in 0..m : i # m => i \in 0..(m - 1)
      OBVIOUS
    <3> QED
      BY <2>5, <3>1
  <2>7. g[0] = base
    BY <2>1
  <2>8. ASSUME NEW i \in 1..m
        PROVE  g[i] = step[i][g[i - 1]]
    <3>0. i - 1 \in 0..m /\ i - 1 # m /\ i \in 0..m
      OBVIOUS
    <3>1. g[i - 1] = f[i - 1]
      BY <3>0
    <3>2. CASE i = m
      BY <3>0, <3>1, <3>2
    <3>3. CASE i # m
      <4>1. i \in 1..(m - 1) /\ g[i] = f[i]
        BY <3>0, <3>3
      <4> QED
        BY <2>1, <3>1, <4>1
    <3> QED
      BY <3>2, <3>3
  <2> QED
    BY <2>2, <2>6, <2>7, <2>8
<1>3. n \in G
  <2> HIDE DEF G
  <2>1. \A i \in 0..n : i \in G
    BY <1>1, <1>2, UpTo
  <2> QED
    BY <2>1
<1> QED
  BY <1>3 DEF RunOf

(* Router::add(): the places of the parameters. *)
LEMMA PlacesFacts ==
  ASSUME NEW uri, Len(uri) \in Nat
  PROVE  /\ ParamPlaces(uri) \in Seq(1..Len(uri))
         /\ \A g \in 1..Len(ParamPlaces(uri)) : uri[ParamPlaces(uri)[g]].kind # "literal"
         /\ \A i \in 1..Len(uri) : uri[i].kind # "literal" =>
              \E g \in 1..Len(ParamPlaces(uri)) : ParamPlaces(uri)[g] = i
<1> DEFINE n == Len(uri) X == Seq(1..n)
           Literal(i) == uri[i].kind = "literal"
           Is(f) == f = [i \in 0..n |-> IF i = 0 THEN <<>>
                                        ELSE IF Literal(i) THEN f[i - 1] ELSE Append(f[i - 1], i)]
           names == CHOOSE f : Is(f)
           step == [i \in 1..n |-> [s \in X |-> IF Literal(i) THEN s ELSE Append(s, i)]]
<1>1. ParamPlaces(uri) = names[n]
  BY DEF ParamPlaces
<1> HIDE DEF Literal
<1>2. <<>> \in X /\ step \in [1..n -> [X -> X]] /\ n \in Nat
  <2>1. ASSUME NEW i \in 1..n, NEW s \in X
        PROVE  (IF Literal(i) THEN s ELSE Append(s, i)) \in X
    BY AppendFacts
  <2>2. <<>> \in X
    OBVIOUS
  <2> HIDE DEF X
  <2> QED
    BY <2>1, <2>2
<1>3. PICK w : w \in [0..n -> X] /\ w[0] = <<>> /\ \A i \in 1..n : w[i] = step[i][w[i - 1]]
  <2> HIDE DEF step, X, n
  <2>1. \E w : RunOf(w, n, X, <<>>, step)
    BY <1>2, LoopRuns
  <2> QED
    BY <2>1 DEF RunOf
<1>4. \A i \in 1..n : w[i] = IF Literal(i) THEN w[i - 1] ELSE Append(w[i - 1], i)
  <2> SUFFICES ASSUME NEW i \in 1..n PROVE w[i] = IF Literal(i) THEN w[i - 1] ELSE Append(w[i - 1], i)
    OBVIOUS
  <2>1. w[i - 1] \in X
    <3> HIDE DEF X
    <3> QED
      BY <1>3
  <2>3. w[i] = step[i][w[i - 1]]
    BY <1>3
  <2> HIDE DEF X
  <2> QED
    BY <2>1, <2>3
<1>5. Is(w)
  <2>1. w = [i \in 0..n |-> w[i]]
    <3> HIDE DEF X
    <3> QED
      BY <1>3
  <2>2. \A i \in 0..n : w[i] = IF i = 0 THEN <<>>
                               ELSE IF Literal(i) THEN w[i - 1] ELSE Append(w[i - 1], i)
    <3>1. \A i \in 0..n : i = 0 \/ i \in 1..n
      OBVIOUS
    <3> QED
      BY <1>3, <1>4, <3>1, Zenon
  <2> QED
    BY <2>1, <2>2, Zenon
<1>6. Is(names)
  <2> HIDE DEF Is
  <2> QED
    BY <1>5
<1> HIDE DEF names
<1>7. names[0] = <<>>
  BY <1>6
<1>8. \A i \in 1..n : names[i] = IF Literal(i) THEN names[i - 1] ELSE Append(names[i - 1], i)
  <2>1. \A i \in 1..n : i \in 0..n /\ i # 0
    OBVIOUS
  <2> QED
    BY <2>1, <1>6, Zenon
<1> HIDE DEF Is, step
<1> DEFINE Good(i, s) == /\ s \in X /\ \A g \in 1..Len(s) : ~Literal(s[g])
                         /\ \A j \in 1..i : ~Literal(j) => \E g \in 1..Len(s) : s[g] = j
           G == {i \in 0..n : Good(i, names[i])}
<1>9. 0 \in G
  <2>1. Good(0, <<>>) /\ 0 \in 0..n
    OBVIOUS
  <2> HIDE DEF Good
  <2> QED
    BY <1>7, <2>1
<1>10. ASSUME NEW i \in 1..n, i - 1 \in G
       PROVE  i \in G
  <2> DEFINE s == names[i - 1]
  <2>1. Good(i - 1, s)
    BY <1>10
  <2>2. CASE Literal(i)
    <3>1. names[i] = s
      BY <1>8, <2>2
    <3>2. \A j \in 1..i : ~Literal(j) => j \in 1..(i - 1)
      BY <2>2
    <3> HIDE DEF s
    <3>3. Good(i, s) /\ i \in 0..n
      <4> HIDE DEF X
      <4> QED
        BY <2>1, <3>2
    <3> HIDE DEF Good
    <3> QED
      BY <3>1, <3>3
  <2>3. CASE ~Literal(i)
    <3>1. names[i] = Append(s, i)
      BY <1>8, <2>3
    <3> HIDE DEF s
    <3> DEFINE t == Append(s, i)
    <3>2. /\ t \in X /\ Len(t) = Len(s) + 1 /\ Len(s) \in Nat
          /\ t[Len(s) + 1] = i /\ \A g \in 1..Len(s) : t[g] = s[g]
      BY <2>1, AppendFacts
    <3> HIDE DEF t
    <3>3. \A g \in 1..Len(t) : ~Literal(t[g])
      <4>1. \A g \in 1..Len(t) : g = Len(s) + 1 \/ g \in 1..Len(s)
        BY <3>2
      <4>2. \A g \in 1..Len(s) : ~Literal(s[g])
        BY <2>1
      <4> QED
        BY <2>3, <3>2, <4>1, <4>2
    <3>4. \A j \in 1..i : ~Literal(j) => \E g \in 1..Len(t) : t[g] = j
      <4> SUFFICES ASSUME NEW j \in 1..i, ~Literal(j) PROVE \E g \in 1..Len(t) : t[g] = j
        OBVIOUS
      <4>1. CASE j = i
        BY <3>2, <4>1
      <4>2. CASE j # i
        <5>1. j \in 1..(i - 1)
          BY <4>2
        <5>2. PICK g \in 1..Len(s) : s[g] = j
          BY <2>1, <5>1
        <5>3. g \in 1..Len(t) /\ t[g] = j
          BY <3>2, <5>2
        <5> QED
          BY <5>3
      <4> QED
        BY <4>1, <4>2
    <3>5. Good(i, t) /\ i \in 0..n
      <4> HIDE DEF X
      <4> QED
        BY <3>2, <3>3, <3>4
    <3>6. names[i] = t
      BY <3>1 DEF t
    <3> HIDE DEF Good
    <3> QED
      BY <3>5, <3>6
  <2> QED
    BY <2>2, <2>3
<1>11. n \in G
  <2> HIDE DEF G
  <2>1. \A i \in 0..n : i \in G
    BY <1>9, <1>10, UpTo
  <2> QED
    BY <2>1
<1> QED
  BY <1>1, <1>11 DEF Literal

(* What a loop's recursive function computes of no more than n numbers has *)
(* a greatest one.                                                         *)
LEMMA MaxFacts ==
  ASSUME NEW n \in Nat, NEW T \in SUBSET (0..n), T # {}
  PROVE  Max(T) \in T /\ \A y \in T : Max(T) >= y
<1> DEFINE D == {n - x : x \in T}
<1>1. D \in SUBSET Nat /\ D # {}
  <2>1. \A x \in T : x \in 0..n /\ n - x \in Nat
    OBVIOUS
  <2>2. \A d \in D : d \in Nat
    BY <2>1
  <2>3. PICK x : x \in T
    OBVIOUS
  <2>4. n - x \in D
    BY <2>3
  <2> QED
    BY <2>2, <2>4, Zenon
<1>2. PICK d \in D : \A y \in D : d <= y
  <2> HIDE DEF D
  <2> QED
    BY <1>1, LeastNatural
<1>3. PICK x \in T : d = n - x
  BY <1>2
<1>4. ASSUME NEW y \in T
      PROVE  x >= y
  <2>1. n - y \in D
    OBVIOUS
  <2>2. n - x <= n - y
    BY <1>2, <1>3, <2>1, Zenon
  <2>3. x \in 0..n /\ y \in 0..n
    OBVIOUS
  <2> HIDE DEF D
  <2> QED
    BY <2>2, <2>3
<1> QED
  BY <1>4 DEF Max

(* Two pieces of a path, one behind the other. *)
LEMMA CutJoins ==
  ASSUME NEW S, NEW path \in Seq(S), NEW b \in 0..Len(path), NEW a \in 0..b
  PROVE  SubSeq(path, 1, a) \o SubSeq(path, a + 1, b) = SubSeq(path, 1, b)
<1> DEFINE x == SubSeq(path, 1, a) y == SubSeq(path, a + 1, b) z == SubSeq(path, 1, b)
<1>0. Len(path) \in Nat
  OBVIOUS
<1>1. /\ x \in Seq(S) /\ Len(x) = a /\ \A i \in 1..a : x[i] = path[i]
      /\ y \in Seq(S) /\ Len(y) = b - a /\ \A i \in 1..(b - a) : y[i] = path[a + i]
      /\ z \in Seq(S) /\ Len(z) = b /\ \A i \in 1..b : z[i] = path[i]
  BY <1>0
<1> HIDE DEF x, y, z
<1>2. x \o y \in Seq(S) /\ Len(x \o y) = b
  BY <1>1
<1>3. ASSUME NEW i \in 1..b
      PROVE  (x \o y)[i] = z[i]
  <2>1. CASE i \in 1..a
    BY <1>1, <2>1
  <2>2. CASE i \notin 1..a
    <3>1. i - a \in 1..(b - a) /\ a + (i - a) = i
      BY <2>2
    <3>2. (x \o y)[i] = y[i - a]
      BY <1>1, <2>2, <3>1
    <3> QED
      BY <1>1, <3>1, <3>2
  <2> QED
    BY <2>1, <2>2
<1>4. x \o y = z
  BY <1>1, <1>2, <1>3, SeqEqual
<1> QED
  BY <1>4 DEF x, y, z

(* n pieces of a path: the i-th ends at e[i]. *)
Cut(seqs, path, n, e) ==
  /\ e \in [0..n -> 0..Len(path)] /\ e[0] = 0 /\ \A i \in 1..n : e[i - 1] <= e[i]
  /\ Len(seqs) = n /\ \A i \in 1..n : seqs[i] = SubSeq(path, e[i - 1] + 1, e[i])

(* A path that was cut at some places is put together again. *)
LEMMA FlattenCut ==
  ASSUME NEW S, NEW path \in Seq(S), NEW n \in Nat, n > 0, NEW e, NEW seqs, Cut(seqs, path, n, e)
  PROVE  FlattenSeq(seqs) = SubSeq(path, 1, e[n])
<1> USE DEF Cut
<1> DEFINE Is(f) == f = [i \in 1..n |-> IF i = 1 THEN seqs[i] ELSE f[i - 1] \o seqs[i]]
           flatten == CHOOSE f : Is(f)
           w == [i \in 1..n |-> SubSeq(path, 1, e[i])]
<1>0. Len(path) \in Nat /\ (\A i \in 0..n : e[i] \in 0..Len(path)) /\ \A i \in 1..n : e[i - 1] <= e[i]
  OBVIOUS
<1>1. FlattenSeq(seqs) = flatten[n]
  BY DEF FlattenSeq
<1>2. \A i \in 1..n : w[i] = IF i = 1 THEN seqs[i] ELSE w[i - 1] \o seqs[i]
  <2> SUFFICES ASSUME NEW i \in 1..n PROVE w[i] = IF i = 1 THEN seqs[i] ELSE w[i - 1] \o seqs[i]
    OBVIOUS
  <2>1. seqs[i] = SubSeq(path, e[i - 1] + 1, e[i]) /\ w[i] = SubSeq(path, 1, e[i])
    OBVIOUS
  <2>2. CASE i = 1
    <3>1. i - 1 = 0
      BY <2>2
    <3>2. e[i - 1] + 1 = 1
      BY <3>1
    <3> QED
      BY <2>1, <2>2, <3>2, Zenon
  <2>3. CASE i # 1
    <3>0. i - 1 \in 1..n
      BY <2>3
    <3>1. w[i - 1] = SubSeq(path, 1, e[i - 1])
      BY <3>0, Zenon
    <3>2. e[i - 1] \in 0..e[i] /\ e[i] \in 0..Len(path)
      <4>1. i - 1 \in 0..n /\ i \in 0..n /\ i \in 1..n
        BY <3>0
      <4>2. e[i - 1] <= e[i] /\ e[i - 1] \in 0..Len(path) /\ e[i] \in 0..Len(path)
        BY <1>0, <4>1, Zenon
      <4> QED
        BY <1>0, <4>2
    <3>3. SubSeq(path, 1, e[i - 1]) \o SubSeq(path, e[i - 1] + 1, e[i]) = SubSeq(path, 1, e[i])
      BY <3>2, CutJoins
    <3> QED
      BY <2>1, <2>3, <3>1, <3>3
  <2> QED
    BY <2>2, <2>3
<1>3. Is(w)
  <2>1. w = [i \in 1..n |-> w[i]]
    OBVIOUS
  <2> HIDE DEF w
  <2> QED
    BY <1>2, <2>1
<1>4. Is(flatten)
  <2> HIDE DEF Is
  <2> QED
    BY <1>3
<1> HIDE DEF flatten
<1>5. \A i \in 1..n : flatten[i] = IF i = 1 THEN seqs[i] ELSE flatten[i - 1] \o seqs[i]
  BY <1>4, Zenon
<1> HIDE DEF Is, w
<1> DEFINE G == {0} \union {i \in 1..n : flatten[i] = w[i]}
<1>6. ASSUME NEW i \in 1..n, i - 1 \in G
      PROVE  i \in G
  <2>1. CASE i = 1
    <3>1. flatten[i] = seqs[i] /\ w[i] = seqs[i]
      BY <1>2, <1>5, <2>1
    <3> QED
      BY <3>1
  <2>2. CASE i # 1
    <3>1. flatten[i - 1] = w[i - 1]
      BY <1>6, <2>2
    <3>2. flatten[i] = flatten[i - 1] \o seqs[i] /\ w[i] = w[i - 1] \o seqs[i]
      BY <1>2, <1>5, <2>2
    <3> QED
      BY <3>1, <3>2
  <2> QED
    BY <2>1, <2>2
<1>7. n \in G
  <2>0. 0 \in G
    OBVIOUS
  <2> HIDE DEF G
  <2>1. \A i \in 0..n : i \in G
    BY <1>6, <2>0, UpTo
  <2> QED
    BY <2>1
<1>8. flatten[n] = w[n]
  <2> HIDE DEF Cut
  <2>1. n \in {i \in 1..n : flatten[i] = w[i]}
    BY <1>7
  <2> QED
    BY <2>1, Zenon
<1> QED
  BY <1>1, <1>8, SMTT(60) DEF w

(* Each parameter of a uri has the part of the path at its place. *)
LEMMA ParamAt ==
  ASSUME NEW S, NEW path \in Seq(S), NEW uri, Len(uri) \in Nat,
         \A i, j \in 1..Len(uri) : /\ uri[i].kind # "literal" /\ uri[j].kind # "literal"
                                   /\ uri[i].text = uri[j].text => i = j,
         NEW i \in 1..Len(uri), uri[i].kind # "literal", Len(path) >= Len(uri)
  PROVE  Params(uri, path)[uri[i].text] =
           IF uri[i].kind = "name" THEN <<path[i]>> ELSE SubSeq(path, i, Len(path))
<1> DEFINE places == ParamPlaces(uri) n == Len(places)
           Captured(j) == IF uri[j].kind = "name" THEN <<path[j]>> ELSE SubSeq(path, j, Len(path))
           caught == [g \in 1..n |-> Captured(places[g])]
           name == uri[i].text
           Named == {g \in 1..n : uri[places[g]].text = name}
<1>1. /\ places \in Seq(1..Len(uri)) /\ \A g \in 1..n : uri[places[g]].kind # "literal"
      /\ \E g \in 1..n : places[g] = i
  BY PlacesFacts
<1>2. n \in Nat /\ \A g \in 1..n : places[g] \in 1..Len(uri)
  BY <1>1
<1> HIDE DEF places
<1>3. Named # {} /\ Named \in SUBSET (0..n)
  BY <1>1, <1>2
<1>4. Max(Named) \in Named
  <2> HIDE DEF Named
  <2> QED
    BY <1>2, <1>3, MaxFacts
<1>5. Max(Named) \in 1..n /\ places[Max(Named)] = i
  BY <1>1, <1>2, <1>4
<1>6. name \in {uri[places[g]].text : g \in 1..n}
  BY <1>1
<1>7. Params(uri, path)[name] = Groups(uri, path)[Max(Named) + 1]
  BY <1>6 DEF Params, places
<1>8. Groups(uri, path) = <<path>> \o caught
  BY DEF Groups, places
<1> HIDE DEF Named, name
<1> DEFINE m == Max(Named)
<1>9. caught \in Seq(Seq(S)) /\ Len(caught) = n
  <2>1. ASSUME NEW j \in 1..Len(uri)
        PROVE  Captured(j) \in Seq(S)
    <3>1. Len(path) \in Nat /\ j \in 1..Len(path) /\ path[j] \in S
      OBVIOUS
    <3> QED
      BY <3>1
  <2>2. caught \in [1..n -> Seq(S)]
    <3> HIDE DEF Captured
    <3> QED
      BY <1>2, <2>1
  <2> HIDE DEF caught
  <2> QED
    BY <1>2, <2>2
<1>10. (<<path>> \o caught)[m + 1] = caught[m]
  <2>1. m \in 1..n
    BY <1>5
  <2>2. <<path>> \in Seq(Seq(S)) /\ Len(<<path>>) = 1
    OBVIOUS
  <2> HIDE DEF caught, m, n
  <2> QED
    BY <1>2, <1>9, <2>1, <2>2
<1>11. caught[m] = Captured(i)
  BY <1>5
<1> QED
  BY <1>7, <1>8, <1>10, <1>11 DEF name

(* No name occurs twice in a uri. *)
NamesOnce(uri) ==
  \A i, j \in 1..Len(uri) : /\ uri[i].kind # "literal" /\ uri[j].kind # "literal"
                            /\ uri[i].text = uri[j].text => i = j

(* What std::regex_match() captured is the path, cut into pieces. *)
LEMMA PathBack ==
  ASSUME NEW S, NEW path \in Seq(S), NEW P, NEW uri \in Seq(P), NamesOnce(uri), Matches(uri, path),
         \A i \in 1..Len(uri) : /\ uri[i].kind \in {"literal", "name", "catch_all"}
                                /\ uri[i].kind = "catch_all" => i = Len(uri)
  PROVE  FlattenSeq([i \in 1..Len(uri) |->
           IF uri[i].kind = "literal" THEN <<uri[i].text>> ELSE Params(uri, path)[uri[i].text]]) = path
<1> DEFINE n == Len(uri) m == Len(path)
           seqs == [i \in 1..n |->
             IF uri[i].kind = "literal" THEN <<uri[i].text>> ELSE Params(uri, path)[uri[i].text]]
           e == [i \in 0..n |-> IF i = n THEN m ELSE i]
<1>1. /\ n \in Nat /\ m \in Nat /\ m >= n
      /\ (n > 0 => uri[n].kind = "catch_all" \/ m = n) /\ (n = 0 => m = 0)
  <2>1. n > 0 => uri # <<>> /\ Last(uri) = uri[n]
    BY DEF Last
  <2>2. n = 0 => uri = <<>>
    OBVIOUS
  <2>3. n \in Nat /\ m \in Nat
    OBVIOUS
  <2>4. CASE EndsInCatchAll(uri)
    <3>1. n > 0 /\ uri[n].kind = "catch_all" /\ m >= n
      <4>1. m >= n
        BY <2>4 DEF Matches
      <4>2. uri # <<>> /\ Last(uri).kind = "catch_all"
        BY <2>4 DEF EndsInCatchAll
      <4>3. n > 0
        BY <2>2, <2>3, <4>2
      <4> QED
        BY <2>1, <4>1, <4>2, <4>3
    <3> QED
      BY <2>3, <3>1
  <2>5. CASE ~EndsInCatchAll(uri)
    <3>1. m = n
      BY <2>5 DEF Matches
    <3> QED
      BY <2>3, <3>1
  <2> QED
    BY <2>4, <2>5
<1>2. CASE n = 0
  <2>1. path = <<>> /\ seqs = <<>>
    BY <1>1, <1>2
  <2>2. FlattenSeq(<<>>) = <<>>
    BY DEF FlattenSeq
  <2> QED
    BY <2>1, <2>2
<1>3. CASE n > 0
  <2>1. ASSUME NEW i \in 1..m
        PROVE  SubSeq(path, i, i) = <<path[i]>>
    <3>1. /\ SubSeq(path, i, i) \in Seq(S) /\ <<path[i]>> \in Seq(S)
          /\ Len(SubSeq(path, i, i)) = 1 /\ Len(<<path[i]>>) = 1
          /\ \A j \in 1..1 : SubSeq(path, i, i)[j] = <<path[i]>>[j]
      BY <1>1
    <3> QED
      BY <3>1, SeqEqual
  <2>2. e \in [0..n -> 0..m] /\ e[0] = 0 /\ e[n] = m
    BY <1>1, <1>3
  <2>3. ASSUME NEW i \in 1..n
        PROVE  e[i - 1] = i - 1 /\ e[i] = IF i = n THEN m ELSE i
    OBVIOUS
  <2>4. \A i \in 1..n : e[i - 1] <= e[i]
    BY <1>1, <2>3
  <2> HIDE DEF e
  <2>5. ASSUME NEW i \in 1..n
        PROVE  seqs[i] = SubSeq(path, e[i - 1] + 1, e[i])
    <3>1. e[i - 1] + 1 = i /\ i \in 1..m
      BY <1>1, <2>3
    <3>2. CASE uri[i].kind = "literal"
      <4>1. seqs[i] = <<path[i]>>
        BY <3>2 DEF Matches
      <4>2. e[i] = i
        BY <1>1, <2>3, <3>2
      <4> QED
        BY <2>1, <3>1, <4>1, <4>2
    <3>3. CASE uri[i].kind # "literal"
      <4>1. seqs[i] = IF uri[i].kind = "name" THEN <<path[i]>> ELSE SubSeq(path, i, m)
        <5>1. seqs[i] = Params(uri, path)[uri[i].text]
          BY <3>3
        <5>2. Params(uri, path)[uri[i].text] =
                IF uri[i].kind = "name" THEN <<path[i]>> ELSE SubSeq(path, i, m)
          BY <1>1, <3>3, ParamAt DEF NamesOnce
        <5> QED
          BY <5>1, <5>2
      <4>2. CASE uri[i].kind = "name"
        <5>1. e[i] = i
          BY <1>1, <2>3, <4>2
        <5> QED
          BY <2>1, <3>1, <4>1, <4>2, <5>1
      <4>3. CASE uri[i].kind = "catch_all"
        <5>1. e[i] = m
          BY <2>3, <4>3
        <5> QED
          BY <3>1, <4>1, <4>3, <5>1
      <4> QED
        BY <3>3, <4>2, <4>3
    <3> QED
      BY <3>2, <3>3
  <2>6. Len(seqs) = n
    BY <1>1
  <2> HIDE DEF seqs
  <2>7. FlattenSeq(seqs) = SubSeq(path, 1, e[n])
    <3>1. \A i \in 1..n : seqs[i] = SubSeq(path, e[i - 1] + 1, e[i])
      BY <2>5
    <3>2. Cut(seqs, path, n, e)
      BY <2>2, <2>4, <2>6, <3>1 DEF Cut
    <3> QED
      BY <1>1, <1>3, <3>2, FlattenCut
  <2>8. SubSeq(path, 1, m) = path
    BY <1>1, SeqEqual
  <2> QED
    BY <2>2, <2>7, <2>8 DEF seqs
<1> QED
  BY <1>1, <1>2, <1>3

(* The methods that a path has. *)
Verbs(path) == {Routes[k].method : k \in {j \in 1..Len(Routes) : Matches(Routes[j].uri, path)}}

(* allowed_methods() lists them, each once. *)
LEMMA AllowedFacts ==
  ASSUME NEW path
  PROVE  /\ ToSet(allowed_methods(path)) = Verbs(path)
         /\ Len(allowed_methods(path)) = Cardinality(Verbs(path))
         /\ allowed_methods(path) = <<>> <=> Verbs(path) = {}
<1> DEFINE n == Len(Routes) M(k) == Routes[k].method Fit(k) == Matches(Routes[k].uri, path)
           V == {M(k) : k \in 1..n} X == Seq(V)
           One(k, s) == IF Fit(k) /\ M(k) \notin ToSet(s) THEN Append(s, M(k)) ELSE s
           Is(f) == f = [k \in 0..n |-> IF k = 0 THEN <<>>
                           ELSE IF Fit(k) /\ M(k) \notin ToSet(f[k - 1])
                                THEN Append(f[k - 1], M(k)) ELSE f[k - 1]]
           out == CHOOSE f : Is(f)
           step == [k \in 1..n |-> [s \in X |-> One(k, s)]]
<1>1. allowed_methods(path) = out[n]
  BY DEF allowed_methods
<1>2. n \in Nat /\ \A k \in 1..n : M(k) \in V
  BY RouterAssumption
<1>3. Verbs(path) = {M(k) : k \in {j \in 1..n : Fit(j)}}
  BY DEF Verbs
<1> HIDE DEF Fit, M, V, n
<1>4. <<>> \in X /\ step \in [1..n -> [X -> X]]
  <2>1. ASSUME NEW k \in 1..n, NEW s \in X
        PROVE  One(k, s) \in X
    BY <1>2, AppendFacts
  <2>2. <<>> \in X
    OBVIOUS
  <2> HIDE DEF X, One
  <2> QED
    BY <2>1, <2>2
<1>5. PICK w : w \in [0..n -> X] /\ w[0] = <<>> /\ \A k \in 1..n : w[k] = step[k][w[k - 1]]
  <2> HIDE DEF step, X
  <2>1. \E w : RunOf(w, n, X, <<>>, step)
    BY <1>2, <1>4, LoopRuns
  <2> QED
    BY <2>1 DEF RunOf
<1>6. \A k \in 1..n : w[k] = One(k, w[k - 1])
  <2> SUFFICES ASSUME NEW k \in 1..n PROVE w[k] = One(k, w[k - 1])
    OBVIOUS
  <2> HIDE DEF X, One
  <2>1. w[k - 1] \in X /\ w[k] = step[k][w[k - 1]]
    BY <1>2, <1>5
  <2> QED
    BY <2>1
<1>7. Is(w)
  <2>1. w = [k \in 0..n |-> w[k]]
    <3> HIDE DEF X
    <3> QED
      BY <1>5
  <2>2. \A k \in 0..n : w[k] = IF k = 0 THEN <<>>
                               ELSE IF Fit(k) /\ M(k) \notin ToSet(w[k - 1])
                                    THEN Append(w[k - 1], M(k)) ELSE w[k - 1]
    <3>1. \A k \in 0..n : k = 0 \/ k \in 1..n
      BY <1>2
    <3> QED
      BY <1>5, <1>6, <3>1, Zenon
  <2> QED
    BY <2>1, <2>2, Zenon
<1>8. Is(out)
  <2> HIDE DEF Is
  <2> QED
    BY <1>7
<1> HIDE DEF out
<1>9. out[0] = <<>>
  BY <1>2, <1>8
<1>10. \A k \in 1..n : out[k] = One(k, out[k - 1])
  <2>1. \A k \in 1..n : k \in 0..n /\ k # 0
    BY <1>2
  <2> QED
    BY <2>1, <1>8, Zenon
<1> HIDE DEF Is, step
<1> DEFINE Good(k, s) == /\ s \in X /\ ToSet(s) = {M(i) : i \in {j \in 1..k : Fit(j)}}
                         /\ IsFiniteSet(ToSet(s)) /\ Cardinality(ToSet(s)) = Len(s)
           G == {k \in 0..n : Good(k, out[k])}
<1>11. 0 \in G
  <2>1. <<>> \in X /\ ToSet(<<>>) = {} /\ Len(<<>>) = 0
    BY <1>4 DEF ToSet
  <2>2. {M(i) : i \in {j \in 1..0 : Fit(j)}} = {}
    OBVIOUS
  <2>3. Good(0, <<>>)
    BY <2>1, <2>2, FS_EmptySet
  <2>4. 0 \in 0..n
    BY <1>2
  <2> HIDE DEF Good
  <2> QED
    BY <1>9, <2>3, <2>4
<1>12. ASSUME NEW k \in 1..n, k - 1 \in G
       PROVE  k \in G
  <2> DEFINE s == out[k - 1] t == Append(s, M(k))
  <2>1. Good(k - 1, s) /\ out[k] = One(k, s) /\ k \in 0..n
    BY <1>2, <1>10, <1>12
  <2> HIDE DEF s
  <2>2. CASE ~Fit(k)
    <3>1. {i \in 1..k : Fit(i)} = {i \in 1..(k - 1) : Fit(i)}
      BY <2>2
    <3>2. Good(k, s)
      BY <2>1, <3>1, Zenon
    <3>3. out[k] = s
      BY <2>1, <2>2
    <3> HIDE DEF Good
    <3> QED
      BY <2>1, <3>2, <3>3
  <2>3. CASE Fit(k)
    <3>0. {i \in 1..k : Fit(i)} = {i \in 1..(k - 1) : Fit(i)} \union {k}
      BY <2>3
    <3>1. {M(i) : i \in {j \in 1..k : Fit(j)}} = ToSet(s) \union {M(k)}
      BY <2>1, <3>0, Zenon
    <3>2. CASE M(k) \in ToSet(s)
      <4>1. ToSet(s) \union {M(k)} = ToSet(s)
        BY <3>2
      <4>2. Good(k, s)
        BY <2>1, <3>1, <4>1, Zenon
      <4>3. out[k] = s
        BY <2>1, <3>2
      <4> HIDE DEF Good
      <4> QED
        BY <2>1, <4>2, <4>3
    <3>3. CASE M(k) \notin ToSet(s)
      <4>1. /\ t \in X /\ Len(t) = Len(s) + 1 /\ Len(s) \in Nat
            /\ t[Len(s) + 1] = M(k) /\ \A g \in 1..Len(s) : t[g] = s[g]
        BY <1>2, <2>1, AppendFacts
      <4> HIDE DEF t
      <4>2. ToSet(t) = ToSet(s) \union {M(k)}
        <5>1. 1..Len(t) = 1..Len(s) \union {Len(s) + 1}
          BY <4>1
        <5>2. DOMAIN t = 1..Len(t) /\ DOMAIN s = 1..Len(s)
          BY <2>1, <4>1
        <5> HIDE DEF Good, One
        <5> QED
          BY <4>1, <5>1, <5>2 DEF ToSet
      <4>3. IsFiniteSet(ToSet(t)) /\ Cardinality(ToSet(t)) = Len(t)
        <5>1. IsFiniteSet(ToSet(s)) /\ Cardinality(ToSet(s)) = Len(s)
          BY <2>1
        <5>2. /\ IsFiniteSet(ToSet(s) \union {M(k)})
              /\ Cardinality(ToSet(s) \union {M(k)}) = Cardinality(ToSet(s)) + 1
          <6> HIDE DEF Good, One
          <6> QED
            BY <3>3, <5>1, FS_AddElement
        <5> QED
          BY <4>1, <4>2, <5>1, <5>2, Zenon
      <4>4. Good(k, t)
        BY <3>1, <4>1, <4>2, <4>3, Zenon
      <4>5. out[k] = t
        BY <2>1, <2>3, <3>3 DEF t
      <4> HIDE DEF Good
      <4> QED
        BY <2>1, <4>4, <4>5
    <3> QED
      BY <3>2, <3>3
  <2> QED
    BY <2>2, <2>3
<1>13. n \in G
  <2> HIDE DEF G
  <2>1. \A k \in 0..n : k \in G
    BY <1>2, <1>11, <1>12, UpTo
  <2> QED
    BY <1>2, <2>1
<1>14. Good(n, out[n])
  BY <1>13
<1> DEFINE s == out[n]
<1>15. s \in X /\ ToSet(s) = Verbs(path) /\ Cardinality(ToSet(s)) = Len(s)
  BY <1>3, <1>14, Zenon
<1> HIDE DEF s, Good
<1>16. s = <<>> <=> ToSet(s) = {}
  <2>1. DOMAIN s = 1..Len(s) /\ Len(s) \in Nat /\ (s = <<>> <=> Len(s) = 0)
    BY <1>15
  <2>2. Len(s) # 0 => s[1] \in ToSet(s)
    BY <2>1 DEF ToSet
  <2>3. Len(s) = 0 => ToSet(s) = {}
    BY <2>1 DEF ToSet
  <2> QED
    BY <2>1, <2>2, <2>3
<1> QED
  BY <1>1, <1>15, <1>16 DEF s

(* The routing of a request is kept, and so is its answer if it had none. *)
SameRoute(n, q) ==
  /\ n.method = q.method /\ n.path = q.path /\ n.route = q.route /\ n.params = q.params
  /\ q.route # 0 \/ (n.pc = q.pc /\ n.allow = q.allow /\ n.status = q.status)

(* Only Kernel::handle() itself routes. *)
LEMMA StepRoute ==
  ASSUME BaseInv, NEW r \in Requests, Step(r), ~Unmatched(r), ~Matched(r), NEW o \in Requests
  PROVE  SameRoute(req'[o], req[o])
<1> DEFINE q == req[r] n == req'[r]
<1>0. DOMAIN req = Requests /\ DOMAIN q = Fields /\ DOMAIN req[o] = Fields
  BY RecTypes DEF BaseInv, TypeInv
<1>1. q.pc \in {"in", "get", "put", "out"} => q.route # 0
  BY RecTypes DEF Way
<1>2. ASSUME Moves(r), n.method = q.method, n.path = q.path, n.route = q.route, n.params = q.params,
             q.route # 0
      PROVE  SameRoute(req'[o], req[o])
  BY <1>2 DEF Moves, SameRoute
<1>3. ASSUME NEW f, NEW status, DOMAIN f = Fields, f.method = q.method, f.path = q.path,
             f.route = q.route, f.params = q.params, q.route # 0,
             Deeper(r, f) \/ Answers(r, f, status)
      PROVE  SameRoute(req'[o], req[o])
  <2>1. CASE Deeper(r, f)
    <3>1. Moves(r) /\ n.method = f.method /\ n.path = f.path /\ n.route = f.route /\ n.params = f.params
      BY <1>0, <1>3, <2>1 DEF Deeper, Moves, Fields
    <3> QED
      BY <1>2, <1>3, <3>1
  <2>2. CASE Answers(r, f, status)
    <3>1. Moves(r) /\ n.method = f.method /\ n.path = f.path /\ n.route = f.route /\ n.params = f.params
      BY <1>0, <1>3, <2>2 DEF Answers, Moves, Fields
    <3> QED
      BY <1>2, <1>3, <3>1
  <2> QED
    BY <1>3, <2>1, <2>2
<1>4. CASE CallNext(r) \/ ShortCircuit(r) \/ RunHandler(r)
  BY <1>0, <1>1, <1>3, <1>4 DEF CallNext, ShortCircuit, RunHandler, InApplication, Entering
<1>5. CASE Return(r)
  <2>1. /\ Moves(r) /\ n.method = q.method /\ n.path = q.path /\ n.route = q.route /\ n.params = q.params
        /\ q.pc = "out"
    BY <1>0, <1>5 DEF Return, Moves, Fields
  <2> QED
    BY <1>1, <1>2, <2>1
<1>6. CASE Throws(r)
  <2>1. /\ Moves(r) /\ n.method = q.method /\ n.path = q.path /\ n.route = q.route /\ n.params = q.params
        /\ q.pc \in {"in", "out"}
    BY <1>0, <1>6 DEF Throws, InApplication, Moves, Fields
  <2> QED
    BY <1>1, <1>2, <2>1
<1>7. CASE ThrottleBegins(r)
  <2> DEFINE rivals == {p \in Requests \ {r} : Counting(p) /\ Key(p) = Key(r)}
  <2>1. /\ q.pc = "in"
        /\ req'[o] = IF o = r THEN [req[r] EXCEPT !.pc = "get", !.now = time, !.alone = rivals = {}]
                     ELSE [req[o] EXCEPT !.alone = req[o].alone /\ o \notin rivals]
    BY <1>7 DEF ThrottleBegins, Entering
  <2> HIDE DEF rivals
  <2>2. CASE o = r
    BY <1>0, <1>1, <2>1, <2>2 DEF SameRoute, Fields
  <2>3. CASE o # r
    BY <1>0, <2>1, <2>3 DEF SameRoute, Fields
  <2> QED
    BY <2>2, <2>3
<1>8. CASE ThrottleGets(r)
  <2>1. PICK c, s : req' = [req EXCEPT ![r].pc = "put", ![r].count = c, ![r].start = s]
    BY <1>8 DEF ThrottleGets
  <2>2. /\ Moves(r) /\ n.method = q.method /\ n.path = q.path /\ n.route = q.route /\ n.params = q.params
        /\ q.pc = "get"
    BY <1>0, <1>8, <2>1 DEF ThrottleGets, Moves, Fields
  <2> QED
    BY <1>1, <1>2, <2>2
<1>9. CASE ThrottlePuts(r)
  <2> DEFINE over == OverBudget(q.count) f == [q EXCEPT !.passed = ~over, !.counted = time]
  <2>1. q.pc = "put" /\ (Answers(r, f, 429) \/ Deeper(r, f))
    BY <1>9 DEF ThrottlePuts
  <2> HIDE DEF over
  <2>2. /\ DOMAIN f = Fields /\ f.method = q.method /\ f.path = q.path /\ f.route = q.route
        /\ f.params = q.params
    BY <1>0 DEF Fields
  <2> HIDE DEF f
  <2> QED
    BY <1>1, <1>3, <2>1, <2>2
<1> QED
  BY <1>4, <1>5, <1>6, <1>7, <1>8, <1>9 DEF Step

(* What handle() found of a request stays true of it. *)
Paths == Seq(STRING)

Routed(method, path, route, params, pc, allow, status) ==
  /\ path \in Paths
  /\ route # 0 => route = match(method, path) /\ params = Params(Routes[route].uri, path)
  /\ pc = "done" /\ route = 0 =>
       /\ match(method, path) = 0 /\ allow = allowed_methods(path)
       /\ status = IF allow = <<>> THEN 404 ELSE 405

RouteRec(q) == Routed(q.method, q.path, q.route, q.params, q.pc, q.allow, q.status)

RouteInv == \A r \in Requests : RouteRec(req[r])

(* Every step keeps it. *)
LEMMA StepRouteInv ==
  ASSUME BaseInv, RouteInv, [Next]_vars
  PROVE  RouteInv'
<1> SUFFICES ASSUME NEW o \in Requests PROVE RouteRec(req'[o])
  BY DEF RouteInv
<1>1. RouteRec(req[o])
  BY DEF RouteInv
<1>2. CASE req'[o] = req[o]
  BY <1>1, <1>2
<1>3. ASSUME NEW r \in Requests, Step(r)
      PROVE  RouteRec(req'[o])
  <2> DEFINE q == req[r] n == req'[r]
  <2>0. DOMAIN req = Requests /\ DOMAIN q = Fields
    BY RecTypes DEF BaseInv, TypeInv
  <2>1. CASE ~Unmatched(r) /\ ~Matched(r)
    <3>1. SameRoute(req'[o], req[o])
      BY <1>3, <2>1, StepRoute
    <3> DEFINE m == req'[o] p == req[o]
    <3>2. Routed(p.method, p.path, p.route, p.params, p.pc, p.allow, p.status)
      BY <1>1 DEF RouteRec
    <3>3. Routed(p.method, p.path, p.route, p.params, m.pc, m.allow, m.status)
      <4>1. p.route # 0 \/ (m.pc = p.pc /\ m.allow = p.allow /\ m.status = p.status)
        BY <3>1 DEF SameRoute
      <4> HIDE DEF m, p
      <4>2. CASE p.route # 0
        BY <3>2, <4>2 DEF Routed
      <4>3. CASE m.pc = p.pc /\ m.allow = p.allow /\ m.status = p.status
        BY <3>2, <4>3, Zenon
      <4> QED
        BY <4>1, <4>2, <4>3
    <3>4. /\ m.method = p.method /\ m.path = p.path /\ m.route = p.route /\ m.params = p.params
      BY <3>1 DEF SameRoute
    <3>5. Routed(m.method, m.path, m.route, m.params, m.pc, m.allow, m.status)
      <4> HIDE DEF m, p
      <4> QED
        BY <3>3, <3>4, Zenon
    <3> QED
      BY <3>5 DEF RouteRec
  <2>2. CASE Unmatched(r)
    <3> DEFINE allow == allowed_methods(q.path)
    <3>1. q.pc = "new" /\ match(q.method, q.path) = 0 /\ Moves(r)
      BY <2>2, QuietUnmatched DEF Unmatched
    <3>2. req' = [req EXCEPT ![r].pc = "done", ![r].allow = allow,
                             ![r].status = IF allow = <<>> THEN 404 ELSE 405]
      BY <2>2 DEF Unmatched
    <3>3. q.route = 0
      BY <3>1, RecTypes DEF Way
    <3>4. /\ n.path = q.path /\ n.method = q.method /\ n.route = 0
          /\ n.allow = allow /\ n.status = IF allow = <<>> THEN 404 ELSE 405
      <4> HIDE DEF allow
      <4> QED
        BY <2>0, <3>2, <3>3 DEF Fields
    <3>5. RouteRec(q)
      BY DEF RouteInv
    <3>6. RouteRec(n)
      <4> HIDE DEF n
      <4>1. q.path \in Paths
        BY <3>5 DEF RouteRec, Routed
      <4>2. Routed(q.method, q.path, 0, n.params, n.pc, n.allow, n.status)
        BY <3>1, <3>4, <4>1 DEF Routed
      <4> QED
        BY <3>4, <4>2, Zenon DEF RouteRec
    <3> QED
      BY <1>1, <3>1, <3>6 DEF Moves
  <2>3. CASE Matched(r)
    <3> DEFINE k == match(q.method, q.path) params == Params(Routes[k].uri, q.path)
               c == Compose(Global \o Routes[k].middleware)
    <3>1. k # 0 /\ Moves(r)
      BY <2>3, QuietMatched DEF Matched
    <3>2. req' = [req EXCEPT ![r].pc = "in", ![r].at = 1, ![r].route = k, ![r].params = params,
                             ![r].chain = c]
      BY <2>3 DEF Matched
    <3>3. /\ n.path = q.path /\ n.method = q.method /\ n.route = k /\ n.pc = "in"
          /\ n.params = params
      <4> HIDE DEF k, params, c
      <4> QED
        BY <2>0, <3>2 DEF Fields
    <3>4. RouteRec(q)
      BY DEF RouteInv
    <3>5. RouteRec(n)
      <4> HIDE DEF n
      <4> QED
        BY <3>1, <3>3, <3>4, Zenon DEF RouteRec, Routed
    <3> QED
      BY <1>1, <3>1, <3>5 DEF Moves
  <2> QED
    BY <2>1, <2>2, <2>3
<1>4. ASSUME Tick PROVE req' = req
  BY <1>4 DEF Tick
<1> QED
  BY <1>2, <1>3, <1>4 DEF Next, vars

(* It holds of the requests that have not been handled. *)
LEMMA InitRoute ==
  ASSUME Init
  PROVE  RouteInv
<1> SUFFICES ASSUME NEW r \in Requests PROVE RouteRec(req[r])
  BY DEF RouteInv
<1>1. PICK q \in Inputs : req[r] = NewRequest(q)
  BY DEF Init
<1>2. req[r].pc = "new" /\ req[r].route = 0 /\ req[r].path = q.path
  BY <1>1 DEF NewRequest
<1>3. q.path \in Paths
  BY KernelAssumption DEF Paths
<1> QED
  BY <1>2, <1>3 DEF RouteRec, Routed

(* No uri names two of its parameters alike. *)
NamesApart == \A k \in 1..Len(Routes) : NamesOnce(Routes[k].uri)

(* "matched params are extracted into Request.route_params": with any      *)
(* routes whose parameters have different names, and any paths, a request  *)
(* goes to the first route that was added for its method and path, and its *)
(* parameters, put back into the uri, give the path; a request that has no *)
(* route gets 405 with every method the path has, each once, or 404.       *)
THEOREM RoutingIsRight == NamesApart /\ Spec => []RoutedRight
<1>1. NamesApart /\ BaseInv /\ RouteInv => RoutedRight
  <2> SUFFICES ASSUME NamesApart, BaseInv, RouteInv, NEW r \in Requests
               PROVE
    LET q == req[r]
        Fits_(k) == Routes[k].method = q.method /\ Matches(Routes[k].uri, q.path)
        uri == Routes[q.route].uri IN
    /\ q.route # 0 =>
         /\ Fits_(q.route) /\ \A k \in 1..(q.route - 1) : ~Fits_(k)
         /\ FlattenSeq([i \in 1..Len(uri) |->
              IF uri[i].kind = "literal" THEN <<uri[i].text>> ELSE q.params[uri[i].text]]) = q.path
    /\ q.pc = "done" /\ q.route = 0 =>
         LET verbs == {Routes[k].method : k \in {j \in 1..Len(Routes) : Matches(Routes[j].uri, q.path)}}
         IN /\ q.method \notin verbs
            /\ q.status = IF verbs = {} THEN 404 ELSE 405
            /\ ToSet(q.allow) = verbs /\ Len(q.allow) = Cardinality(verbs)
    BY DEF RoutedRight
  <2> DEFINE q == req[r] path == q.path k == q.route uri == Routes[k].uri
  <2>1. RouteRec(q)
    BY DEF RouteInv
  <2>2. ASSUME k # 0
        PROVE  /\ Fits(k, q.method, path) /\ \A j \in 1..(k - 1) : ~Fits(j, q.method, path)
               /\ FlattenSeq([i \in 1..Len(uri) |->
                    IF uri[i].kind = "literal" THEN <<uri[i].text>> ELSE q.params[uri[i].text]]) = path
    <3>1. k = match(q.method, path) /\ q.params = Params(uri, path)
      BY <2>1, <2>2 DEF RouteRec, Routed
    <3>2. /\ k \in 1..Len(Routes) /\ Fits(k, q.method, path)
          /\ \A j \in 1..(k - 1) : ~Fits(j, q.method, path)
      BY <2>2, <3>1, MatchFirst
    <3> DEFINE P == [kind : {"literal", "name", "catch_all"}, text : STRING]
               Chars == STRING
    <3>3. uri \in Seq(P)
      <4> DEFINE Names == STRING Ms == Seq(STRING) U == Seq(P)
                 R == [method : Names, middleware : Ms, uri : U]
      <4>1. Routes \in Seq(R)
        BY RouterAssumption
      <4>2. Routes[k] \in R
        <5> HIDE DEF R
        <5> QED
          BY <3>2, <4>1
      <4> HIDE DEF Names, Ms, U
      <4>3. Routes[k].uri \in U
        BY <4>2
      <4> QED
        BY <4>3 DEF U
    <3>4. path \in Seq(Chars)
      BY <2>1 DEF RouteRec, Routed, Paths
    <3>5. \A i \in 1..Len(uri) : uri[i] \in P
      <4> HIDE DEF P
      <4> QED
        BY <3>3
    <3>6. \A i \in 1..Len(uri) : uri[i].kind \in {"literal", "name", "catch_all"}
      <4> DEFINE Names == STRING
      <4>1. P = [kind : {"literal", "name", "catch_all"}, text : Names]
        OBVIOUS
      <4> HIDE DEF Names, P
      <4> QED
        BY <3>5, <4>1
    <3>7. \A i \in 1..Len(uri) : uri[i].kind = "catch_all" => i = Len(uri)
      BY <3>2, RouterAssumption
    <3>8. NamesOnce(uri) /\ Matches(uri, path)
      BY <3>2 DEF NamesApart, Fits
    <3> HIDE DEF P, Chars, uri, path
    <3>9. FlattenSeq([i \in 1..Len(uri) |->
            IF uri[i].kind = "literal" THEN <<uri[i].text>> ELSE Params(uri, path)[uri[i].text]]) = path
      BY <3>3, <3>4, <3>6, <3>7, <3>8, PathBack
    <3> QED
      BY <3>1, <3>2, <3>9, Zenon
  <2>3. ASSUME q.pc = "done", k = 0
        PROVE  /\ q.method \notin Verbs(path)
               /\ q.status = IF Verbs(path) = {} THEN 404 ELSE 405
               /\ ToSet(q.allow) = Verbs(path) /\ Len(q.allow) = Cardinality(Verbs(path))
    <3>1. /\ match(q.method, path) = 0 /\ q.allow = allowed_methods(path)
          /\ q.status = IF q.allow = <<>> THEN 404 ELSE 405
      BY <2>1, <2>3 DEF RouteRec, Routed
    <3> HIDE DEF path
    <3>2. \A j \in 1..Len(Routes) : ~Fits(j, q.method, path)
      <4>1. match(q.method, path) \notin 1..Len(Routes)
        BY <3>1
      <4> QED
        BY <4>1, MatchFirst, Zenon
    <3>3. q.method \notin Verbs(path)
      BY <3>2 DEF Verbs, Fits
    <3>4. /\ ToSet(q.allow) = Verbs(path) /\ Len(q.allow) = Cardinality(Verbs(path))
          /\ q.allow = <<>> <=> Verbs(path) = {}
      <4>1. q.allow = allowed_methods(path)
        BY <3>1
      <4> HIDE DEF q
      <4> QED
        BY <4>1, AllowedFacts
    <3>5. CASE Verbs(path) = {}
      BY <3>1, <3>3, <3>4, <3>5
    <3>6. CASE Verbs(path) # {}
      BY <3>1, <3>3, <3>4, <3>6
    <3> QED
      BY <3>5, <3>6
  <2> QED
    BY <2>2, <2>3, Zenon DEF Fits, Verbs
<1>2. Init => BaseInv /\ RouteInv
  BY InitBase, InitRoute
<1>3. BaseInv /\ RouteInv /\ [Next]_vars => BaseInv' /\ RouteInv'
  BY StepBase, StepRouteInv
<1>4. NamesApart => NamesApart'
  BY DEF NamesApart
<1> QED
  BY <1>1, <1>2, <1>3, <1>4, PTL DEF Spec
=============================================================================
