--------------------------- MODULE ContainerProofs ---------------------------
(***************************************************************************)
(* Proofs about the container, for any types, providers, tags and threads: *)
(* type correctness; that the two phases of register_providers() let every *)
(* boot() find what any provider binds; that a singleton or a scoped       *)
(* object is shared by all who receive it, as long as no type is built     *)
(* inside its own building, which an order of the types rules out; and     *)
(* that every consumer gets what its own contextual binding says.          *)
(***************************************************************************)
EXTENDS Container, FiniteSetTheorems, SequenceTheorems, WellFoundedInduction, TLAPS

-----------------------------------------------------------------------------
(* The inductive invariant.                                                *)

Obj == [type : Key, n : Nat]
Ask == [want : Key, key : Key, slot : Nat]
Got == UNION {[D -> Obj] : D \in SUBSET Nat}
Frame == [want : Key \union Tag, key : Key \union Tag, slot : Nat, got : Got, f : Factory]
Task == ({"register", "boot"} \X DOMAIN Provider) \union {<<"ended", None>>}

TypeInv ==
  /\ factories \in [Key -> Factory \union {None}]
  /\ DOMAIN contextual \subseteq Key \X Key /\ \A x \in DOMAIN contextual : contextual[x] \in Key
  /\ tags \in [Tag -> Seq(Key)]
  /\ instances \in [Key -> Obj \union {None}] /\ scoped \in [Key -> Obj \union {None}]
  /\ building \in Seq(Key) /\ mutex \in Thread \union {None}
  /\ frames \in [Thread -> Seq(Frame)] /\ ask \in [Thread -> Ask \union {None}]
  /\ todo \in Seq(Task)
  /\ asks \in 0..MaxAsks /\ throws \in 0..MaxThrows /\ epoch \in 0..MaxForgets
  /\ made \in [Key -> Nat]

(* Whoever is in make_erased() holds the mutex. *)
LockInv == \A t \in Thread : ~Idle(t) => mutex = t

(* What a bound factory is like: instance() keeps its object at once. *)
FactoryInv ==
  \A k \in Key : factories[k] # None =>
    /\ factories[k].make # "list"
    /\ factories[k].life = "instance" => instances[k] # None
    /\ factories[k].life # "instance" /\ factories[k].make = "same" => Len(factories[k].deps) = 1

(* A frame is tagged()'s, outermost, or runs the factory bound to its type. *)
FrameInv ==
  \A t \in Thread : \A i \in 1..Len(frames[t]) :
    \/ frames[t][i].key \in Tag /\ i = 1 /\ frames[t][i].f.make = "list"
    \/ /\ frames[t][i].key \in Key /\ frames[t][i].f = factories[frames[t][i].key]
       /\ frames[t][i].f.life # "instance"

(* Every register_() comes before every boot(), nobody resolves before the *)
(* last of them, and a provider that has registered is bound.              *)
PhaseInv ==
  /\ \A i, j \in 1..Len(todo) : i < j /\ todo[j][1] = "register" => todo[i][1] = "register"
  /\ Stage = "register" =>
       (\A t \in Thread : Idle(t)) /\ gave = {} /\ scoped = [k \in Key |-> None]
  /\ \A p \in DOMAIN Provider :
       \/ \E i \in 1..Len(todo) : todo[i] = <<"register", p>>
       \/ \A k \in DOMAIN Provider[p].binds \union Provider[p].instances : factories[k] # None

BaseInv == TypeInv /\ LockInv /\ FactoryInv /\ FrameInv /\ PhaseInv

(* No type's factory runs inside a run of itself. *)
NeverNested ==
  \A t \in Thread : \A i, j \in 1..Len(frames[t]) :
    i # j => frames[t][i].key # frames[t][j].key

(* While a type is being built there is no object of it to hand out. *)
FreshInv ==
  \A t \in Thread : \A i \in 1..Len(frames[t]) :
    frames[t][i].key \in Key => Memo(frames[t][i].key) = None

(* What was handed out is what is kept. *)
KeptInv ==
  \A g \in gave :
    /\ g.key \in Key /\ g.obj \in Obj /\ g.epoch \in 0..epoch /\ factories[g.key] # None
    /\ factories[g.key].life \in {"singleton", "instance"} => instances[g.key] = g.obj
    /\ factories[g.key].life = "scoped" /\ g.epoch = epoch => scoped[g.key] = g.obj

ShareInv == FreshInv /\ KeptInv /\ SharedOnce

(* An order of the types in which a factory resolves only lower ones, and  *)
(* a contextual binding gives nothing higher than what it stands for.      *)
Ordered(rank) ==
  /\ rank \in [Key -> Nat]
  /\ \A p \in DOMAIN Provider :
       /\ \A k \in DOMAIN Provider[p].binds : \A i \in DOMAIN Provider[p].binds[k].deps :
            rank[Provider[p].binds[k].deps[i]] < rank[k]
       /\ \A x \in DOMAIN Provider[p].contexts : rank[Provider[p].contexts[x]] <= rank[x[2]]

(* The frames of a thread go down in that order. *)
RankInv(rank) ==
  /\ \A k \in Key : factories[k] # None =>
       \A i \in DOMAIN factories[k].deps : rank[factories[k].deps[i]] < rank[k]
  /\ \A x \in DOMAIN contextual : rank[contextual[x]] <= rank[x[2]]
  /\ \A t \in Thread : \A i, j \in 1..Len(frames[t]) :
       i < j /\ frames[t][i].key \in Key => rank[frames[t][j].key] < rank[frames[t][i].key]
  /\ \A t \in Thread : ask[t] # None =>
       \A i \in 1..Len(frames[t]) :
         frames[t][i].key \in Key => rank[ask[t].key] < rank[frames[t][i].key]

-----------------------------------------------------------------------------
(* Lemmas about the operators.                                             *)

(* The constants are what the code makes them. *)
LEMMA ProviderFacts ==
  ASSUME NEW i \in DOMAIN Provider
  PROVE  /\ DOMAIN Provider[i].binds \subseteq Key /\ Provider[i].instances \subseteq Key
         /\ Provider[i].boots \in Key
         /\ \A k \in DOMAIN Provider[i].binds :
              /\ Provider[i].binds[k] \in Factory
              /\ Provider[i].binds[k].life # "instance" /\ Provider[i].binds[k].make # "list"
              /\ Provider[i].binds[k].make = "same" => Len(Provider[i].binds[k].deps) = 1
         /\ DOMAIN Provider[i].contexts \subseteq Key \X Key
         /\ \A x \in DOMAIN Provider[i].contexts : Provider[i].contexts[x] \in Key
         /\ DOMAIN Provider[i].tags \subseteq Tag
         /\ \A g \in DOMAIN Provider[i].tags : Provider[i].tags[g] \in Seq(Key)
BY ContainerAssumption

(* None is none of the values it is told apart from. *)
LEMMA NoneFacts ==
  /\ None \notin Key /\ None \notin Thread /\ None \notin Tag
  /\ None \notin Factory /\ None \notin Obj /\ \A k \in Key : k \notin Tag
BY ContainerAssumption DEF Obj

(* The arguments a factory has received: none at first, then one more. *)
LEMMA GotFacts ==
  /\ <<>> \in Got
  /\ \A got \in Got : \A s \in DOMAIN got : got[s] \in Obj
  /\ \A got \in Got, s \in Nat, obj \in Obj : Merge([x \in {s} |-> obj], got) \in Got
<1>1. <<>> \in Got
  <2>1. <<>> \in [{} -> Obj]
    OBVIOUS
  <2> QED
    BY <2>1 DEF Got
<1>2. ASSUME NEW got \in Got, NEW s \in DOMAIN got
      PROVE  got[s] \in Obj
  BY DEF Got
<1>3. ASSUME NEW got \in Got, NEW s \in Nat, NEW obj \in Obj
      PROVE  Merge([x \in {s} |-> obj], got) \in Got
  <2>1. PICK D \in SUBSET Nat : got \in [D -> Obj]
    BY DEF Got
  <2>2. Merge([x \in {s} |-> obj], got) \in [{s} \union D -> Obj]
    BY <2>1 DEF Merge
  <2>3. {s} \union D \in SUBSET Nat
    OBVIOUS
  <2> QED
    BY <2>2, <2>3 DEF Got
<1> QED
  BY <1>1, <1>2, <1>3

(* Phases(): all of register_(), then all of boot(). *)
LEMMA PhasesFacts ==
  ASSUME NEW order \in SetToSeqs(DOMAIN Provider)
  PROVE  /\ Phases(order) \in Seq(Task)
         /\ \A i, j \in 1..Len(Phases(order)) :
              i < j /\ Phases(order)[j][1] = "register" => Phases(order)[i][1] = "register"
         /\ \A p \in DOMAIN Provider :
              \E i \in 1..Len(Phases(order)) : Phases(order)[i] = <<"register", p>>
<1> DEFINE n == Cardinality(DOMAIN Provider)
<1>1. n \in Nat
  BY ContainerAssumption, FS_CardinalityType
<1>2. order \in [1..n -> DOMAIN Provider] /\ \A i, j \in 1..n : i # j => order[i] # order[j]
  BY DEF SetToSeqs
<1>3. \A p \in DOMAIN Provider : \E i \in 1..n : order[i] = p
  <2>1. order \in Injection(1..n, DOMAIN Provider)
    BY <1>2 DEF Injection, IsInjective
  <2>2. Cardinality(1..n) = n
    BY <1>1, FS_Interval
  <2>3. order \in Surjection(1..n, DOMAIN Provider)
    BY <2>1, <2>2, ContainerAssumption, FS_Injection
  <2> QED
    BY <2>3 DEF Surjection
<1> DEFINE reg == [p \in DOMAIN order |-> <<"register", order[p]>>]
           boo == [p \in DOMAIN order |-> <<"boot", order[p]>>]
<1>4. DOMAIN order = 1..n
  BY <1>2
<1>5. reg \in Seq(Task) /\ Len(reg) = n /\ boo \in Seq(Task) /\ Len(boo) = n
  <2>1. reg \in [1..n -> Task] /\ boo \in [1..n -> Task]
    BY <1>2, <1>4 DEF Task
  <2>2. \A q \in [1..n -> Task] : q \in Seq(Task) /\ Len(q) = n
    BY <1>1
  <2> HIDE DEF n, reg, boo
  <2> QED
    BY <2>1, <2>2
<1>6. Phases(order) = reg \o boo
  BY DEF Phases
<1>7. Phases(order) \in Seq(Task) /\ Len(Phases(order)) = n + n
  BY <1>1, <1>5, <1>6
<1>8. ASSUME NEW i \in 1..n
      PROVE  Phases(order)[i] = <<"register", order[i]>>
  BY <1>1, <1>4, <1>5, <1>6
<1>9. ASSUME NEW i \in 1..(n + n), i > n
      PROVE  Phases(order)[i] = <<"boot", order[i - n]>>
  BY <1>1, <1>4, <1>5, <1>6, <1>9
<1> HIDE DEF n, reg, boo
<1>10. ASSUME NEW i \in 1..(n + n), NEW j \in 1..(n + n), i < j, Phases(order)[j][1] = "register"
       PROVE  Phases(order)[i][1] = "register"
  <2>1. j <= n
    BY <1>1, <1>9, <1>10
  <2>2. i \in 1..n
    BY <1>1, <1>10, <2>1
  <2> QED
    BY <1>8, <2>2
<1>11. ASSUME NEW p \in DOMAIN Provider
       PROVE  \E i \in 1..(n + n) : Phases(order)[i] = <<"register", p>>
  <2>1. PICK i \in 1..n : order[i] = p
    BY <1>3
  <2>2. i \in 1..(n + n) /\ Phases(order)[i] = <<"register", p>>
    BY <1>1, <1>8, <2>1
  <2> QED
    BY <2>2
<1> QED
  BY <1>7, <1>10, <1>11

(* A value that goes to a frame is one more argument and nothing else. *)
LEMMA DeliverFacts ==
  ASSUME TypeInv, NEW t \in Thread, NEW to, to.slot \in Nat, NEW obj \in Obj,
         NEW below \in Seq(Frame), Deliver(t, to, obj, below)
  PROVE  /\ frames' \in [Thread -> Seq(Frame)]
         /\ \A u \in Thread \ {t} : frames'[u] = frames[u]
         /\ Len(frames'[t]) = Len(below)
         /\ \A i \in 1..Len(below) :
              frames'[t][i].key = below[i].key /\ frames'[t][i].f = below[i].f
         /\ mutex' = IF below = <<>> THEN None ELSE mutex
         /\ gave' = gave \union {[want |-> to.want, key |-> to.key, by |-> Consumer(below),
                                  obj |-> obj, epoch |-> epoch]}
<1>1. frames \in [Thread -> Seq(Frame)]
  BY DEF TypeInv
<1>2. CASE below = <<>>
  BY <1>1, <1>2 DEF Deliver
<1>3. CASE below # <<>>
  <2> DEFINE n == Len(below)
             top == [below[n] EXCEPT !.got = Merge([s \in {to.slot} |-> obj], @)]
  <2>1. n \in Nat /\ n > 0 /\ below[n] \in Frame
    BY <1>3
  <2>2. Merge([s \in {to.slot} |-> obj], below[n].got) \in Got
    BY <2>1, GotFacts DEF Frame
  <2>3. top \in Frame /\ top.key = below[n].key /\ top.f = below[n].f
    BY <2>1, <2>2 DEF Frame
  <2>4. frames' = [frames EXCEPT ![t] = [below EXCEPT ![n] = top]] /\ mutex' = mutex
    BY <1>3 DEF Deliver, ReplaceAt, Last
  <2>5. frames'[t] = [below EXCEPT ![n] = top] /\ \A u \in Thread \ {t} : frames'[u] = frames[u]
    BY <1>1, <2>4
  <2> HIDE DEF top
  <2>6. [below EXCEPT ![n] = top] \in Seq(Frame) /\ Len([below EXCEPT ![n] = top]) = n
    BY <2>1, <2>3
  <2>7. frames' \in [Thread -> Seq(Frame)]
    BY <1>1, <2>4, <2>6
  <2>8. \A i \in 1..n : [below EXCEPT ![n] = top][i] = IF i = n THEN top ELSE below[i]
    BY <2>1
  <2> QED
    BY <1>3, <2>3, <2>4, <2>5, <2>6, <2>7, <2>8 DEF Deliver
<1> QED
  BY <1>2, <1>3

-----------------------------------------------------------------------------
(* Nobody resolves while there is a register_() to come.                   *)

(* Once somebody resolves, every provider has registered. *)
LEMMA AllRegistered ==
  ASSUME TypeInv, PhaseInv, Stage # "register"
  PROVE  /\ \A i \in 1..Len(todo) : todo[i][1] # "register"
         /\ \A p \in DOMAIN Provider :
              \A k \in DOMAIN Provider[p].binds \union Provider[p].instances : factories[k] # None
<1>1. ASSUME NEW i \in 1..Len(todo), todo[i][1] = "register"
      PROVE  FALSE
  <2>1. todo \in Seq(Task) /\ todo # <<>>
    BY <1>1 DEF TypeInv
  <2>2. todo[1][1] = "register"
    <3>1. CASE i = 1
      BY <1>1, <3>1
    <3>2. CASE i # 1
      BY <1>1, <2>1, <3>2 DEF PhaseInv
    <3> QED
      BY <3>1, <3>2
  <2> QED
    BY <2>1, <2>2 DEF Stage
<1>2. \A p \in DOMAIN Provider : ~ \E i \in 1..Len(todo) : todo[i] = <<"register", p>>
  BY <1>1
<1> QED
  BY <1>1, <1>2 DEF PhaseInv

(* What a step that binds nothing leaves of PhaseInv. *)
LEMMA PhaseKept ==
  ASSUME TypeInv, PhaseInv, Stage # "register", UNCHANGED factories,
         todo' = todo \/ (todo # <<>> /\ todo' = Tail(todo)) \/ todo' = <<<<"ended", None>>>>
  PROVE  PhaseInv' /\ todo' \in Seq(Task)
<1>1. /\ \A i \in 1..Len(todo) : todo[i][1] # "register"
      /\ \A p \in DOMAIN Provider :
           \A k \in DOMAIN Provider[p].binds \union Provider[p].instances : factories[k] # None
  BY AllRegistered
<1>2. todo \in Seq(Task)
  BY DEF TypeInv
<1>3. todo' \in Seq(Task) /\ \A i \in 1..Len(todo') : todo'[i][1] # "register"
  <2>1. CASE todo' = todo
    BY <1>1, <1>2, <2>1
  <2>2. CASE todo # <<>> /\ todo' = Tail(todo)
    BY <1>1, <1>2, <2>2
  <2>3. CASE todo' = <<<<"ended", None>>>>
    BY <2>3 DEF Task
  <2> QED
    BY <2>1, <2>2, <2>3
<1>4. Stage' # "register"
  <2>1. CASE todo' = <<>>
    BY <2>1 DEF Stage
  <2>2. CASE todo' # <<>>
    BY <1>3, <2>2 DEF Stage
  <2> QED
    BY <2>1, <2>2
<1> QED
  BY <1>1, <1>3, <1>4 DEF PhaseInv

(* A thread in make_erased() is past the providers' first phase. *)
LEMMA BusyIsLate ==
  ASSUME PhaseInv, NEW t \in Thread, ~Idle(t)
  PROVE  Stage # "register"
BY DEF PhaseInv

-----------------------------------------------------------------------------
(* Each action preserves BaseInv.                                          *)

(* What register_() leaves. *)
LEMMA RegisterFacts ==
  ASSUME TypeInv, Register
  PROVE  \E i \in DOMAIN Provider :
           /\ Head(todo) = <<"register", i>> /\ todo # <<>> /\ todo' = Tail(todo)
           /\ factories' \in [Key -> Factory \union {None}]
           /\ instances' \in [Key -> Obj \union {None}]
           /\ \A k \in Provider[i].instances :
                /\ factories'[k].life = "instance" /\ factories'[k].make = "same"
                /\ factories'[k].deps = <<>> /\ factories'[k] # None /\ instances'[k] # None
           /\ \A k \in DOMAIN Provider[i].binds \ Provider[i].instances :
                factories'[k] = Provider[i].binds[k]
           /\ \A k \in Key : k \notin DOMAIN Provider[i].binds \union Provider[i].instances =>
                factories'[k] = factories[k]
           /\ \A k \in Key \ Provider[i].instances : instances'[k] = instances[k]
           /\ DOMAIN contextual' = DOMAIN Provider[i].contexts \union DOMAIN contextual
           /\ \A x \in DOMAIN contextual' :
                contextual'[x] = IF x \in DOMAIN Provider[i].contexts THEN Provider[i].contexts[x]
                                 ELSE contextual[x]
           /\ tags' \in [Tag -> Seq(Key)]
<1>1. todo \in Seq(Task) /\ todo # <<>> /\ Head(todo)[1] = "register" /\ todo' = Tail(todo)
  BY DEF Register, Stage, TypeInv
<1>2. Head(todo) \in Task
  BY <1>1
<1>3. PICK i \in DOMAIN Provider : Head(todo) = <<"register", i>>
  BY <1>1, <1>2 DEF Task
<1> DEFINE p == Provider[Head(todo)[2]]
           kept == [k \in p.instances |-> [type |-> k, n |-> 0]]
           constant == [k \in p.instances |->
                          [life |-> "instance", deps |-> <<>>, guard |-> FALSE, make |-> "same"]]
<1>4. /\ factories' = Merge(constant, Merge(p.binds, factories))
      /\ instances' = Merge(kept, instances)
      /\ contextual' = Merge(p.contexts, contextual)
      /\ tags' = [g \in Tag |-> IF g \in DOMAIN p.tags THEN tags[g] \o p.tags[g] ELSE tags[g]]
  BY DEF Register
<1>p. p = Provider[i]
  BY <1>3
<1>5. /\ DOMAIN p.binds \subseteq Key /\ p.instances \subseteq Key
      /\ \A k \in DOMAIN p.binds : p.binds[k] \in Factory
      /\ \A g \in DOMAIN p.tags : p.tags[g] \in Seq(Key)
  BY <1>p, ProviderFacts
<1>6. \A k \in p.instances : constant[k] \in Factory
  BY DEF Factory
<1>7. \A k \in p.instances : kept[k] \in Obj
  BY <1>5 DEF Obj
<1>8. factories \in [Key -> Factory \union {None}] /\ instances \in [Key -> Obj \union {None}]
      /\ tags \in [Tag -> Seq(Key)]
  BY DEF TypeInv
<1>9. DOMAIN constant = p.instances /\ DOMAIN kept = p.instances
  OBVIOUS
<1>10. \A k \in p.instances : constant[k].life = "instance" /\ constant[k].make = "same"
                              /\ constant[k].deps = <<>>
  OBVIOUS
<1>11. /\ factories' = [k \in Key |-> factories'[k]]
       /\ \A k \in Key : factories'[k] = IF k \in p.instances THEN constant[k]
                          ELSE IF k \in DOMAIN p.binds THEN p.binds[k] ELSE factories[k]
  <2> HIDE DEF constant, p
  <2> QED
    BY <1>4, <1>5, <1>8, <1>9 DEF Merge
<1>12. /\ instances' = [k \in Key |-> instances'[k]]
       /\ \A k \in Key : instances'[k] = IF k \in p.instances THEN kept[k] ELSE instances[k]
  <2> HIDE DEF kept, p
  <2> QED
    BY <1>4, <1>5, <1>8, <1>9 DEF Merge
<1>13. /\ DOMAIN contextual' = DOMAIN p.contexts \union DOMAIN contextual
       /\ \A x \in DOMAIN contextual' :
            contextual'[x] = IF x \in DOMAIN p.contexts THEN p.contexts[x] ELSE contextual[x]
  BY <1>4 DEF Merge
<1>14. tags' \in [Tag -> Seq(Key)]
  <2>1. ASSUME NEW g \in Tag
        PROVE  (IF g \in DOMAIN p.tags THEN tags[g] \o p.tags[g] ELSE tags[g]) \in Seq(Key)
    <3>1. tags[g] \in Seq(Key)
      BY <1>8
    <3>2. ASSUME g \in DOMAIN p.tags
          PROVE  tags[g] \o p.tags[g] \in Seq(Key)
      <4>1. p.tags[g] \in Seq(Key)
        BY <1>5, <3>2
      <4> HIDE DEF p
      <4> QED
        BY <3>1, <4>1, ConcatProperties
    <3> HIDE DEF p
    <3> QED
      BY <3>1, <3>2
  <2> HIDE DEF p
  <2> QED
    BY <1>4, <2>1
<1> HIDE DEF constant, kept, p
<1>15. factories' \in [Key -> Factory \union {None}] /\ instances' \in [Key -> Obj \union {None}]
  <2>1. \A k \in Key : factories'[k] \in Factory \union {None}
    BY <1>5, <1>6, <1>8, <1>11
  <2>2. \A k \in Key : instances'[k] \in Obj \union {None}
    BY <1>7, <1>8, <1>12
  <2> QED
    BY <1>11, <1>12, <2>1, <2>2
<1>16. \A k \in p.instances :
         /\ factories'[k].life = "instance" /\ factories'[k].make = "same"
         /\ factories'[k].deps = <<>> /\ factories'[k] # None /\ instances'[k] # None
  BY <1>5, <1>6, <1>7, <1>10, <1>11, <1>12, NoneFacts
<1>17. /\ \A k \in DOMAIN p.binds \ p.instances : factories'[k] = p.binds[k]
       /\ \A k \in Key : k \notin DOMAIN p.binds \union p.instances => factories'[k] = factories[k]
       /\ \A k \in Key \ p.instances : instances'[k] = instances[k]
  BY <1>5, <1>11, <1>12
<1> QED
  BY <1>1, <1>3, <1>p, <1>13, <1>14, <1>15, <1>16, <1>17

(* register_() preserves BaseInv: nobody resolves meanwhile. *)
LEMMA RegisterKeeps ==
  ASSUME BaseInv, Register
  PROVE  BaseInv'
<1>0. /\ TypeInv /\ PhaseInv /\ FactoryInv /\ Stage = "register"
      /\ UNCHANGED <<scoped, building, mutex, frames, ask, asks, throws, epoch, made, gave, failed>>
  BY DEF BaseInv, Register
<1>1. PICK i \in DOMAIN Provider :
        /\ Head(todo) = <<"register", i>> /\ todo # <<>> /\ todo' = Tail(todo)
        /\ factories' \in [Key -> Factory \union {None}]
        /\ instances' \in [Key -> Obj \union {None}]
        /\ \A k \in Provider[i].instances :
             /\ factories'[k].life = "instance" /\ factories'[k].make = "same"
             /\ factories'[k].deps = <<>> /\ factories'[k] # None /\ instances'[k] # None
        /\ \A k \in DOMAIN Provider[i].binds \ Provider[i].instances :
             factories'[k] = Provider[i].binds[k]
        /\ \A k \in Key : k \notin DOMAIN Provider[i].binds \union Provider[i].instances =>
             factories'[k] = factories[k]
        /\ \A k \in Key \ Provider[i].instances : instances'[k] = instances[k]
        /\ DOMAIN contextual' = DOMAIN Provider[i].contexts \union DOMAIN contextual
        /\ \A x \in DOMAIN contextual' :
             contextual'[x] = IF x \in DOMAIN Provider[i].contexts THEN Provider[i].contexts[x]
                              ELSE contextual[x]
        /\ tags' \in [Tag -> Seq(Key)]
  BY <1>0, RegisterFacts
<1>2. todo \in Seq(Task) /\ todo' \in Seq(Task) /\ Len(todo') = Len(todo) - 1
      /\ (\A j \in 1..Len(todo') : todo'[j] = todo[j + 1]) /\ todo[1] = <<"register", i>>
  BY <1>0, <1>1 DEF TypeInv
<1>3. TypeInv'
  <2>1. DOMAIN contextual' \subseteq Key \X Key /\ \A x \in DOMAIN contextual' : contextual'[x] \in Key
    BY <1>0, <1>1, ProviderFacts DEF TypeInv
  <2> QED
    BY <1>0, <1>1, <1>2, <2>1 DEF TypeInv
<1>4. \A t \in Thread : Idle(t) /\ Idle(t)'
  BY <1>0 DEF PhaseInv, Idle
<1>5. LockInv' /\ FrameInv'
  BY <1>4 DEF LockInv, FrameInv, Idle
<1>6. FactoryInv'
  <2> SUFFICES ASSUME NEW k \in Key, factories'[k] # None
               PROVE  /\ factories'[k].make # "list"
                      /\ factories'[k].life = "instance" => instances'[k] # None
                      /\ factories'[k].life # "instance" /\ factories'[k].make = "same" =>
                           Len(factories'[k].deps) = 1
    BY DEF FactoryInv
  <2>1. CASE k \in Provider[i].instances
    BY <1>1, <2>1
  <2>2. CASE k \in DOMAIN Provider[i].binds \ Provider[i].instances
    <3>1. factories'[k] = Provider[i].binds[k]
      BY <1>1, <2>2
    <3> QED
      BY <2>2, <3>1, ProviderFacts
  <2>3. CASE k \notin DOMAIN Provider[i].binds \union Provider[i].instances
    BY <1>0, <1>1, <2>3 DEF FactoryInv
  <2> QED
    BY <2>1, <2>2, <2>3
<1>7. PhaseInv'
  <2>1. ASSUME NEW h \in 1..Len(todo'), NEW j \in 1..Len(todo'), h < j, todo'[j][1] = "register"
        PROVE  todo'[h][1] = "register"
    <3>1. h + 1 \in 1..Len(todo) /\ j + 1 \in 1..Len(todo) /\ h + 1 < j + 1
      BY <1>2, <2>1
    <3>2. todo[j + 1][1] = "register"
      BY <1>2, <2>1
    <3>3. todo[h + 1][1] = "register"
      BY <1>0, <3>1, <3>2 DEF PhaseInv
    <3> QED
      BY <1>2, <3>3
  <2>2. (\A t \in Thread : Idle(t)') /\ gave' = {} /\ scoped' = [k \in Key |-> None]
    BY <1>0, <1>4 DEF PhaseInv
  <2>3. ASSUME NEW p \in DOMAIN Provider
        PROVE  \/ \E j \in 1..Len(todo') : todo'[j] = <<"register", p>>
               \/ \A k \in DOMAIN Provider[p].binds \union Provider[p].instances : factories'[k] # None
    <3>1. CASE p = i
      <4>1. ASSUME NEW k \in DOMAIN Provider[p].binds \ Provider[p].instances
            PROVE  factories'[k] # None
        <5>1. factories'[k] = Provider[i].binds[k] /\ Provider[i].binds[k] \in Factory
          BY <1>1, <3>1, <4>1, ProviderFacts
        <5> QED
          BY <5>1, NoneFacts
      <4> QED
        BY <1>1, <3>1, <4>1
    <3>2. CASE p # i /\ \E j \in 1..Len(todo) : todo[j] = <<"register", p>>
      <4>1. PICK j \in 1..Len(todo) : todo[j] = <<"register", p>>
        BY <3>2
      <4>2. j # 1
        BY <1>2, <3>2, <4>1
      <4>3. j - 1 \in 1..Len(todo') /\ todo'[j - 1] = <<"register", p>>
        <5>1. Len(todo) \in Nat /\ j - 1 \in 1..Len(todo')
          BY <1>2, <4>1, <4>2
        <5>2. todo'[j - 1] = todo[(j - 1) + 1] /\ (j - 1) + 1 = j
          BY <1>2, <5>1
        <5> QED
          BY <4>1, <5>1, <5>2
      <4> QED
        BY <4>3
    <3>3. CASE \A k \in DOMAIN Provider[p].binds \union Provider[p].instances : factories[k] # None
      <4> SUFFICES ASSUME NEW k \in DOMAIN Provider[p].binds \union Provider[p].instances
                   PROVE  factories'[k] # None
        OBVIOUS
      <4>1. k \in Key
        BY ProviderFacts
      <4>2. CASE k \in Provider[i].instances
        BY <1>1, <4>2
      <4>3. CASE k \in DOMAIN Provider[i].binds \ Provider[i].instances
        <5>1. factories'[k] = Provider[i].binds[k] /\ Provider[i].binds[k] \in Factory
          BY <1>1, <4>3, ProviderFacts
        <5> QED
          BY <5>1, NoneFacts
      <4>4. CASE k \notin DOMAIN Provider[i].binds \union Provider[i].instances
        BY <1>1, <3>3, <4>1, <4>4
      <4> QED
        BY <4>2, <4>3, <4>4
    <3> QED
      BY <1>0, <3>1, <3>2, <3>3 DEF PhaseInv
  <2> QED
    BY <2>1, <2>2, <2>3 DEF PhaseInv
<1> QED
  BY <1>3, <1>5, <1>6, <1>7 DEF BaseInv

(* While one thread is in make_erased() all others are out of it. *)
LEMMA Alone ==
  ASSUME LockInv, NEW t \in Thread, ~Idle(t)
  PROVE  mutex = t /\ \A u \in Thread \ {t} : Idle(u)
BY DEF LockInv

(* A step of the thread that holds the mutex, or takes it. *)
LEMMA StepKeeps ==
  ASSUME BaseInv, NEW t \in Thread, \A u \in Thread \ {t} : Idle(u), Stage # "register",
         UNCHANGED <<factories, contextual, tags>>,
         \A u \in Thread \ {t} : frames'[u] = frames[u] /\ ask'[u] = ask[u],
         mutex' = t \/ (mutex' = None /\ Idle(t)'),
         todo' = todo \/ (todo # <<>> /\ todo' = Tail(todo)) \/ todo' = <<<<"ended", None>>>>,
         instances' \in [Key -> Obj \union {None}], scoped' \in [Key -> Obj \union {None}],
         \A k \in Key : instances[k] # None => instances'[k] # None,
         building' \in Seq(Key), made' \in [Key -> Nat],
         frames' \in [Thread -> Seq(Frame)], ask' \in [Thread -> Ask \union {None}],
         asks' \in 0..MaxAsks, throws' \in 0..MaxThrows, epoch' \in 0..MaxForgets,
         \A i \in 1..Len(frames'[t]) :
           \/ frames'[t][i].key \in Tag /\ i = 1 /\ frames'[t][i].f.make = "list"
           \/ /\ frames'[t][i].key \in Key /\ frames'[t][i].f = factories[frames'[t][i].key]
              /\ frames'[t][i].f.life # "instance"
  PROVE  BaseInv'
<1>0. TypeInv /\ FactoryInv /\ PhaseInv
  BY DEF BaseInv
<1>1. PhaseInv' /\ todo' \in Seq(Task)
  BY <1>0, PhaseKept
<1>2. TypeInv'
  BY <1>0, <1>1 DEF TypeInv
<1>3. \A u \in Thread \ {t} : Idle(u)'
  BY DEF Idle
<1>4. LockInv'
  BY <1>3 DEF LockInv
<1>5. FactoryInv'
  BY <1>0 DEF FactoryInv
<1>6. FrameInv'
  <2>1. \A u \in Thread \ {t} : Len(frames'[u]) = 0
    BY <1>3 DEF Idle
  <2>2. ASSUME NEW u \in Thread, NEW i \in 1..Len(frames'[u])
        PROVE  \/ frames'[u][i].key \in Tag /\ i = 1 /\ frames'[u][i].f.make = "list"
               \/ /\ frames'[u][i].key \in Key /\ frames'[u][i].f = factories'[frames'[u][i].key]
                  /\ frames'[u][i].f.life # "instance"
    BY <2>1
  <2> QED
    BY <2>2 DEF FrameInv
<1> QED
  BY <1>1, <1>2, <1>4, <1>5, <1>6 DEF BaseInv

(* Who may take the mutex finds everybody out of make_erased(). *)
LEMMA LockAlone ==
  ASSUME LockInv, NEW t \in Thread, Idle(t), Lock(t)
  PROVE  \A u \in Thread : Idle(u)
BY NoneFacts DEF LockInv, Lock

(* The outermost resolve<T>() takes the mutex. *)
LEMMA BeginKeeps ==
  ASSUME BaseInv, NEW t \in Thread, NEW k \in Key, Begin(t, k), Stage # "register",
         UNCHANGED <<factories, contextual, tags, instances, scoped, building, frames, throws,
                     epoch, made>>,
         todo' = todo \/ (todo # <<>> /\ todo' = Tail(todo)), asks' \in 0..MaxAsks
  PROVE  BaseInv'
<1>0. TypeInv /\ LockInv /\ FrameInv
  BY DEF BaseInv
<1>1. \A u \in Thread : Idle(u)
  BY <1>0, LockAlone DEF Begin
<1>2. ask' = [ask EXCEPT ![t] = Lookup(k, k, 1)] /\ mutex' = t
  BY DEF Begin
<1>3. Lookup(k, k, 1) \in Ask
  BY DEF Lookup, Ask
<1>4. ask' \in [Thread -> Ask \union {None}] /\ \A u \in Thread \ {t} : ask'[u] = ask[u]
  BY <1>0, <1>2, <1>3 DEF TypeInv
<1>5. \A i \in 1..Len(frames'[t]) :
        \/ frames'[t][i].key \in Tag /\ i = 1 /\ frames'[t][i].f.make = "list"
        \/ /\ frames'[t][i].key \in Key /\ frames'[t][i].f = factories[frames'[t][i].key]
           /\ frames'[t][i].f.life # "instance"
  BY <1>1 DEF Idle
<1>6. /\ instances' \in [Key -> Obj \union {None}] /\ scoped' \in [Key -> Obj \union {None}]
      /\ building' \in Seq(Key) /\ made' \in [Key -> Nat] /\ frames' \in [Thread -> Seq(Frame)]
      /\ throws' \in 0..MaxThrows /\ epoch' \in 0..MaxForgets
  BY <1>0 DEF TypeInv
<1> QED
  BY <1>1, <1>2, <1>4, <1>5, <1>6, StepKeeps

(* A provider's boot() preserves BaseInv. *)
LEMMA BootKeeps ==
  ASSUME BaseInv, Boot
  PROVE  BaseInv'
<1>1. TypeInv /\ Stage = "boot" /\ todo # <<>> /\ todo \in Seq(Task) /\ Head(todo)[1] = "boot"
  BY DEF BaseInv, TypeInv, Boot, Stage
<1>2. Head(todo) \in Task
  BY <1>1
<1>3. Head(todo)[2] \in DOMAIN Provider
  BY <1>1, <1>2 DEF Task
<1>4. Provider[Head(todo)[2]].boots \in Key
  BY <1>3, ProviderFacts
<1>5. Main \in Thread
  BY ContainerAssumption
<1>6. asks' \in 0..MaxAsks
  BY <1>1 DEF TypeInv, Boot
<1> QED
  BY <1>1, <1>4, <1>5, <1>6, BeginKeeps DEF Boot

(* A request's resolve<T>() preserves BaseInv. *)
LEMMA ResolveKeeps ==
  ASSUME BaseInv, NEW t \in Thread, NEW k \in Key, Resolve(t, k)
  PROVE  BaseInv'
<1>1. asks' \in 0..MaxAsks
  BY ContainerAssumption DEF BaseInv, TypeInv, Resolve
<1> QED
  BY <1>1, BeginKeeps DEF Resolve, conf

(* tagged() preserves BaseInv. *)
LEMMA TaggedKeeps ==
  ASSUME BaseInv, NEW t \in Thread, NEW g \in Tag, tagged(t, g)
  PROVE  BaseInv'
<1>0. TypeInv /\ LockInv
  BY DEF BaseInv
<1>1. \A u \in Thread : Idle(u)
  BY <1>0, LockAlone DEF tagged
<1> DEFINE fr == [want |-> g, key |-> g, slot |-> 1, got |-> <<>>,
                  f |-> [life |-> "transient", deps |-> tags[g], guard |-> FALSE, make |-> "list"]]
<1>2. fr.f \in Factory
  BY <1>0 DEF TypeInv, Factory
<1>3. fr \in Frame /\ fr.key = g /\ fr.f.make = "list"
  BY <1>2, GotFacts DEF Frame
<1>4. frames' = [frames EXCEPT ![t] = <<fr>>] /\ mutex' = t /\ asks' = asks + 1 /\ asks < MaxAsks
  BY DEF tagged
<1> HIDE DEF fr
<1>5. /\ frames' \in [Thread -> Seq(Frame)] /\ frames'[t] = <<fr>>
      /\ \A u \in Thread \ {t} : frames'[u] = frames[u]
  BY <1>0, <1>3, <1>4 DEF TypeInv
<1>6. \A i \in 1..Len(frames'[t]) :
        frames'[t][i].key \in Tag /\ i = 1 /\ frames'[t][i].f.make = "list"
  BY <1>3, <1>5
<1>7. asks' \in 0..MaxAsks
  BY <1>0, <1>4, ContainerAssumption DEF TypeInv
<1>8. /\ Stage = "up"
      /\ UNCHANGED <<conf, instances, scoped, building, ask, throws, epoch, made>>
  BY DEF tagged
<1> QED
  BY <1>0, <1>1, <1>4, <1>5, <1>6, <1>7, <1>8, StepKeeps, ZenonT(60) DEF conf, TypeInv

(* A contextual binding leads to another type and preserves BaseInv. *)
LEMMA RedirectKeeps ==
  ASSUME BaseInv, NEW t \in Thread, Redirect(t)
  PROVE  /\ BaseInv'
         /\ ask[t] \in Ask /\ ask' \in [Thread -> Ask \union {None}]
         /\ <<Last(building), ask[t].key>> \in DOMAIN contextual
         /\ ask'[t].key = contextual[<<Last(building), ask[t].key>>]
<1>0. TypeInv /\ LockInv /\ FrameInv /\ PhaseInv /\ ~Idle(t)
  BY DEF BaseInv, Redirect, Idle
<1>1. mutex = t /\ (\A u \in Thread \ {t} : Idle(u)) /\ Stage # "register"
  BY <1>0, Alone, BusyIsLate
<1>2. ask[t] \in Ask /\ <<Last(building), ask[t].key>> \in DOMAIN contextual
  BY <1>0 DEF TypeInv, Redirect, Override
<1>3. contextual[<<Last(building), ask[t].key>>] \in Key
  BY <1>0, <1>2 DEF TypeInv
<1>4. ask' = [ask EXCEPT ![t].key = contextual[<<Last(building), ask[t].key>>]]
  BY DEF Redirect
<1>5. /\ ask' \in [Thread -> Ask \union {None}] /\ \A u \in Thread \ {t} : ask'[u] = ask[u]
      /\ ask'[t].key = contextual[<<Last(building), ask[t].key>>]
  <2> DEFINE c == contextual[<<Last(building), ask[t].key>>]
  <2>1. ask' = [ask EXCEPT ![t].key = c] /\ c \in Key
    BY <1>3, <1>4
  <2> HIDE DEF c
  <2>2. [ask[t] EXCEPT !.key = c] \in Ask /\ [ask[t] EXCEPT !.key = c].key = c
    BY <1>2, <2>1 DEF Ask
  <2>3. ask' = [ask EXCEPT ![t] = [ask[t] EXCEPT !.key = c]]
    BY <2>1
  <2>4. ask' \in [Thread -> Ask \union {None}] /\ ask'[t].key = c
        /\ \A u \in Thread \ {t} : ask'[u] = ask[u]
    BY <1>0, <2>2, <2>3 DEF TypeInv
  <2> QED
    BY <2>4 DEF c
<1>6. UNCHANGED <<conf, instances, scoped, building, mutex, frames, asks, throws, epoch, made>>
  BY DEF Redirect
<1>7. \A i \in 1..Len(frames'[t]) :
        \/ frames'[t][i].key \in Tag /\ i = 1 /\ frames'[t][i].f.make = "list"
        \/ /\ frames'[t][i].key \in Key /\ frames'[t][i].f = factories[frames'[t][i].key]
           /\ frames'[t][i].f.life # "instance"
  BY <1>0, <1>6 DEF FrameInv
<1>8. BaseInv'
  BY <1>0, <1>1, <1>5, <1>6, <1>7, StepKeeps DEF conf, TypeInv
<1> QED
  BY <1>2, <1>5, <1>8

(* A kept value is an object. *)
LEMMA MemoType ==
  ASSUME TypeInv, NEW k \in Key
  PROVE  Memo(k) \in Obj \union {None}
BY DEF TypeInv, Memo

(* What Return(t) does to the frames. *)
LEMMA ReturnFacts ==
  ASSUME BaseInv, NEW t \in Thread, Return(t)
  PROVE  /\ ask[t] \in Ask /\ Memo(ask[t].key) \in Obj
         /\ frames' \in [Thread -> Seq(Frame)]
         /\ \A u \in Thread \ {t} : frames'[u] = frames[u]
         /\ Len(frames'[t]) = Len(frames[t])
         /\ \A i \in 1..Len(frames[t]) :
              frames'[t][i].key = frames[t][i].key /\ frames'[t][i].f = frames[t][i].f
         /\ mutex' = IF frames[t] = <<>> THEN None ELSE mutex
         /\ gave' = gave \union {[want |-> ask[t].want, key |-> ask[t].key,
                                  by |-> Consumer(frames[t]), obj |-> Memo(ask[t].key),
                                  epoch |-> epoch]}
<1>1. TypeInv
  BY DEF BaseInv
<1>2. ask[t] \in Ask /\ frames[t] \in Seq(Frame)
  BY <1>1 DEF Return, Found, TypeInv
<1>3. ask[t].slot \in Nat /\ ask[t].key \in Key
  BY <1>2 DEF Ask
<1>4. Memo(ask[t].key) \in Obj
  BY <1>1, <1>3, MemoType DEF Return
<1>5. Deliver(t, ask[t], Memo(ask[t].key), frames[t])
  BY DEF Return
<1> QED
  BY <1>1, <1>2, <1>3, <1>4, <1>5, DeliverFacts

(* Returning a kept value preserves BaseInv. *)
LEMMA ReturnKeeps ==
  ASSUME BaseInv, NEW t \in Thread, Return(t)
  PROVE  BaseInv'
<1>0. TypeInv /\ LockInv /\ FrameInv /\ PhaseInv /\ ~Idle(t)
  BY DEF BaseInv, Return, Found, Idle
<1>1. mutex = t /\ (\A u \in Thread \ {t} : Idle(u)) /\ Stage # "register"
  BY <1>0, Alone, BusyIsLate
<1>2. /\ frames' \in [Thread -> Seq(Frame)] /\ \A u \in Thread \ {t} : frames'[u] = frames[u]
      /\ Len(frames'[t]) = Len(frames[t])
      /\ \A i \in 1..Len(frames[t]) :
           frames'[t][i].key = frames[t][i].key /\ frames'[t][i].f = frames[t][i].f
      /\ mutex' = IF frames[t] = <<>> THEN None ELSE mutex
  BY ReturnFacts
<1>3. /\ ask' = [ask EXCEPT ![t] = None]
      /\ UNCHANGED <<conf, instances, scoped, building, asks, throws, epoch, made>>
  BY DEF Return
<1>4. /\ ask' \in [Thread -> Ask \union {None}] /\ ask'[t] = None
      /\ \A u \in Thread \ {t} : ask'[u] = ask[u]
  BY <1>0, <1>3 DEF TypeInv
<1>5. mutex' = t \/ (mutex' = None /\ Idle(t)')
  <2>1. frames[t] \in Seq(Frame) /\ frames'[t] \in Seq(Frame)
    BY <1>0, <1>2 DEF TypeInv
  <2>2. frames[t] = <<>> => frames'[t] = <<>>
    BY <1>2, <2>1
  <2> QED
    BY <1>1, <1>2, <1>4, <2>2 DEF Idle
<1>6. \A i \in 1..Len(frames'[t]) :
        \/ frames'[t][i].key \in Tag /\ i = 1 /\ frames'[t][i].f.make = "list"
        \/ /\ frames'[t][i].key \in Key /\ frames'[t][i].f = factories[frames'[t][i].key]
           /\ frames'[t][i].f.life # "instance"
  BY <1>0, <1>2 DEF FrameInv
<1> QED
  BY <1>0, <1>1, <1>2, <1>3, <1>4, <1>5, <1>6, StepKeeps DEF conf, TypeInv

(* What Build(t) does to the frames: one more on top, for the type that is  *)
(* looked up, whose factory is not an instance()'s.                        *)
LEMMA BuildFacts ==
  ASSUME BaseInv, NEW t \in Thread, Build(t)
  PROVE  /\ ask[t] \in Ask /\ factories[ask[t].key] \in Factory
         /\ Memo(ask[t].key) = None /\ factories[ask[t].key].life # "instance"
         /\ frames' \in [Thread -> Seq(Frame)]
         /\ \A u \in Thread \ {t} : frames'[u] = frames[u]
         /\ Len(frames'[t]) = Len(frames[t]) + 1
         /\ \A i \in 1..Len(frames[t]) : frames'[t][i] = frames[t][i]
         /\ frames'[t][Len(frames[t]) + 1].key = ask[t].key
         /\ frames'[t][Len(frames[t]) + 1].f = factories[ask[t].key]
<1>1. TypeInv /\ FactoryInv
  BY DEF BaseInv
<1>2. ask[t] \in Ask /\ frames[t] \in Seq(Frame)
  BY <1>1 DEF Build, Found, TypeInv
<1>3. ask[t].slot \in Nat /\ ask[t].key \in Key /\ ask[t].want \in Key
  BY <1>2 DEF Ask
<1>4. factories[ask[t].key] \in Factory /\ factories[ask[t].key] # None /\ Memo(ask[t].key) = None
  BY <1>1, <1>3 DEF Build, Found, TypeInv
<1>5. factories[ask[t].key].life # "instance"
  BY <1>1, <1>3, <1>4 DEF FactoryInv, Memo
<1> DEFINE fr == [want |-> ask[t].want, key |-> ask[t].key, slot |-> ask[t].slot, got |-> <<>>,
                  f |-> factories[ask[t].key]]
<1>6. fr \in Frame /\ fr.key = ask[t].key /\ fr.f = factories[ask[t].key]
  BY <1>3, <1>4, GotFacts DEF Frame
<1>7. frames' = [frames EXCEPT ![t] = Append(frames[t], fr)]
  BY DEF Build
<1> HIDE DEF fr
<1>8. /\ frames' \in [Thread -> Seq(Frame)] /\ frames'[t] = Append(frames[t], fr)
      /\ \A u \in Thread \ {t} : frames'[u] = frames[u]
  BY <1>1, <1>2, <1>6, <1>7 DEF TypeInv
<1>9. /\ Len(frames'[t]) = Len(frames[t]) + 1 /\ frames'[t][Len(frames[t]) + 1] = fr
      /\ \A i \in 1..Len(frames[t]) : frames'[t][i] = frames[t][i]
  BY <1>2, <1>8
<1> QED
  BY <1>2, <1>4, <1>5, <1>6, <1>8, <1>9

(* Calling a factory preserves BaseInv. *)
LEMMA BuildKeeps ==
  ASSUME BaseInv, NEW t \in Thread, Build(t)
  PROVE  BaseInv'
<1>0. TypeInv /\ LockInv /\ FrameInv /\ PhaseInv /\ ~Idle(t)
  BY DEF BaseInv, Build, Found, Idle
<1>1. mutex = t /\ (\A u \in Thread \ {t} : Idle(u)) /\ Stage # "register"
  BY <1>0, Alone, BusyIsLate
<1>2. /\ ask[t] \in Ask /\ factories[ask[t].key].life # "instance"
      /\ frames' \in [Thread -> Seq(Frame)] /\ \A u \in Thread \ {t} : frames'[u] = frames[u]
      /\ Len(frames'[t]) = Len(frames[t]) + 1
      /\ \A i \in 1..Len(frames[t]) : frames'[t][i] = frames[t][i]
      /\ frames'[t][Len(frames[t]) + 1].key = ask[t].key
      /\ frames'[t][Len(frames[t]) + 1].f = factories[ask[t].key]
  BY BuildFacts
<1>3. /\ ask' = [ask EXCEPT ![t] = None]
      /\ UNCHANGED <<conf, instances, scoped, mutex, asks, throws, epoch, made>>
      /\ building' \in {building, Append(building, ask[t].key)}
  BY DEF Build
<1>4. /\ ask' \in [Thread -> Ask \union {None}] /\ \A u \in Thread \ {t} : ask'[u] = ask[u]
  BY <1>0, <1>3 DEF TypeInv
<1>5. ask[t].key \in Key
  BY <1>2 DEF Ask
<1>6. building' \in Seq(Key)
  <2>1. building \in Seq(Key) /\ Append(building, ask[t].key) \in Seq(Key)
    BY <1>0, <1>5, AppendProperties DEF TypeInv
  <2> QED
    BY <1>3, <2>1
<1>7. Len(frames[t]) \in Nat
  BY <1>0 DEF TypeInv
<1>8. \A i \in 1..Len(frames'[t]) :
        \/ frames'[t][i].key \in Tag /\ i = 1 /\ frames'[t][i].f.make = "list"
        \/ /\ frames'[t][i].key \in Key /\ frames'[t][i].f = factories[frames'[t][i].key]
           /\ frames'[t][i].f.life # "instance"
  <2> SUFFICES ASSUME NEW i \in 1..Len(frames'[t])
               PROVE  \/ frames'[t][i].key \in Tag /\ i = 1 /\ frames'[t][i].f.make = "list"
                      \/ /\ frames'[t][i].key \in Key
                         /\ frames'[t][i].f = factories[frames'[t][i].key]
                         /\ frames'[t][i].f.life # "instance"
    OBVIOUS
  <2>1. CASE i = Len(frames[t]) + 1
    BY <1>2, <1>5, <2>1
  <2>2. CASE i # Len(frames[t]) + 1
    <3>1. i \in 1..Len(frames[t]) /\ frames'[t][i] = frames[t][i]
      BY <1>2, <1>7, <2>2
    <3> QED
      BY <1>0, <3>1 DEF FrameInv
  <2> QED
    BY <2>1, <2>2
<1> QED
  BY <1>0, <1>1, <1>2, <1>3, <1>4, <1>6, <1>8, StepKeeps DEF conf, TypeInv

(* What is next among a factory's resolve<Dep>() calls. *)
LEMMA ResolveDepFacts ==
  ASSUME BaseInv, NEW t \in Thread, ResolveDep(t)
  PROVE  /\ ask' \in [Thread -> Ask \union {None}] /\ \A u \in Thread \ {t} : ask'[u] = ask[u]
         /\ Len(frames[t]) \in Nat \ {0}
         /\ \E s \in DOMAIN frames[t][Len(frames[t])].f.deps :
              ask'[t].key = frames[t][Len(frames[t])].f.deps[s]
<1>1. TypeInv
  BY DEF BaseInv
<1>2. frames[t] \in Seq(Frame) /\ frames[t] # <<>>
  BY <1>1 DEF ResolveDep, InFactory, TypeInv
<1>3. Len(frames[t]) \in Nat \ {0} /\ frames[t][Len(frames[t])] \in Frame
  BY <1>2
<1> DEFINE deps == frames[t][Len(frames[t])].f.deps
<1>4. deps \in Seq(Key)
  BY <1>3 DEF Frame, Factory
<1>5. PICK s \in DOMAIN deps : ask' = [ask EXCEPT ![t] = Lookup(deps[s], deps[s], s)]
  <2>1. PICK r \in Missing(t) :
          ask' = [ask EXCEPT ![t] = Lookup(Top(t).f.deps[r], Top(t).f.deps[r], r)]
    BY DEF ResolveDep
  <2>2. Top(t).f.deps = deps /\ Missing(t) \subseteq DOMAIN deps
    BY DEF Missing, Top, Last
  <2> HIDE DEF deps
  <2> QED
    BY <2>1, <2>2
<1> HIDE DEF deps
<1>6. Lookup(deps[s], deps[s], s) \in Ask /\ Lookup(deps[s], deps[s], s).key = deps[s]
  BY <1>4 DEF Lookup, Ask
<1>7. /\ ask' \in [Thread -> Ask \union {None}] /\ \A u \in Thread \ {t} : ask'[u] = ask[u]
      /\ ask'[t].key = deps[s]
  BY <1>1, <1>5, <1>6 DEF TypeInv
<1>8. \E r \in DOMAIN deps : ask'[t].key = deps[r]
  BY <1>7
<1> QED
  BY <1>3, <1>7, <1>8 DEF deps

(* A factory's resolve<Dep>() preserves BaseInv. *)
LEMMA ResolveDepKeeps ==
  ASSUME BaseInv, NEW t \in Thread, ResolveDep(t)
  PROVE  BaseInv'
<1>0. TypeInv /\ LockInv /\ FrameInv /\ PhaseInv /\ ~Idle(t)
  BY DEF BaseInv, ResolveDep, InFactory, Idle
<1>1. mutex = t /\ (\A u \in Thread \ {t} : Idle(u)) /\ Stage # "register"
  BY <1>0, Alone, BusyIsLate
<1>2. /\ ask' \in [Thread -> Ask \union {None}] /\ \A u \in Thread \ {t} : ask'[u] = ask[u]
  BY ResolveDepFacts
<1>3. UNCHANGED <<conf, instances, scoped, building, mutex, frames, asks, throws, epoch, made>>
  BY DEF ResolveDep
<1>4. \A i \in 1..Len(frames'[t]) :
        \/ frames'[t][i].key \in Tag /\ i = 1 /\ frames'[t][i].f.make = "list"
        \/ /\ frames'[t][i].key \in Key /\ frames'[t][i].f = factories[frames'[t][i].key]
           /\ frames'[t][i].f.life # "instance"
  BY <1>0, <1>3 DEF FrameInv
<1> QED
  BY <1>0, <1>1, <1>2, <1>3, <1>4, StepKeeps DEF conf, TypeInv

(* What a factory is, when it returns: tagged()'s, or the one bound to its  *)
(* type, which then gives an object.                                       *)
LEMMA ConstructFacts ==
  ASSUME BaseInv, NEW t \in Thread, Construct(t)
  PROVE  LET n == Len(frames[t])
             k == frames[t][n].key
         IN /\ n \in Nat \ {0} /\ ask[t] = None
            /\ \/ /\ k \in Tag /\ k \notin Key /\ mutex' = None
                  /\ frames' = [frames EXCEPT ![t] = <<>>] /\ gave' = gave
                  /\ instances' = instances /\ scoped' = scoped /\ made' = made
               \/ \E obj \in Obj :
                  /\ k \in Key /\ factories[k] \in Factory /\ factories[k] # None
                  /\ factories[k].life # "instance"
                  /\ frames[t][n].slot \in Nat
                  /\ Deliver(t, frames[t][n], obj, Front(frames[t]))
                  /\ instances' = IF factories[k].life = "singleton"
                                  THEN [instances EXCEPT ![k] = obj] ELSE instances
                  /\ scoped' = IF factories[k].life = "scoped"
                               THEN [scoped EXCEPT ![k] = obj] ELSE scoped
                  /\ made' \in [Key -> Nat]
<1> DEFINE n == Len(frames[t])
           fr == frames[t][n]
           k == fr.key
           obj == CASE fr.f.make = "same" -> fr.got[1]
                    [] fr.f.make = "new" -> [type |-> k, n |-> made[k] + 1]
                    [] fr.f.make = "list" -> fr.got
<1>1. TypeInv /\ FrameInv /\ FactoryInv
  BY DEF BaseInv
<1>2. frames[t] \in Seq(Frame) /\ frames[t] # <<>> /\ ask[t] = None
  BY <1>1 DEF Construct, InFactory, TypeInv
<1>3. n \in Nat \ {0} /\ n \in 1..n /\ fr \in Frame
  BY <1>2
<1>4. /\ Top(t) = fr /\ DOMAIN fr.f.deps \subseteq DOMAIN fr.got
  BY DEF Construct, Top, Last, Missing
<1>5. /\ Keep(k, obj)
      /\ made' = IF fr.f.make = "new" THEN [made EXCEPT ![k] = @ + 1] ELSE made
      /\ IF fr.f.make = "list"
         THEN mutex' = None /\ frames' = [frames EXCEPT ![t] = <<>>] /\ gave' = gave
         ELSE Deliver(t, fr, obj, Front(frames[t]))
  BY DEF Construct, Top, Last
<1>6. \/ k \in Tag /\ fr.f.make = "list"
      \/ k \in Key /\ fr.f = factories[k] /\ fr.f.life # "instance"
  BY <1>1, <1>3 DEF FrameInv
<1>7. CASE k \in Tag /\ fr.f.make = "list"
  <2>1. k \notin Key
    BY <1>7, NoneFacts
  <2>2. instances' = instances /\ scoped' = scoped
    BY <1>5, <2>1 DEF Keep
  <2> QED
    BY <1>2, <1>3, <1>5, <1>7, <2>1, <2>2
<1>8. CASE k \in Key /\ fr.f = factories[k] /\ fr.f.life # "instance"
  <2>1. fr.f \in Factory /\ fr.slot \in Nat /\ fr.got \in Got
    BY <1>3 DEF Frame
  <2>2. factories[k] \in Factory /\ factories[k] # None
    BY <1>8, <2>1, NoneFacts
  <2>3. fr.f.make \in {"new", "same"} /\ (fr.f.make = "same" => Len(fr.f.deps) = 1)
    BY <1>1, <1>8, <2>1, <2>2 DEF FactoryInv, Factory
  <2>4. made \in [Key -> Nat]
    BY <1>1 DEF TypeInv
  <2>5. obj \in Obj
    <3>1. CASE fr.f.make = "new"
      <4>1. obj = [type |-> k, n |-> made[k] + 1]
        BY <3>1
      <4>2. k \in Key /\ made[k] + 1 \in Nat
        BY <1>8, <2>4
      <4>3. [type |-> k, n |-> made[k] + 1] \in Obj
        BY <4>2 DEF Obj
      <4> HIDE DEF obj
      <4> QED
        BY <4>1, <4>3
    <3>2. CASE fr.f.make = "same"
      <4>1. obj = fr.got[1]
        BY <3>2
      <4>2. fr.f.deps \in Seq(Key) /\ Len(fr.f.deps) = 1
        BY <2>1, <2>3, <3>2 DEF Factory
      <4>3. 1 \in DOMAIN fr.got
        BY <1>4, <4>2
      <4> QED
        BY <2>1, <4>1, <4>3, GotFacts
    <3> QED
      BY <2>3, <3>1, <3>2
  <2> HIDE DEF obj
  <2>6. /\ instances' = IF factories[k].life = "singleton"
                         THEN [instances EXCEPT ![k] = obj] ELSE instances
        /\ scoped' = IF factories[k].life = "scoped" THEN [scoped EXCEPT ![k] = obj] ELSE scoped
    BY <1>5, <1>8 DEF Keep
  <2>7. made' \in [Key -> Nat]
    BY <1>5, <1>8, <2>4
  <2>8. Deliver(t, fr, obj, Front(frames[t]))
    BY <1>5, <2>3
  <2> HIDE DEF fr
  <2> QED
    BY <1>2, <1>3, <1>8, <2>1, <2>2, <2>5, <2>6, <2>7, <2>8 DEF fr
<1> HIDE DEF obj
<1> QED
  BY <1>6, <1>7, <1>8

(* What is below the innermost frame. *)
LEMMA FrontFacts ==
  ASSUME NEW S, NEW q \in Seq(S), q # <<>>
  PROVE  /\ Front(q) \in Seq(S) /\ Len(Front(q)) = Len(q) - 1
         /\ \A i \in 1..(Len(q) - 1) : Front(q)[i] = q[i]
BY DEF Front

(* ~ContextGuard leaves a stack of types. *)
LEMMA PoppedType ==
  ASSUME building \in Seq(Key), NEW n \in Nat
  PROVE  Popped(n) \in Seq(Key)
<1>1. Len(building) \in Nat /\ Len(building) - n \in Int /\ Len(building) - n <= Len(building)
  OBVIOUS
<1>2. \A i \in 1..(Len(building) - n) : building[i] \in Key
  BY <1>1
<1> QED
  BY <1>1, <1>2 DEF Popped

(* What Construct(t) does to the frames: the innermost goes, and those     *)
(* below keep their types and factories.                                   *)
LEMMA ConstructFrames ==
  ASSUME BaseInv, NEW t \in Thread, Construct(t)
  PROVE  /\ frames' \in [Thread -> Seq(Frame)]
         /\ \A u \in Thread \ {t} : frames'[u] = frames[u]
         /\ Len(frames'[t]) < Len(frames[t])
         /\ \A i \in 1..Len(frames'[t]) :
              frames'[t][i].key = frames[t][i].key /\ frames'[t][i].f = frames[t][i].f
         /\ mutex' = mutex \/ (mutex' = None /\ frames'[t] = <<>>)
<1> DEFINE n == Len(frames[t])
           k == frames[t][n].key
<1>1. TypeInv
  BY DEF BaseInv
<1>2. frames \in [Thread -> Seq(Frame)] /\ frames[t] \in Seq(Frame)
  BY <1>1 DEF TypeInv
<1>3. n \in Nat \ {0}
  BY ConstructFacts
<1>4. CASE mutex' = None /\ frames' = [frames EXCEPT ![t] = <<>>]
  BY <1>2, <1>3, <1>4
<1>5. CASE \E obj \in Obj : frames[t][n].slot \in Nat /\ Deliver(t, frames[t][n], obj, Front(frames[t]))
  <2>1. PICK obj \in Obj : frames[t][n].slot \in Nat /\ Deliver(t, frames[t][n], obj, Front(frames[t]))
    BY <1>5
  <2>2. /\ Front(frames[t]) \in Seq(Frame) /\ Len(Front(frames[t])) = n - 1
        /\ \A i \in 1..(n - 1) : Front(frames[t])[i] = frames[t][i]
    BY <1>2, <1>3, FrontFacts
  <2>3. /\ frames' \in [Thread -> Seq(Frame)]
        /\ \A u \in Thread \ {t} : frames'[u] = frames[u]
        /\ Len(frames'[t]) = Len(Front(frames[t]))
        /\ \A i \in 1..Len(Front(frames[t])) :
             /\ frames'[t][i].key = Front(frames[t])[i].key
             /\ frames'[t][i].f = Front(frames[t])[i].f
        /\ mutex' = IF Front(frames[t]) = <<>> THEN None ELSE mutex
    BY <1>1, <2>1, <2>2, DeliverFacts
  <2>4. Front(frames[t]) = <<>> => frames'[t] = <<>>
    <3>1. frames'[t] \in Seq(Frame)
      BY <2>3
    <3> QED
      BY <2>3, <3>1
  <2> QED
    BY <1>3, <2>2, <2>3, <2>4
<1> QED
  BY <1>4, <1>5, ConstructFacts

(* A factory that returns preserves BaseInv. *)
LEMMA ConstructKeeps ==
  ASSUME BaseInv, NEW t \in Thread, Construct(t)
  PROVE  BaseInv'
<1> DEFINE n == Len(frames[t])
           k == frames[t][n].key
<1>0. TypeInv /\ LockInv /\ FrameInv /\ PhaseInv /\ ~Idle(t) /\ ask[t] = None
  BY DEF BaseInv, Construct, InFactory, Idle
<1>1. mutex = t /\ (\A u \in Thread \ {t} : Idle(u)) /\ Stage # "register"
  BY <1>0, Alone, BusyIsLate
<1>2. /\ frames' \in [Thread -> Seq(Frame)]
      /\ \A u \in Thread \ {t} : frames'[u] = frames[u]
      /\ Len(frames'[t]) < Len(frames[t])
      /\ \A i \in 1..Len(frames'[t]) :
           frames'[t][i].key = frames[t][i].key /\ frames'[t][i].f = frames[t][i].f
      /\ mutex' = mutex \/ (mutex' = None /\ frames'[t] = <<>>)
  BY ConstructFrames
<1>3. UNCHANGED <<conf, ask, asks, throws, epoch, failed>> /\ \E j \in {0, 1} : building' = Popped(j)
  BY DEF Construct
<1>4. building' \in Seq(Key)
  BY <1>0, <1>3, PoppedType DEF TypeInv
<1>5. /\ instances' \in [Key -> Obj \union {None}] /\ scoped' \in [Key -> Obj \union {None}]
      /\ made' \in [Key -> Nat]
      /\ \A j \in Key : instances[j] # None => instances'[j] # None
  <2>1. /\ instances \in [Key -> Obj \union {None}] /\ scoped \in [Key -> Obj \union {None}]
        /\ made \in [Key -> Nat]
    BY <1>0 DEF TypeInv
  <2>2. CASE instances' = instances /\ scoped' = scoped /\ made' = made
    BY <2>1, <2>2
  <2>3. ASSUME NEW obj \in Obj, k \in Key, made' \in [Key -> Nat],
               instances' = IF factories[k].life = "singleton"
                            THEN [instances EXCEPT ![k] = obj] ELSE instances,
               scoped' = IF factories[k].life = "scoped" THEN [scoped EXCEPT ![k] = obj] ELSE scoped
        PROVE  /\ instances' \in [Key -> Obj \union {None}] /\ scoped' \in [Key -> Obj \union {None}]
               /\ made' \in [Key -> Nat]
               /\ \A j \in Key : instances[j] # None => instances'[j] # None
    BY <2>1, <2>3, NoneFacts
  <2> QED
    BY <2>2, <2>3, ConstructFacts
<1>6. mutex' = t \/ (mutex' = None /\ Idle(t)')
  BY <1>0, <1>1, <1>2, <1>3 DEF Idle
<1>7. Len(frames[t]) \in Nat /\ Len(frames'[t]) \in Nat
  BY <1>0, <1>2 DEF TypeInv
<1>8. \A i \in 1..Len(frames'[t]) :
        \/ frames'[t][i].key \in Tag /\ i = 1 /\ frames'[t][i].f.make = "list"
        \/ /\ frames'[t][i].key \in Key /\ frames'[t][i].f = factories[frames'[t][i].key]
           /\ frames'[t][i].f.life # "instance"
  <2>1. \A i \in 1..Len(frames'[t]) : i \in 1..Len(frames[t])
    BY <1>2, <1>7
  <2> QED
    BY <1>0, <1>2, <2>1 DEF FrameInv
<1> QED
  BY <1>0, <1>1, <1>2, <1>3, <1>4, <1>5, <1>6, <1>8, StepKeeps DEF conf, TypeInv

(* An exception that leaves make_erased() preserves BaseInv. *)
LEMMA UnwindKeeps ==
  ASSUME BaseInv, NEW t \in Thread, ~Idle(t), Unwind(t), throws' \in 0..MaxThrows,
         UNCHANGED <<factories, contextual, tags, instances, scoped, asks, epoch, made>>
  PROVE  /\ BaseInv' /\ \A u \in Thread \ {t} : frames'[u] = frames[u] /\ ask'[u] = ask[u]
         /\ frames'[t] = <<>> /\ ask'[t] = None
<1>0. TypeInv /\ LockInv /\ PhaseInv
  BY DEF BaseInv
<1>1. mutex = t /\ (\A u \in Thread \ {t} : Idle(u)) /\ Stage # "register"
  BY <1>0, Alone, BusyIsLate
<1>2. /\ frames' = [frames EXCEPT ![t] = <<>>] /\ ask' = [ask EXCEPT ![t] = None]
      /\ mutex' = None /\ building' = Popped(Guards(t))
      /\ todo' = todo \/ todo' = <<<<"ended", None>>>>
  BY DEF Unwind, Escapes
<1>3. /\ frames' \in [Thread -> Seq(Frame)] /\ frames'[t] = <<>>
      /\ ask' \in [Thread -> Ask \union {None}] /\ ask'[t] = None
      /\ \A u \in Thread \ {t} : frames'[u] = frames[u] /\ ask'[u] = ask[u]
  BY <1>0, <1>2 DEF TypeInv
<1>4. Guards(t) \in Nat
  <2>1. IsFiniteSet(DOMAIN frames[t])
    <3>1. DOMAIN frames[t] = 1..Len(frames[t]) /\ Len(frames[t]) \in Nat
      BY <1>0 DEF TypeInv
    <3>2. \A m \in Nat : IsFiniteSet(1..m)
      <4> TAKE m \in Nat
      <4>1. 1 \in Int /\ m \in Int
        OBVIOUS
      <4> QED
        BY ONLY <4>1, FS_Interval
    <3> QED
      BY <3>1, <3>2
  <2>2. IsFiniteSet({i \in DOMAIN frames[t] : frames[t][i].f.guard})
    BY <2>1, FS_Subset
  <2> QED
    BY <2>2, FS_CardinalityType DEF Guards
<1>5. building' \in Seq(Key)
  BY <1>0, <1>2, <1>4, PoppedType DEF TypeInv
<1>6. BaseInv'
  <2>1. \A i \in 1..Len(frames'[t]) :
          \/ frames'[t][i].key \in Tag /\ i = 1 /\ frames'[t][i].f.make = "list"
          \/ /\ frames'[t][i].key \in Key /\ frames'[t][i].f = factories[frames'[t][i].key]
             /\ frames'[t][i].f.life # "instance"
    BY <1>3
  <2>2. mutex' = None /\ Idle(t)'
    BY <1>2, <1>3 DEF Idle
  <2>3. /\ instances' \in [Key -> Obj \union {None}] /\ scoped' \in [Key -> Obj \union {None}]
        /\ made' \in [Key -> Nat] /\ asks' \in 0..MaxAsks /\ epoch' \in 0..MaxForgets
    BY <1>0 DEF TypeInv
  <2> QED
    BY <1>1, <1>2, <1>3, <1>5, <2>1, <2>2, <2>3, StepKeeps
<1> QED
  BY <1>3, <1>6

(* BindingResolutionException *)
LEMMA UnresolvedKeeps ==
  ASSUME BaseInv, NEW t \in Thread, Unresolved(t)
  PROVE  /\ BaseInv' /\ \A u \in Thread \ {t} : frames'[u] = frames[u] /\ ask'[u] = ask[u]
         /\ frames'[t] = <<>> /\ ask'[t] = None
<1>1. ~Idle(t) /\ throws' \in 0..MaxThrows
  BY DEF Unresolved, Idle, BaseInv, TypeInv
<1> QED
  BY <1>1, UnwindKeeps DEF Unresolved

(* A constructor that throws. *)
LEMMA ThrowKeeps ==
  ASSUME BaseInv, NEW t \in Thread, Throw(t)
  PROVE  /\ BaseInv' /\ \A u \in Thread \ {t} : frames'[u] = frames[u] /\ ask'[u] = ask[u]
         /\ frames'[t] = <<>> /\ ask'[t] = None
<1>1. ~Idle(t) /\ throws' \in 0..MaxThrows
  BY ContainerAssumption DEF Throw, InFactory, Idle, BaseInv, TypeInv
<1> QED
  BY <1>1, UnwindKeeps DEF Throw

(* forget_scoped() preserves BaseInv. *)
LEMMA ForgetKeeps ==
  ASSUME BaseInv, NEW t \in Thread, forget_scoped(t)
  PROVE  BaseInv'
<1>0. TypeInv /\ LockInv /\ FrameInv /\ FactoryInv /\ PhaseInv
  BY DEF BaseInv
<1>1. /\ Stage = "up" /\ scoped' = [k \in Key |-> None] /\ epoch' = epoch + 1 /\ epoch < MaxForgets
      /\ UNCHANGED <<factories, contextual, tags, todo, instances, building, mutex, frames, ask,
                     asks, throws, made>>
  BY DEF forget_scoped, conf
<1>2. epoch' \in 0..MaxForgets
  BY <1>0, <1>1, ContainerAssumption DEF TypeInv
<1>3. TypeInv'
  BY <1>0, <1>1, <1>2 DEF TypeInv
<1>4. LockInv' /\ FrameInv' /\ FactoryInv'
  BY <1>0, <1>1 DEF LockInv, Idle, FrameInv, FactoryInv
<1>5. PhaseInv'
  BY <1>0, <1>1, PhaseKept
<1> QED
  BY <1>3, <1>4, <1>5 DEF BaseInv

-----------------------------------------------------------------------------
(* BaseInv holds in every state.                                           *)

(* An empty container, with all providers to come. *)
LEMMA BaseInit ==
  ASSUME Init
  PROVE  BaseInv
<1>1. PICK order \in SetToSeqs(DOMAIN Provider) : todo = Phases(order)
  BY DEF Init
<1>2. TypeInv
  <2>1. todo \in Seq(Task)
    BY <1>1, PhasesFacts
  <2>2. 0 \in 0..MaxAsks /\ 0 \in 0..MaxThrows /\ 0 \in 0..MaxForgets
    BY ContainerAssumption
  <2> QED
    BY <2>1, <2>2 DEF Init, TypeInv
<1>3. \A t \in Thread : Idle(t)
  BY DEF Init, Idle
<1>4. LockInv /\ FrameInv
  BY <1>3 DEF LockInv, FrameInv, Idle
<1>5. FactoryInv
  BY DEF Init, FactoryInv
<1>6. PhaseInv
  <2>1. /\ \A i, j \in 1..Len(todo) : i < j /\ todo[j][1] = "register" => todo[i][1] = "register"
        /\ \A p \in DOMAIN Provider : \E i \in 1..Len(todo) : todo[i] = <<"register", p>>
    BY <1>1, PhasesFacts
  <2>2. gave = {} /\ scoped = [k \in Key |-> None]
    BY DEF Init
  <2> QED
    BY <1>3, <2>1, <2>2 DEF PhaseInv
<1> QED
  BY <1>2, <1>4, <1>5, <1>6 DEF BaseInv

(* A step of nobody. *)
LEMMA StutterKeeps ==
  ASSUME BaseInv, UNCHANGED vars
  PROVE  BaseInv'
<1>1. /\ UNCHANGED <<factories, contextual, tags, todo, instances, scoped, building, mutex>>
      /\ UNCHANGED <<frames, ask, asks, throws, epoch, made, gave, failed>>
  BY DEF vars
<1>2. TypeInv' /\ LockInv' /\ FactoryInv' /\ FrameInv'
  BY <1>1 DEF BaseInv, TypeInv, LockInv, Idle, FactoryInv, FrameInv
<1>3. PhaseInv'
  BY <1>1 DEF BaseInv, PhaseInv, Stage, Idle
<1> QED
  BY <1>2, <1>3 DEF BaseInv

(* Every step preserves BaseInv. *)
LEMMA BaseStep ==
  ASSUME BaseInv, [Next]_vars
  PROVE  BaseInv'
BY StutterKeeps, RegisterKeeps, BootKeeps, ResolveKeeps, TaggedKeeps, RedirectKeeps, ReturnKeeps,
   BuildKeeps, ResolveDepKeeps, ConstructKeeps, UnresolvedKeeps, ThrowKeeps, ForgetKeeps
DEF Next

(* In every state whoever resolves holds the mutex, runs the factories     *)
(* bound to the types of its frames, and comes after the last register_(). *)
THEOREM BaseInvHolds == Spec => []BaseInv
<1>1. Init => BaseInv
  BY BaseInit
<1>2. BaseInv /\ [Next]_vars => BaseInv'
  BY BaseStep
<1> QED
  BY <1>1, <1>2, PTL DEF Spec

(* Every state has the type of the container's members. *)
THEOREM ContainerTypeCorrect == Spec => []TypeOK
<1>1. BaseInv => TypeOK
  BY DEF BaseInv, TypeInv, TypeOK
<1> QED
  BY <1>1, BaseInvHolds, PTL

-----------------------------------------------------------------------------
(* The two phases.                                                         *)

(* Only Unresolved(t) adds to what was not found. *)
LEMMA FailedStep ==
  ASSUME [Next]_vars
  PROVE  failed' = failed \/ \E t \in Thread : Unresolved(t)
<1>1. CASE UNCHANGED vars
  BY <1>1 DEF vars
<1>2. CASE Register \/ Boot
  BY <1>2 DEF Register, Boot
<1>3. ASSUME NEW t \in Thread,
             \/ \E k \in Key : Resolve(t, k)
             \/ \E g \in Tag : tagged(t, g)
             \/ Redirect(t) \/ Return(t) \/ Build(t) \/ ResolveDep(t) \/ Construct(t)
             \/ Throw(t) \/ forget_scoped(t)
      PROVE  failed' = failed
  BY <1>3 DEF Resolve, tagged, Redirect, Return, Build, ResolveDep, Construct, Throw, forget_scoped
<1> QED
  BY <1>1, <1>2, <1>3 DEF Next

(* The two phases of register_providers() make the order of the providers   *)
(* irrelevant: whatever they bind, in whichever order they are listed, no  *)
(* boot() at any depth misses a type that one of them binds.  PhaseInv     *)
(* makes it inductive: whoever resolves does so after every register_(),   *)
(* and a provider that has registered is bound.                            *)
THEOREM BootsFindBindings == Spec => []BootFindsBindings
<1>1. Init => BootFindsBindings
  BY DEF Init, BootFindsBindings
<1>2. BaseInv /\ BootFindsBindings /\ [Next]_vars => BootFindsBindings'
  <2> SUFFICES ASSUME BaseInv, BootFindsBindings, [Next]_vars
               PROVE  BootFindsBindings'
    OBVIOUS
  <2>1. CASE failed' = failed
    BY <2>1 DEF BootFindsBindings
  <2>2. ASSUME NEW t \in Thread, Unresolved(t)
        PROVE  BootFindsBindings'
    <3>1. TypeInv /\ PhaseInv /\ Stage # "register"
      BY <2>2, BusyIsLate DEF BaseInv, Unresolved, Idle
    <3>2. \A p \in DOMAIN Provider :
            \A k \in DOMAIN Provider[p].binds \union Provider[p].instances : factories[k] # None
      BY <3>1, AllRegistered
    <3>3. factories[ask[t].key] = None
      BY <2>2 DEF Unresolved
    <3>4. \A f \in failed' : f \in failed \/ f.key = ask[t].key
      BY <2>2 DEF Unresolved
    <3> QED
      BY <3>2, <3>3, <3>4 DEF BootFindsBindings
  <2> QED
    BY <2>1, <2>2, FailedStep
<1> QED
  BY <1>1, <1>2, BaseInvHolds, PTL DEF Spec

-----------------------------------------------------------------------------
(* One object for all.                                                     *)

(* A step that hands out nothing and keeps nothing. *)
LEMMA QuietShares ==
  ASSUME ShareInv, UNCHANGED <<factories, instances, scoped, epoch, gave>>,
         \A u \in Thread : \A i \in 1..Len(frames'[u]) :
           frames'[u][i].key \in Key => Memo(frames'[u][i].key) = None
  PROVE  ShareInv'
<1>1. FreshInv'
  BY DEF FreshInv, Memo
<1>2. KeptInv' /\ SharedOnce'
  BY DEF ShareInv, KeptInv, SharedOnce
<1> QED
  BY <1>1, <1>2 DEF ShareInv

(* A step that hands out one object, g0: what was handed out before is     *)
(* still what is kept, and so is g0.                                       *)
LEMMA GiveShares ==
  ASSUME TypeInv, KeptInv, SharedOnce, UNCHANGED <<factories, epoch>>,
         NEW g0, gave' = gave \union {g0},
         g0.key \in Key, g0.obj \in Obj, g0.epoch = epoch, factories[g0.key] # None,
         factories[g0.key].life \in {"singleton", "instance"} => instances'[g0.key] = g0.obj,
         factories[g0.key].life = "scoped" => scoped'[g0.key] = g0.obj,
         \A g \in gave :
           /\ factories[g.key].life \in {"singleton", "instance"} => instances'[g.key] = g.obj
           /\ factories[g.key].life = "scoped" /\ g.epoch = epoch => scoped'[g.key] = g.obj
  PROVE  KeptInv' /\ SharedOnce'
<1>1. epoch \in Nat
  BY ContainerAssumption DEF TypeInv
<1>2. KeptInv'
  BY <1>1 DEF KeptInv
<1>3. ASSUME NEW g \in gave', NEW h \in gave', g.key = h.key,
             \/ factories[g.key].life \in {"singleton", "instance"}
             \/ factories[g.key].life = "scoped" /\ g.epoch = h.epoch
      PROVE  g.obj = h.obj
  <2>1. CASE g \in gave /\ h \in gave
    BY <1>3, <2>1 DEF SharedOnce
  <2>2. CASE g = g0 \/ h = g0
    BY <1>2, <1>3, <2>2 DEF KeptInv
  <2> QED
    BY <1>3, <2>1, <2>2
<1>4. SharedOnce'
  BY <1>3 DEF SharedOnce
<1> QED
  BY <1>2, <1>4

(* A kept value is handed out. *)
LEMMA ReturnShares ==
  ASSUME BaseInv, ShareInv, NEW t \in Thread, Return(t)
  PROVE  ShareInv'
<1>0. TypeInv /\ FreshInv /\ KeptInv /\ SharedOnce
  BY DEF BaseInv, ShareInv
<1> DEFINE g0 == [want |-> ask[t].want, key |-> ask[t].key, by |-> Consumer(frames[t]),
                  obj |-> Memo(ask[t].key), epoch |-> epoch]
<1>1. /\ ask[t] \in Ask /\ Memo(ask[t].key) \in Obj
      /\ \A u \in Thread \ {t} : frames'[u] = frames[u]
      /\ Len(frames'[t]) = Len(frames[t])
      /\ \A i \in 1..Len(frames[t]) : frames'[t][i].key = frames[t][i].key
      /\ gave' = gave \union {g0}
  BY ReturnFacts
<1>2. /\ UNCHANGED <<factories, instances, scoped, epoch>> /\ factories[ask[t].key] # None
  BY DEF Return, Found, conf
<1>3. g0.key = ask[t].key /\ g0.obj = Memo(ask[t].key) /\ g0.epoch = epoch
  OBVIOUS
<1> HIDE DEF g0
<1>4. g0.key \in Key /\ g0.obj \in Obj /\ factories[g0.key] # None
  BY <1>1, <1>2, <1>3 DEF Ask
<1>5. /\ factories[g0.key].life \in {"singleton", "instance"} => instances'[g0.key] = g0.obj
      /\ factories[g0.key].life = "scoped" => scoped'[g0.key] = g0.obj
  BY <1>2, <1>3 DEF Memo
<1>6. \A g \in gave :
        /\ factories[g.key].life \in {"singleton", "instance"} => instances'[g.key] = g.obj
        /\ factories[g.key].life = "scoped" /\ g.epoch = epoch => scoped'[g.key] = g.obj
  BY <1>0, <1>2 DEF KeptInv
<1>7. KeptInv' /\ SharedOnce'
  BY <1>0, <1>1, <1>2, <1>3, <1>4, <1>5, <1>6, GiveShares
<1>8. FreshInv'
  BY <1>0, <1>1, <1>2 DEF FreshInv, Memo
<1> QED
  BY <1>7, <1>8 DEF ShareInv

(* A new object is kept and handed out.  Nobody had one before, since its  *)
(* factory was still running; and no other run of a factory is for its     *)
(* type, since none is nested and all others are out.                      *)
LEMMA ConstructShares ==
  ASSUME BaseInv, ShareInv, NeverNested, NEW t \in Thread, Construct(t)
  PROVE  ShareInv'
<1> DEFINE n == Len(frames[t])
           k == frames[t][n].key
<1>0. /\ TypeInv /\ FreshInv /\ KeptInv /\ SharedOnce /\ LockInv /\ ~Idle(t)
      /\ UNCHANGED <<factories, epoch>>
  BY DEF BaseInv, ShareInv, Construct, InFactory, Idle, conf
<1>1. /\ \A u \in Thread \ {t} : frames'[u] = frames[u]
      /\ frames' \in [Thread -> Seq(Frame)]
      /\ Len(frames'[t]) < Len(frames[t])
      /\ \A i \in 1..Len(frames'[t]) : frames'[t][i].key = frames[t][i].key
  BY ConstructFrames
<1>2. n \in Nat \ {0} /\ Len(frames'[t]) \in Nat
  BY <1>1, ConstructFacts
<1>3. \A u \in Thread \ {t} : Len(frames'[u]) = 0
  BY <1>0, <1>1, Alone DEF Idle
<1>4. \A i \in 1..Len(frames'[t]) :
        /\ frames'[t][i].key = frames[t][i].key /\ frames[t][i].key # k
        /\ frames[t][i].key \in Key => Memo(frames[t][i].key) = None
  <2> TAKE i \in 1..Len(frames'[t])
  <2>1. i \in 1..n /\ n \in 1..n /\ i # n
    BY <1>1, <1>2
  <2> QED
    BY <1>0, <1>1, <2>1 DEF NeverNested, FreshInv
<1>5. CASE gave' = gave /\ instances' = instances /\ scoped' = scoped
  <2>1. \A u \in Thread : \A i \in 1..Len(frames'[u]) :
          frames'[u][i].key \in Key => Memo(frames'[u][i].key) = None
    <3> TAKE u \in Thread
    <3>1. CASE u = t
      BY <1>4, <3>1
    <3>2. CASE u # t
      BY <1>3, <3>2
    <3> QED
      BY <3>1, <3>2
  <2> QED
    BY <1>0, <1>5, <2>1, QuietShares
<1>6. ASSUME NEW obj \in Obj, k \in Key, factories[k] # None, factories[k].life # "instance",
             frames[t][n].slot \in Nat,
             Deliver(t, frames[t][n], obj, Front(frames[t])),
             instances' = IF factories[k].life = "singleton"
                          THEN [instances EXCEPT ![k] = obj] ELSE instances,
             scoped' = IF factories[k].life = "scoped" THEN [scoped EXCEPT ![k] = obj] ELSE scoped
      PROVE  ShareInv'
  <2>1. instances \in [Key -> Obj \union {None}] /\ scoped \in [Key -> Obj \union {None}]
    BY <1>0 DEF TypeInv
  <2>2. Memo(k) = None
    BY <1>0, <1>2, <1>6 DEF FreshInv
  <2>3. PICK g0 : gave' = gave \union {g0} /\ g0.key = k /\ g0.obj = obj /\ g0.epoch = epoch
    <3> DEFINE g1 == [want |-> frames[t][n].want, key |-> k, by |-> Consumer(Front(frames[t])),
                      obj |-> obj, epoch |-> epoch]
    <3>1. gave' = gave \union {g1}
      BY <1>6 DEF Deliver
    <3>2. g1.key = k /\ g1.obj = obj /\ g1.epoch = epoch
      OBVIOUS
    <3> HIDE DEF g1
    <3> QED
      BY <3>1, <3>2
  <2>4. /\ factories[g0.key].life \in {"singleton", "instance"} => instances'[g0.key] = g0.obj
        /\ factories[g0.key].life = "scoped" => scoped'[g0.key] = g0.obj
    BY <1>6, <2>1, <2>3
  <2>5. ASSUME NEW g \in gave
        PROVE  /\ factories[g.key].life \in {"singleton", "instance"} => instances'[g.key] = g.obj
               /\ factories[g.key].life = "scoped" /\ g.epoch = epoch => scoped'[g.key] = g.obj
    <3>1. /\ g.key \in Key /\ g.obj \in Obj
          /\ factories[g.key].life \in {"singleton", "instance"} => instances[g.key] = g.obj
          /\ factories[g.key].life = "scoped" /\ g.epoch = epoch => scoped[g.key] = g.obj
      BY <1>0 DEF KeptInv
    <3>2. CASE g.key = k
      BY <1>6, <2>2, <3>1, <3>2, NoneFacts DEF Memo
    <3>3. CASE g.key # k
      BY <1>6, <2>1, <3>1, <3>3
    <3> QED
      BY <3>2, <3>3
  <2>6. KeptInv' /\ SharedOnce'
    <3>1. g0.key \in Key /\ g0.obj \in Obj /\ factories[g0.key] # None
      BY <1>6, <2>3
    <3> HIDE DEF k
    <3> QED
      BY <1>0, <2>3, <2>4, <2>5, <3>1, GiveShares
  <2>7. FreshInv'
    <3> SUFFICES ASSUME NEW u \in Thread, NEW i \in 1..Len(frames'[u]), frames'[u][i].key \in Key
                 PROVE  Memo(frames[u][i].key)' = None
      BY DEF FreshInv
    <3>1. u = t
      BY <1>3
    <3>2. frames'[t][i].key = frames[t][i].key /\ frames[t][i].key # k
          /\ Memo(frames[t][i].key) = None
      BY <1>4, <3>1
    <3> DEFINE j == frames[t][i].key
    <3>3. Memo(frames[u][i].key)' =
            (LET life == factories'[j].life IN
             IF life \in {"singleton", "instance"} THEN instances'[j]
             ELSE IF life = "scoped" THEN scoped'[j] ELSE None)
      BY <3>1, <3>2 DEF Memo
    <3>4. j \in Key /\ j # k /\ Memo(j) = None
      BY <3>1, <3>2
    <3> HIDE DEF j
    <3> QED
      BY <1>0, <1>6, <2>1, <3>3, <3>4 DEF Memo
  <2> QED
    BY <2>6, <2>7 DEF ShareInv
<1> QED
  BY <1>5, <1>6, ConstructFacts

(* forget_scoped() ends an epoch: what was handed out of scoped types is   *)
(* no longer kept, and those who share it still do.                        *)
LEMMA ForgetShares ==
  ASSUME BaseInv, ShareInv, NEW t \in Thread, forget_scoped(t)
  PROVE  ShareInv'
<1>0. TypeInv /\ FreshInv /\ KeptInv /\ SharedOnce /\ epoch \in Nat
  BY ContainerAssumption DEF BaseInv, ShareInv, TypeInv
<1>1. /\ scoped' = [k \in Key |-> None] /\ epoch' = epoch + 1
      /\ UNCHANGED <<factories, instances, frames, gave>>
  BY DEF forget_scoped, conf
<1>2. FreshInv'
  BY <1>0, <1>1 DEF FreshInv, Memo
<1>3. KeptInv'
  BY <1>0, <1>1 DEF KeptInv
<1>4. SharedOnce'
  BY <1>0, <1>1 DEF SharedOnce
<1> QED
  BY <1>2, <1>3, <1>4 DEF ShareInv

(* Every step preserves ShareInv, if no type is built inside itself. *)
LEMMA ShareStep ==
  ASSUME BaseInv, ShareInv, NeverNested, [Next]_vars
  PROVE  ShareInv'
<1>0. FreshInv /\ TypeInv /\ LockInv /\ PhaseInv
  BY DEF ShareInv, BaseInv
<1>1. CASE UNCHANGED vars
  <2>1. UNCHANGED <<factories, instances, scoped, epoch, gave, frames>>
    BY <1>1 DEF vars
  <2> QED
    BY <1>0, <2>1, QuietShares DEF FreshInv
<1>2. CASE Register
  <2>1. gave' = {} /\ \A t \in Thread : Len(frames'[t]) = 0
    <3>1. gave = {} /\ \A t \in Thread : Idle(t)
      BY <1>0, <1>2 DEF Register, PhaseInv
    <3>2. gave' = gave /\ frames' = frames
      BY <1>2 DEF Register
    <3> QED
      BY <3>1, <3>2 DEF Idle
  <2> QED
    BY <2>1 DEF ShareInv, FreshInv, KeptInv, SharedOnce
<1>3. CASE Boot
  <2>1. UNCHANGED <<factories, instances, scoped, epoch, gave, frames>>
    BY <1>3 DEF Boot
  <2> QED
    BY <1>0, <2>1, QuietShares DEF FreshInv
<1>4. ASSUME NEW t \in Thread,
             (\E k \in Key : Resolve(t, k)) \/ Redirect(t) \/ ResolveDep(t)
      PROVE  ShareInv'
  <2>1. UNCHANGED <<factories, instances, scoped, epoch, gave, frames>>
    BY <1>4 DEF Resolve, Redirect, ResolveDep, conf
  <2> QED
    BY <1>0, <2>1, QuietShares DEF FreshInv
<1>5. ASSUME NEW t \in Thread, NEW g \in Tag, tagged(t, g)
      PROVE  ShareInv'
  <2>1. UNCHANGED <<factories, instances, scoped, epoch, gave>>
    BY <1>5 DEF tagged, conf
  <2> DEFINE fr == [want |-> g, key |-> g, slot |-> 1, got |-> <<>>,
                    f |-> [life |-> "transient", deps |-> tags[g], guard |-> FALSE, make |-> "list"]]
  <2>2. frames' = [frames EXCEPT ![t] = <<fr>>]
    BY <1>5 DEF tagged
  <2>3. fr.key = g /\ g \notin Key
    BY NoneFacts
  <2> HIDE DEF fr
  <2>4. frames'[t] = <<fr>> /\ \A u \in Thread \ {t} : frames'[u] = frames[u]
    BY <1>0, <2>2 DEF TypeInv
  <2>5. \A u \in Thread : \A i \in 1..Len(frames'[u]) :
          frames'[u][i].key \in Key => Memo(frames'[u][i].key) = None
    BY <1>0, <2>3, <2>4 DEF FreshInv
  <2> QED
    BY <2>1, <2>5, QuietShares
<1>6. ASSUME NEW t \in Thread, Build(t)
      PROVE  ShareInv'
  <2>1. UNCHANGED <<factories, instances, scoped, epoch, gave>>
    BY <1>6 DEF Build, conf
  <2>2. /\ Memo(ask[t].key) = None /\ \A u \in Thread \ {t} : frames'[u] = frames[u]
        /\ Len(frames'[t]) = Len(frames[t]) + 1
        /\ \A i \in 1..Len(frames[t]) : frames'[t][i] = frames[t][i]
        /\ frames'[t][Len(frames[t]) + 1].key = ask[t].key
    BY <1>6, BuildFacts
  <2>3. Len(frames[t]) \in Nat
    BY <1>0 DEF TypeInv
  <2>4. ASSUME NEW i \in 1..Len(frames'[t]), frames'[t][i].key \in Key
        PROVE  Memo(frames'[t][i].key) = None
    <3>1. CASE i = Len(frames[t]) + 1
      BY <2>2, <3>1
    <3>2. CASE i # Len(frames[t]) + 1
      <4>1. i \in 1..Len(frames[t]) /\ frames'[t][i] = frames[t][i]
        BY <2>2, <2>3, <3>2
      <4> QED
        BY <1>0, <2>4, <4>1 DEF FreshInv
    <3> QED
      BY <3>1, <3>2
  <2>5. \A u \in Thread : \A i \in 1..Len(frames'[u]) :
          frames'[u][i].key \in Key => Memo(frames'[u][i].key) = None
    BY <1>0, <2>2, <2>4 DEF FreshInv
  <2> QED
    BY <2>1, <2>5, QuietShares
<1>7. ASSUME NEW t \in Thread, Unresolved(t) \/ Throw(t)
      PROVE  ShareInv'
  <2>1. UNCHANGED <<factories, instances, scoped, epoch, gave>>
    BY <1>7 DEF Unresolved, Throw
  <2>2. frames'[t] = <<>> /\ \A u \in Thread \ {t} : frames'[u] = frames[u]
    BY <1>7, UnresolvedKeeps, ThrowKeeps
  <2>3. \A u \in Thread : \A i \in 1..Len(frames'[u]) :
          frames'[u][i].key \in Key => Memo(frames'[u][i].key) = None
    BY <1>0, <2>2 DEF FreshInv
  <2> QED
    BY <2>1, <2>3, QuietShares
<1> QED
  BY <1>1, <1>2, <1>3, <1>4, <1>5, <1>6, <1>7, ReturnShares, ConstructShares, ForgetShares DEF Next

(* As long as no type is built inside its own building, all who receive a  *)
(* singleton, or a scoped type between two forget_scoped(), share one      *)
(* object: whatever throws, nests or races.  ShareInv makes it inductive:  *)
(* what was handed out is what is kept, and while a type's factory runs    *)
(* nothing is kept for it.                                                 *)
THEOREM SharedUnlessNested == Spec /\ []NeverNested => []SharedOnce
<1>1. Init => ShareInv
  BY DEF Init, ShareInv, FreshInv, KeptInv, SharedOnce
<1>2. BaseInv /\ ShareInv /\ NeverNested /\ [Next]_vars => ShareInv'
  BY ShareStep
<1>3. ShareInv => SharedOnce
  BY DEF ShareInv
<1> QED
  BY <1>1, <1>2, <1>3, BaseInvHolds, PTL DEF Spec

-----------------------------------------------------------------------------
(* An order of the types rules nesting out.                                *)

(* Frames that go down in an order are all of different types. *)
LEMMA RankNeverNests ==
  ASSUME NEW rank \in [Key -> Nat], BaseInv, RankInv(rank)
  PROVE  NeverNested
<1>1. ASSUME NEW t \in Thread, NEW i \in 1..Len(frames[t]), NEW j \in 1..Len(frames[t]), i < j
      PROVE  frames[t][i].key # frames[t][j].key
  <2>1. frames[t][j].key \in Key
    BY <1>1 DEF BaseInv, FrameInv
  <2>2. CASE frames[t][i].key \in Key
    <3>1. rank[frames[t][j].key] < rank[frames[t][i].key]
      BY <1>1, <2>2 DEF RankInv
    <3> QED
      BY <2>1, <3>1
  <2>3. CASE frames[t][i].key \notin Key
    BY <2>1, <2>3
  <2> QED
    BY <2>2, <2>3
<1>2. \A t \in Thread : \A i, j \in 1..Len(frames[t]) : i # j => i < j \/ j < i
  BY DEF BaseInv, TypeInv
<1> QED
  BY <1>1, <1>2 DEF NeverNested

(* A step that binds nothing and goes down in the order, if anywhere. *)
LEMMA RankKept ==
  ASSUME NEW rank, RankInv(rank), UNCHANGED <<factories, contextual>>, NEW t \in Thread,
         \A u \in Thread \ {t} : frames'[u] = frames[u] /\ ask'[u] = ask[u],
         \A i, j \in 1..Len(frames'[t]) :
           i < j /\ frames'[t][i].key \in Key => rank[frames'[t][j].key] < rank[frames'[t][i].key],
         ask'[t] # None =>
           \A i \in 1..Len(frames'[t]) :
             frames'[t][i].key \in Key => rank[ask'[t].key] < rank[frames'[t][i].key]
  PROVE  RankInv(rank)'
<1>1. /\ \A k \in Key : factories'[k] # None =>
           \A i \in DOMAIN factories'[k].deps : rank[factories'[k].deps[i]] < rank[k]
      /\ \A x \in DOMAIN contextual' : rank[contextual'[x]] <= rank[x[2]]
  BY DEF RankInv
<1>2. \A u \in Thread : \A i, j \in 1..Len(frames'[u]) :
        i < j /\ frames'[u][i].key \in Key => rank[frames'[u][j].key] < rank[frames'[u][i].key]
  <2> TAKE u \in Thread
  <2>1. CASE u = t
    BY <2>1
  <2>2. CASE u # t
    BY <2>2 DEF RankInv
  <2> QED
    BY <2>1, <2>2
<1>3. \A u \in Thread : ask'[u] # None =>
        \A i \in 1..Len(frames'[u]) :
          frames'[u][i].key \in Key => rank[ask'[u].key] < rank[frames'[u][i].key]
  <2> TAKE u \in Thread
  <2>1. CASE u = t
    BY <2>1
  <2>2. CASE u # t
    BY <2>2 DEF RankInv
  <2> QED
    BY <2>1, <2>2
<1> QED
  BY <1>1, <1>2, <1>3 DEF RankInv

(* Every step preserves RankInv. *)
LEMMA RankStep ==
  ASSUME NEW rank, Ordered(rank), BaseInv, RankInv(rank), [Next]_vars
  PROVE  RankInv(rank)'
<1>0. TypeInv /\ LockInv /\ PhaseInv /\ FrameInv /\ rank \in [Key -> Nat]
  BY DEF BaseInv, Ordered
<1>r. /\ \A t \in Thread : \A i, j \in 1..Len(frames[t]) :
           i < j /\ frames[t][i].key \in Key => rank[frames[t][j].key] < rank[frames[t][i].key]
      /\ \A t \in Thread : ask[t] # None =>
           \A i \in 1..Len(frames[t]) :
             frames[t][i].key \in Key => rank[ask[t].key] < rank[frames[t][i].key]
      /\ \A x \in DOMAIN contextual : rank[contextual[x]] <= rank[x[2]]
      /\ \A k \in Key : factories[k] # None =>
           \A i \in DOMAIN factories[k].deps : rank[factories[k].deps[i]] < rank[k]
  BY DEF RankInv
<1>1. CASE UNCHANGED vars
  BY <1>1 DEF vars, RankInv
<1>2. CASE Register
  <2>1. PICK p \in DOMAIN Provider :
          /\ \A k \in Provider[p].instances : factories'[k].deps = <<>>
          /\ \A k \in DOMAIN Provider[p].binds \ Provider[p].instances :
               factories'[k] = Provider[p].binds[k]
          /\ \A k \in Key : k \notin DOMAIN Provider[p].binds \union Provider[p].instances =>
               factories'[k] = factories[k]
          /\ DOMAIN contextual' = DOMAIN Provider[p].contexts \union DOMAIN contextual
          /\ \A x \in DOMAIN contextual' :
               contextual'[x] = IF x \in DOMAIN Provider[p].contexts THEN Provider[p].contexts[x]
                                ELSE contextual[x]
    BY <1>0, <1>2, RegisterFacts
  <2>2. /\ \A k \in DOMAIN Provider[p].binds : \A i \in DOMAIN Provider[p].binds[k].deps :
             rank[Provider[p].binds[k].deps[i]] < rank[k]
        /\ \A x \in DOMAIN Provider[p].contexts : rank[Provider[p].contexts[x]] <= rank[x[2]]
    BY DEF Ordered
  <2>3. \A t \in Thread : frames'[t] = <<>> /\ ask'[t] = None
    BY <1>0, <1>2 DEF Register, PhaseInv, Idle
  <2>4. ASSUME NEW k \in Key, factories'[k] # None
        PROVE  \A i \in DOMAIN factories'[k].deps : rank[factories'[k].deps[i]] < rank[k]
    <3>1. CASE k \in Provider[p].instances
      <4>1. DOMAIN factories'[k].deps = {}
        BY <2>1, <3>1
      <4> QED
        BY <4>1
    <3>2. CASE k \in DOMAIN Provider[p].binds \ Provider[p].instances
      <4>1. factories'[k] = Provider[p].binds[k]
        BY <2>1, <3>2
      <4> QED
        BY <2>2, <3>2, <4>1
    <3>3. CASE k \notin DOMAIN Provider[p].binds \union Provider[p].instances
      <4>1. factories'[k] = factories[k]
        BY <2>1, <3>3
      <4> QED
        BY <1>r, <2>4, <4>1
    <3> QED
      BY <3>1, <3>2, <3>3
  <2>5. \A x \in DOMAIN contextual' : rank[contextual'[x]] <= rank[x[2]]
    BY <1>r, <2>1, <2>2
  <2> QED
    BY <2>3, <2>4, <2>5 DEF RankInv
<1>3. ASSUME NEW t \in Thread, NEW k \in Key, Begin(t, k), UNCHANGED <<factories, contextual, frames>>
      PROVE  RankInv(rank)'
  <2>1. frames'[t] = <<>> /\ \A u \in Thread \ {t} : frames'[u] = frames[u] /\ ask'[u] = ask[u]
    BY <1>0, <1>3 DEF Begin, Idle, TypeInv
  <2> QED
    BY <1>3, <2>1, RankKept
<1>4. CASE Boot
  <2>1. Provider[Head(todo)[2]].boots \in Key /\ Main \in Thread
    <3>1. todo # <<>> /\ todo \in Seq(Task) /\ Head(todo)[1] = "boot"
      BY <1>0, <1>4 DEF TypeInv, Boot, Stage
    <3>2. Head(todo) \in Task
      BY <3>1
    <3>3. Head(todo)[2] \in DOMAIN Provider
      BY <3>1, <3>2 DEF Task
    <3> QED
      BY <3>3, ProviderFacts, ContainerAssumption
  <2> QED
    BY <1>3, <1>4, <2>1 DEF Boot
<1>5. ASSUME NEW t \in Thread, NEW k \in Key, Resolve(t, k)
      PROVE  RankInv(rank)'
  BY <1>3, <1>5 DEF Resolve, conf
<1>6. ASSUME NEW t \in Thread, NEW g \in Tag, tagged(t, g)
      PROVE  RankInv(rank)'
  <2> DEFINE fr == [want |-> g, key |-> g, slot |-> 1, got |-> <<>>,
                    f |-> [life |-> "transient", deps |-> tags[g], guard |-> FALSE, make |-> "list"]]
  <2>1. frames' = [frames EXCEPT ![t] = <<fr>>] /\ UNCHANGED <<factories, contextual, ask>>
    BY <1>6 DEF tagged, conf
  <2> HIDE DEF fr
  <2>2. frames'[t] = <<fr>> /\ \A u \in Thread \ {t} : frames'[u] = frames[u] /\ ask'[u] = ask[u]
    BY <1>0, <2>1 DEF TypeInv
  <2>3. ask'[t] = None
    BY <1>6, <2>1 DEF tagged, Idle
  <2>4. \A i, j \in 1..Len(frames'[t]) : ~(i < j)
    BY <2>2
  <2> QED
    BY <2>1, <2>2, <2>3, <2>4, RankKept
<1>7. ASSUME NEW t \in Thread, Redirect(t)
      PROVE  RankInv(rank)'
  <2>1. /\ ask[t] \in Ask /\ ask' \in [Thread -> Ask \union {None}]
        /\ <<Last(building), ask[t].key>> \in DOMAIN contextual
        /\ ask'[t].key = contextual[<<Last(building), ask[t].key>>]
    BY <1>7, RedirectKeeps
  <2>2. /\ UNCHANGED <<factories, contextual, frames>> /\ ask[t] # None
        /\ \A u \in Thread \ {t} : ask'[u] = ask[u]
    BY <1>0, <1>7 DEF Redirect, conf, TypeInv
  <2>3. rank[ask'[t].key] <= rank[ask[t].key]
    BY <1>r, <2>1
  <2>4. ask[t].key \in Key /\ ask'[t].key \in Key
    BY <1>0, <2>1 DEF Ask, TypeInv
  <2>5. \A i \in 1..Len(frames'[t]) :
          frames'[t][i].key \in Key => rank[ask'[t].key] < rank[frames'[t][i].key]
    BY <1>0, <1>r, <2>2, <2>3, <2>4
  <2> QED
    BY <1>r, <2>2, <2>5, RankKept
<1>8. ASSUME NEW t \in Thread, Return(t)
      PROVE  RankInv(rank)'
  <2>1. /\ \A u \in Thread \ {t} : frames'[u] = frames[u]
        /\ Len(frames'[t]) = Len(frames[t])
        /\ \A i \in 1..Len(frames[t]) : frames'[t][i].key = frames[t][i].key
    BY <1>8, ReturnFacts
  <2>2. /\ UNCHANGED <<factories, contextual>> /\ ask'[t] = None
        /\ \A u \in Thread \ {t} : ask'[u] = ask[u]
    BY <1>0, <1>8 DEF Return, conf, TypeInv
  <2> QED
    BY <1>r, <2>1, <2>2, RankKept
<1>9. ASSUME NEW t \in Thread, Build(t)
      PROVE  RankInv(rank)'
  <2>1. /\ ask[t] \in Ask /\ \A u \in Thread \ {t} : frames'[u] = frames[u]
        /\ Len(frames'[t]) = Len(frames[t]) + 1
        /\ \A i \in 1..Len(frames[t]) : frames'[t][i] = frames[t][i]
        /\ frames'[t][Len(frames[t]) + 1].key = ask[t].key
    BY <1>9, BuildFacts
  <2>2. /\ UNCHANGED <<factories, contextual>> /\ ask'[t] = None /\ ask[t] # None
        /\ \A u \in Thread \ {t} : ask'[u] = ask[u]
    BY <1>0, <1>9 DEF Build, Found, conf, TypeInv
  <2>3. Len(frames[t]) \in Nat
    BY <1>0 DEF TypeInv
  <2>4. ASSUME NEW i \in 1..Len(frames'[t]), NEW j \in 1..Len(frames'[t]), i < j,
               frames'[t][i].key \in Key
        PROVE  rank[frames'[t][j].key] < rank[frames'[t][i].key]
    <3>1. i \in 1..Len(frames[t]) /\ frames'[t][i] = frames[t][i]
      BY <2>1, <2>3, <2>4
    <3>2. CASE j = Len(frames[t]) + 1
      BY <1>r, <2>1, <2>2, <2>4, <3>1, <3>2
    <3>3. CASE j # Len(frames[t]) + 1
      <4>1. j \in 1..Len(frames[t]) /\ frames'[t][j] = frames[t][j]
        BY <2>1, <2>3, <3>3
      <4> QED
        BY <1>r, <2>4, <3>1, <4>1
    <3> QED
      BY <3>2, <3>3
  <2> QED
    BY <2>1, <2>2, <2>4, RankKept
<1>10. ASSUME NEW t \in Thread, ResolveDep(t)
       PROVE  RankInv(rank)'
  <2> DEFINE n == Len(frames[t])
  <2>1. /\ \A u \in Thread \ {t} : ask'[u] = ask[u]
        /\ n \in Nat \ {0}
        /\ \E s \in DOMAIN frames[t][n].f.deps : ask'[t].key = frames[t][n].f.deps[s]
    BY <1>10, ResolveDepFacts
  <2>2. UNCHANGED <<factories, contextual, frames>>
    BY <1>10 DEF ResolveDep, conf
  <2>3. ASSUME NEW i \in 1..n, frames[t][i].key \in Key
        PROVE  rank[ask'[t].key] < rank[frames[t][i].key]
    <3>1. n \in 1..n /\ frames[t][n] \in Frame /\ frames[t] \in Seq(Frame)
      BY <1>0, <2>1 DEF TypeInv
    <3>2. frames[t][n].key \in Key /\ frames[t][n].f = factories[frames[t][n].key]
      <4>1. CASE i = n
        BY <1>0, <2>3, <3>1, <4>1, NoneFacts DEF FrameInv
      <4>2. CASE i # n
        <5>1. n # 1
          BY <2>1, <4>2
        <5> QED
          BY <1>0, <3>1, <5>1 DEF FrameInv
      <4> QED
        BY <4>1, <4>2
    <3>3. frames[t][n].f \in Factory /\ factories[frames[t][n].key] # None
      BY <3>1, <3>2, NoneFacts DEF Frame
    <3>4. rank[ask'[t].key] < rank[frames[t][n].key]
      BY <1>r, <2>1, <3>2, <3>3
    <3>5. CASE i = n
      BY <3>4, <3>5
    <3>6. CASE i # n
      <4>1. rank[frames[t][n].key] < rank[frames[t][i].key]
        BY <1>r, <2>1, <2>3, <3>1, <3>6
      <4>2. ask'[t].key \in Key
        BY <2>1, <3>3 DEF Factory
      <4> QED
        BY <1>0, <2>3, <3>2, <3>4, <4>1, <4>2
    <3> QED
      BY <3>5, <3>6
  <2> HIDE DEF n
  <2>4. /\ \A i \in 1..Len(frames'[t]) :
             frames'[t][i].key \in Key => rank[ask'[t].key] < rank[frames'[t][i].key]
    BY <2>2, <2>3 DEF n
  <2> QED
    BY <1>r, <2>1, <2>2, <2>4, RankKept
<1>11. ASSUME NEW t \in Thread, Construct(t)
       PROVE  RankInv(rank)'
  <2>1. /\ \A u \in Thread \ {t} : frames'[u] = frames[u]
        /\ frames' \in [Thread -> Seq(Frame)] /\ Len(frames'[t]) < Len(frames[t])
        /\ \A i \in 1..Len(frames'[t]) : frames'[t][i].key = frames[t][i].key
    BY <1>11, ConstructFrames
  <2>2. UNCHANGED <<factories, contextual, ask>> /\ ask[t] = None
    BY <1>11 DEF Construct, InFactory, conf
  <2>3. Len(frames'[t]) \in Nat /\ Len(frames[t]) \in Nat
    BY <1>0, <2>1 DEF TypeInv
  <2>4. \A i \in 1..Len(frames'[t]) : i \in 1..Len(frames[t])
    BY <2>1, <2>3
  <2>5. \A i, j \in 1..Len(frames'[t]) :
          i < j /\ frames'[t][i].key \in Key => rank[frames'[t][j].key] < rank[frames'[t][i].key]
    BY <1>r, <2>1, <2>4
  <2> QED
    BY <2>1, <2>2, <2>5, RankKept
<1>12. ASSUME NEW t \in Thread, Unresolved(t) \/ Throw(t)
       PROVE  RankInv(rank)'
  <2>1. UNCHANGED <<factories, contextual>>
    BY <1>12 DEF Unresolved, Throw
  <2>2. /\ frames'[t] = <<>> /\ ask'[t] = None
        /\ \A u \in Thread \ {t} : frames'[u] = frames[u] /\ ask'[u] = ask[u]
    BY <1>12, UnresolvedKeeps, ThrowKeeps
  <2> QED
    BY <2>1, <2>2, RankKept
<1>13. ASSUME NEW t \in Thread, forget_scoped(t)
       PROVE  RankInv(rank)'
  BY <1>13 DEF forget_scoped, conf, RankInv
<1> QED
  BY <1>1, <1>2, <1>4, <1>5, <1>6, <1>7, <1>8, <1>9, <1>10, <1>11, <1>12, <1>13 DEF Next

(* If the types can be ordered so that a factory resolves only lower ones  *)
(* and no contextual binding gives a higher one than it stands for, a      *)
(* singleton is one object for all who ever receive it, and a scoped one   *)
(* is until forget_scoped(), for any number of threads, providers and      *)
(* types.  (Types that need each other recurse without end in the code.)   *)
THEOREM SharedObjects ==
  ASSUME NEW rank, Ordered(rank)
  PROVE  Spec => []SharedOnce
<1>1. Init => RankInv(rank)
  <2> SUFFICES ASSUME Init
               PROVE  RankInv(rank)
    OBVIOUS
  <2>1. DOMAIN contextual = {} /\ (\A k \in Key : factories[k] = None)
        /\ \A t \in Thread : frames[t] = <<>> /\ ask[t] = None
    BY DEF Init
  <2> QED
    BY <2>1 DEF RankInv
<1>2. BaseInv /\ RankInv(rank) /\ [Next]_vars => RankInv(rank)'
  BY RankStep
<1>3. BaseInv /\ RankInv(rank) => NeverNested
  BY RankNeverNests DEF Ordered
<1>4. Spec => []NeverNested
  BY <1>1, <1>2, <1>3, BaseInvHolds, PTL DEF Spec
<1> QED
  BY <1>4, SharedUnlessNested, PTL

-----------------------------------------------------------------------------
(* What consumers get.                                                     *)

(* Manual factories that only hand on keep nothing: they are neither       *)
(* singletons nor scoped.  (The *_auto forms mark their type and always    *)
(* make an object of it.)                                                  *)
HandsOnFresh ==
  \A p \in DOMAIN Provider : \A k \in DOMAIN Provider[p].binds :
    Provider[p].binds[k].make = "same" =>
      Provider[p].binds[k].life = "transient" /\ ~Provider[p].binds[k].guard

(* Onward and Leads, for given bindings. *)
OnwardIn(ctx, fac, by, j) ==
  IF <<by, j>> \in DOMAIN ctx THEN {ctx[<<by, j>>]}
  ELSE IF fac[j] # None /\ fac[j].make = "same" /\ fac[j].life = "transient"
  THEN {fac[j].deps[1]} ELSE {}

LeadsIn(ctx, fac, by, k, j) ==
  k # j => \A S \in SUBSET (Key \ {j}) :
             k \in S => \E i \in S : ~(OnwardIn(ctx, fac, by, i) \subseteq S)

(* What `by` is to get for k is j. *)
Gets(ctx, fac, by, k, j) == OnwardIn(ctx, fac, by, j) = {} /\ LeadsIn(ctx, fac, by, k, j)

(* The type whose constructor is under way below frame i. *)
Below(fs, i) ==
  LET guarded == {j \in 1..(i - 1) : fs[j].f.guard}
  IN IF guarded = {} THEN None ELSE fs[Max(guarded)].key

Marked(fs) == {i \in 1..Len(fs) : fs[i].f.guard}

(* building_ has the types of the frames that are marked, in their order. *)
Places(g, fs, b) ==
  /\ \A m, n \in 1..Len(b) : m < n => g[m] < g[n]
  /\ \A n \in 1..Len(b) : g[n] \in Marked(fs) /\ b[n] = fs[g[n]].key
  /\ \A i \in Marked(fs) : \E n \in 1..Len(b) : g[n] = i

Stacked(fs, b) == \E g \in [1..Len(b) -> 1..Len(fs)] : Places(g, fs, b)

StackInv ==
  /\ mutex = None => building = <<>>
  /\ \A t \in Thread : mutex = t => Stacked(frames[t], building)

(* A frame is for the argument it was asked for; its type is what leads    *)
(* its consumer on, and what it hands on is what the consumer is to get.   *)
WayAt(ctx, fac, fs, i) ==
  /\ fs[i].key \in Key =>
       /\ LeadsIn(ctx, fac, Below(fs, i), fs[i].want, fs[i].key)
       /\ <<Below(fs, i), fs[i].key>> \notin DOMAIN ctx
       /\ fs[i].f.make = "same" /\ 1 \in DOMAIN fs[i].got =>
            Gets(ctx, fac, Below(fs, i), fs[i].f.deps[1], fs[i].got[1].type)
  /\ i > 1 => fs[i].slot \in DOMAIN fs[i - 1].f.deps /\ fs[i].want = fs[i - 1].f.deps[fs[i].slot]

(* The same for the look-up that comes next. *)
AskAt(ctx, fac, fs, a) ==
  a # None =>
    /\ LeadsIn(ctx, fac, Below(fs, Len(fs) + 1), a.want, a.key)
    /\ Len(fs) > 0 => a.slot \in DOMAIN fs[Len(fs)].f.deps /\ a.want = fs[Len(fs)].f.deps[a.slot]

WayInv ==
  \A t \in Thread :
    /\ \A i \in 1..Len(frames[t]) : WayAt(contextual, factories, frames[t], i)
    /\ AskAt(contextual, factories, frames[t], ask[t])

HandInv ==
  \A k \in Key : factories[k] # None /\ factories[k].life # "instance" /\ factories[k].make = "same" =>
    factories[k].life = "transient" /\ ~factories[k].guard

(* What is kept for a type is an object of it. *)
MemoInv ==
  \A k \in Key :
    /\ instances[k] # None => instances[k].type = k
    /\ scoped[k] # None => scoped[k].type = k

GaveInv == \A g \in gave : Gets(contextual, factories, g.by, g.want, g.obj.type)

ContextInv == StackInv /\ WayInv /\ HandInv /\ MemoInv /\ GaveInv

(* A type leads to itself, and what it leads to leads on. *)
LEMMA LeadsFacts ==
  ASSUME NEW ctx, NEW fac, NEW by, NEW k
  PROVE  /\ LeadsIn(ctx, fac, by, k, k)
         /\ \A j \in Key, i \in Key :
              LeadsIn(ctx, fac, by, k, j) /\ i \in OnwardIn(ctx, fac, by, j) =>
                LeadsIn(ctx, fac, by, k, i)
         /\ \A j \in Key, i \in Key :
              LeadsIn(ctx, fac, by, k, j) /\ LeadsIn(ctx, fac, by, j, i) => LeadsIn(ctx, fac, by, k, i)
<1>1. LeadsIn(ctx, fac, by, k, k)
  BY DEF LeadsIn
<1>2. ASSUME NEW j \in Key, NEW i \in Key, LeadsIn(ctx, fac, by, k, j),
             LeadsIn(ctx, fac, by, j, i)
      PROVE  LeadsIn(ctx, fac, by, k, i)
  <2> SUFFICES ASSUME k # i, NEW S \in SUBSET (Key \ {i}), k \in S
               PROVE  \E x \in S : ~(OnwardIn(ctx, fac, by, x) \subseteq S)
    BY DEF LeadsIn
  <2>1. CASE j \in S
    <3>1. j # i
      BY <2>1
    <3> QED
      BY <1>2, <2>1, <3>1 DEF LeadsIn
  <2>2. CASE j \notin S
    <3>1. k # j /\ S \in SUBSET (Key \ {j})
      BY <2>2
    <3> QED
      BY <1>2, <3>1 DEF LeadsIn
  <2> QED
    BY <2>1, <2>2
<1>3. ASSUME NEW j \in Key, NEW i \in Key, i \in OnwardIn(ctx, fac, by, j)
      PROVE  LeadsIn(ctx, fac, by, j, i)
  <2> SUFFICES ASSUME j # i, NEW S \in SUBSET (Key \ {i}), j \in S
               PROVE  \E x \in S : ~(OnwardIn(ctx, fac, by, x) \subseteq S)
    BY DEF LeadsIn
  <2>1. i \notin S
    OBVIOUS
  <2> QED
    BY <1>3, <2>1
<1> QED
  BY <1>1, <1>2, <1>3

(* A set of naturals that is not empty has a least element. *)
LEMMA LeastNatural ==
  ASSUME NEW T \in SUBSET Nat, T # {}
  PROVE  \E x \in T : \A y \in T : x <= y
<1>1. PICK x \in T : \A y \in T : ~(<<y, x>> \in OpToRel(<, Nat))
  BY NatLessThanWellFounded, WFMin
<1>2. \A y \in T : ~(y < x)
  BY <1>1 DEF OpToRel
<1> QED
  BY <1>2

(* What Max() of some numbers up to n is. *)
LEMMA MaxFacts ==
  ASSUME NEW n \in Nat, NEW T \in SUBSET (0..n), T # {}
  PROVE  Max(T) \in T /\ \A y \in T : Max(T) >= y
<1> DEFINE D == {n - x : x \in T}
<1>1. D \in SUBSET Nat /\ D # {}
  <2>1. \A x \in T : x \in 0..n /\ n - x \in Nat
    OBVIOUS
  <2>2. \A d \in D : d \in Nat
    BY <2>1
  <2>3. PICK x : x \in T
    OBVIOUS
  <2>4. n - x \in D
    BY <2>3
  <2> QED
    BY <2>2, <2>4, Zenon
<1>2. PICK d \in D : \A y \in D : d <= y
  <2> HIDE DEF D
  <2> QED
    BY <1>1, LeastNatural
<1>3. PICK x \in T : d = n - x
  BY <1>2
<1>4. ASSUME NEW y \in T
      PROVE  x >= y
  <2>1. n - y \in D
    OBVIOUS
  <2>2. n - x <= n - y
    BY <1>2, <1>3, <2>1, Zenon
  <2>3. x \in 0..n /\ y \in 0..n
    OBVIOUS
  <2> HIDE DEF D
  <2> QED
    BY <2>2, <2>3
<1> QED
  BY <1>4 DEF Max

(* The consumer below a frame depends on the types and factories there. *)
LEMMA BelowSame ==
  ASSUME NEW fs, NEW gs, NEW i \in Nat \ {0},
         \A j \in 1..(i - 1) : gs[j].key = fs[j].key /\ gs[j].f = fs[j].f
  PROVE  Below(gs, i) = Below(fs, i)
<1>1. {j \in 1..(i - 1) : gs[j].f.guard} = {j \in 1..(i - 1) : fs[j].f.guard}
  OBVIOUS
<1> DEFINE G == {j \in 1..(i - 1) : fs[j].f.guard}
<1>2. CASE G = {}
  BY <1>1, <1>2 DEF Below
<1>3. CASE G # {}
  <2>1. i - 1 \in Nat /\ G \subseteq 1..(i - 1)
    OBVIOUS
  <2>2. Max(G) \in G
    <3> HIDE DEF G
    <3>1. G \in SUBSET (0..(i - 1))
      BY <2>1
    <3> QED
      BY <1>3, <2>1, <3>1, MaxFacts
  <2>3. gs[Max(G)].key = fs[Max(G)].key
    BY <2>1, <2>2
  <2> QED
    BY <1>1, <1>3, <2>3 DEF Below
<1> QED
  BY <1>2, <1>3

(* Consumer() is the one below the next frame. *)
LEMMA ConsumerIs ==
  ASSUME NEW fs \in Seq(Frame)
  PROVE  Consumer(fs) = Below(fs, Len(fs) + 1)
<1>1. DOMAIN fs = 1..Len(fs) /\ Len(fs) \in Nat /\ 1..(Len(fs) + 1 - 1) = 1..Len(fs)
  OBVIOUS
<1> QED
  BY <1>1 DEF Consumer, Below

(* The consumer is the top of building_. *)
LEMMA StackTop ==
  ASSUME NEW fs \in Seq(Frame), NEW b \in Seq(Key), Stacked(fs, b)
  PROVE  Below(fs, Len(fs) + 1) = IF b = <<>> THEN None ELSE Last(b)
<1> DEFINE L == Len(b) M == Marked(fs)
<1>1. PICK g \in [1..L -> 1..Len(fs)] :
        /\ \A m, n \in 1..L : m < n => g[m] < g[n]
        /\ \A n \in 1..L : g[n] \in M /\ b[n] = fs[g[n]].key
        /\ \A i \in M : \E n \in 1..L : g[n] = i
  BY DEF Stacked, Places
<1>2. Len(fs) \in Nat /\ L \in Nat /\ 1..(Len(fs) + 1 - 1) = 1..Len(fs)
  OBVIOUS
<1>3. Below(fs, Len(fs) + 1) = IF M = {} THEN None ELSE fs[Max(M)].key
  BY <1>2 DEF Below, Marked
<1>4. CASE b = <<>>
  <2>1. M = {}
    BY <1>1, <1>4
  <2> QED
    BY <1>3, <1>4, <2>1
<1>5. CASE b # <<>>
  <2>1. L \in 1..L /\ Last(b) = b[L]
    BY <1>2, <1>5 DEF Last
  <2>2. M # {} /\ M \in SUBSET (0..Len(fs))
    BY <1>1, <1>2, <2>1 DEF Marked
  <2>3. Max(M) \in M /\ \A y \in M : Max(M) >= y
    BY <1>2, <2>2, MaxFacts
  <2> DEFINE x == Max(M)
  <2>4. x \in M /\ x >= g[L]
    BY <1>1, <2>1, <2>3
  <2> HIDE DEF x
  <2>5. PICK n \in 1..L : g[n] = x
    BY <1>1, <2>4
  <2>6. n = L
    <3>1. g[n] \in 1..Len(fs) /\ g[L] \in 1..Len(fs)
      BY <2>1
    <3>2. n < L => g[n] < g[L]
      BY <1>1, <2>1
    <3> QED
      BY <1>2, <2>4, <2>5, <3>1, <3>2
  <2>7. fs[x].key = b[L]
    BY <1>1, <2>1, <2>5, <2>6
  <2> QED
    BY <1>3, <1>5, <2>1, <2>2, <2>7 DEF x
<1> QED
  BY <1>4, <1>5

(* No frames, no types. *)
LEMMA StackEmpty ==
  /\ Stacked(<<>>, <<>>)
  /\ \A b \in Seq(Key) : Stacked(<<>>, b) => b = <<>>
<1>1. Stacked(<<>>, <<>>)
  <2> DEFINE g == [n \in 1..0 |-> 0]
  <2>1. g \in [1..Len(<<>>) -> 1..Len(<<>>)] /\ Marked(<<>>) = {} /\ Len(<<>>) = 0
    BY DEF Marked
  <2>2. Places(g, <<>>, <<>>)
    BY <2>1 DEF Places
  <2> QED
    BY <2>1, <2>2 DEF Stacked
<1>2. ASSUME NEW b \in Seq(Key), Stacked(<<>>, b), b # <<>>
      PROVE  FALSE
  <2>1. PICK g \in [1..Len(b) -> 1..Len(<<>>)] : TRUE
    BY <1>2 DEF Stacked
  <2>2. 1 \in 1..Len(b)
    BY <1>2
  <2>3. g[1] \in 1..0
    BY <2>1, <2>2
  <2> QED
    BY <2>3
<1> QED
  BY <1>1, <1>2

(* Frames of the same types and factories are marked the same. *)
LEMMA StackSame ==
  ASSUME NEW fs, NEW gs, NEW b, Stacked(fs, b), Len(gs) = Len(fs),
         \A i \in 1..Len(fs) : gs[i].key = fs[i].key /\ gs[i].f = fs[i].f
  PROVE  Stacked(gs, b)
<1>1. Marked(gs) = Marked(fs)
  BY DEF Marked
<1>2. \A i \in Marked(fs) : gs[i].key = fs[i].key
  BY DEF Marked
<1> QED
  BY <1>1, <1>2 DEF Stacked, Places

(* A frame more: its type goes on building_ if it is marked. *)
LEMMA StackPush ==
  ASSUME NEW fs \in Seq(Frame), NEW b \in Seq(Key), Stacked(fs, b), NEW gs \in Seq(Frame),
         Len(gs) = Len(fs) + 1, \A i \in 1..Len(fs) : gs[i] = fs[i],
         gs[Len(fs) + 1].key \in Key \/ ~gs[Len(fs) + 1].f.guard
  PROVE  Stacked(gs, IF gs[Len(fs) + 1].f.guard THEN Append(b, gs[Len(fs) + 1].key) ELSE b)
<1> DEFINE L == Len(b) M == Marked(fs) k == Len(fs) + 1 d == Append(b, gs[k].key)
<1>1. PICK g \in [1..L -> 1..Len(fs)] :
        /\ \A m, n \in 1..L : m < n => g[m] < g[n]
        /\ \A n \in 1..L : g[n] \in M /\ b[n] = fs[g[n]].key
        /\ \A i \in M : \E n \in 1..L : g[n] = i
  BY DEF Stacked, Places
<1>2. /\ Len(fs) \in Nat /\ L \in Nat /\ Len(gs) = k /\ k \in 1..k /\ 1..Len(fs) \subseteq 1..k
      /\ \A n \in 1..(L + 1) : n # L + 1 => n \in 1..L
  OBVIOUS
<1>3. \A i \in 1..k : i \in Marked(gs) <=> (i \in M \/ (i = k /\ gs[k].f.guard))
  BY <1>2 DEF Marked
<1>4. \A i \in M : i \in 1..Len(fs) /\ gs[i] = fs[i]
  BY DEF Marked
<1>4a. Marked(gs) \subseteq 1..k /\ M \subseteq 1..k
  BY <1>2 DEF Marked
<1>5. CASE ~gs[k].f.guard
  <2>1. Marked(gs) = M
    BY <1>3, <1>4a, <1>5
  <2>2. g \in [1..L -> 1..Len(gs)]
    BY <1>2
  <2>3. Places(g, gs, b)
    BY <1>1, <1>4, <2>1 DEF Places
  <2>4. Stacked(gs, b)
    BY <2>2, <2>3 DEF Stacked
  <2> QED
    BY <1>5, <2>4
<1>6. CASE gs[k].f.guard
  <2>1. d \in Seq(Key) /\ Len(d) = L + 1 /\ d[L + 1] = gs[k].key /\ \A n \in 1..L : d[n] = b[n]
    BY <1>6, <1>2
  <2> DEFINE h == [n \in 1..(L + 1) |-> IF n = L + 1 THEN k ELSE g[n]]
  <2>2. h[L + 1] = k /\ \A n \in 1..L : h[n] = g[n] /\ g[n] \in 1..Len(fs)
    BY <1>2
  <2>3. h \in [1..Len(d) -> 1..Len(gs)]
    BY <1>2, <2>1
  <2> HIDE DEF h, d
  <2>4. \A m, n \in 1..(L + 1) : m < n => h[m] < h[n]
    <3> SUFFICES ASSUME NEW m \in 1..(L + 1), NEW n \in 1..(L + 1), m < n
                 PROVE  h[m] < h[n]
      OBVIOUS
    <3>1. m \in 1..L
      BY <1>2
    <3>2. CASE n = L + 1
      BY <1>2, <2>2, <3>1, <3>2
    <3>3. CASE n # L + 1
      <4>1. n \in 1..L
        BY <1>2, <3>3
      <4> QED
        BY <1>1, <2>2, <3>1, <4>1
    <3> QED
      BY <3>2, <3>3
  <2>5. \A n \in 1..(L + 1) : h[n] \in Marked(gs) /\ d[n] = gs[h[n]].key
    <3> SUFFICES ASSUME NEW n \in 1..(L + 1)
                 PROVE  h[n] \in Marked(gs) /\ d[n] = gs[h[n]].key
      OBVIOUS
    <3>1. CASE n = L + 1
      BY <1>2, <1>3, <1>6, <2>1, <2>2, <3>1
    <3>2. CASE n # L + 1
      <4>1. n \in 1..L
        BY <1>2, <3>2
      <4>2. g[n] \in M /\ g[n] \in 1..k /\ gs[g[n]] = fs[g[n]]
        BY <1>1, <1>4, <1>4a, <4>1
      <4> QED
        BY <1>1, <1>3, <2>1, <2>2, <4>1, <4>2
    <3> QED
      BY <3>1, <3>2
  <2>6. \A i \in Marked(gs) : \E n \in 1..(L + 1) : h[n] = i
    <3> SUFFICES ASSUME NEW i \in Marked(gs)
                 PROVE  \E n \in 1..(L + 1) : h[n] = i
      OBVIOUS
    <3>1. CASE i = k
      BY <1>2, <2>2, <3>1
    <3>2. CASE i # k
      <4>1. i \in M
        BY <1>3, <1>4a, <3>2
      <4>2. PICK n \in 1..L : g[n] = i
        BY <1>1, <4>1
      <4>3. n \in 1..(L + 1)
        BY <1>2
      <4> QED
        BY <2>2, <4>2, <4>3
    <3> QED
      BY <3>1, <3>2
  <2>7. Places(h, gs, d)
    BY <2>1, <2>4, <2>5, <2>6 DEF Places
  <2>8. Stacked(gs, d)
    BY <2>3, <2>7 DEF Stacked
  <2> QED
    BY <1>6, <2>8 DEF d
<1> QED
  BY <1>5, <1>6

(* A frame less. *)
LEMMA StackPop ==
  ASSUME NEW fs \in Seq(Frame), NEW b \in Seq(Key), Stacked(fs, b), fs # <<>>, NEW gs,
         Len(gs) = Len(fs) - 1,
         \A i \in 1..(Len(fs) - 1) : gs[i].key = fs[i].key /\ gs[i].f = fs[i].f
  PROVE  Stacked(gs, SubSeq(b, 1, Len(b) - (IF fs[Len(fs)].f.guard THEN 1 ELSE 0)))
<1> DEFINE L == Len(b) M == Marked(fs) k == Len(fs)
<1>1. PICK g \in [1..L -> 1..k] :
        /\ \A m, n \in 1..L : m < n => g[m] < g[n]
        /\ \A n \in 1..L : g[n] \in M /\ b[n] = fs[g[n]].key
        /\ \A i \in M : \E n \in 1..L : g[n] = i
  BY DEF Stacked, Places
<1>2. k \in Nat \ {0} /\ L \in Nat /\ k \in 1..k /\ \A i \in 1..k : i # k => i \in 1..(k - 1)
  OBVIOUS
<1>3. Marked(gs) = M \ {k}
  BY <1>2 DEF Marked
<1>4. \A i \in Marked(gs) : gs[i].key = fs[i].key
  BY <1>2 DEF Marked
<1>5. CASE ~fs[k].f.guard
  <2>1. k \notin M /\ Marked(gs) = M
    BY <1>3, <1>5 DEF Marked
  <2>2. g \in [1..L -> 1..Len(gs)]
    <3>1. \A n \in 1..L : g[n] \in 1..k /\ g[n] # k
      BY <1>1, <2>1
    <3> QED
      BY <1>2, <3>1
  <2>3. SubSeq(b, 1, L) = b
    BY <1>2
  <2>4. Places(g, gs, b)
    BY <1>1, <1>4, <2>1 DEF Places
  <2>5. Stacked(gs, b)
    BY <2>2, <2>4 DEF Stacked
  <2>6. Len(b) - (IF fs[Len(fs)].f.guard THEN 1 ELSE 0) = L
    BY <1>2, <1>5
  <2> QED
    BY <2>3, <2>5, <2>6
<1>6. CASE fs[k].f.guard
  <2>1. k \in M
    BY <1>2, <1>6 DEF Marked
  <2>2. PICK z \in 1..L : g[z] = k
    BY <1>1, <2>1
  <2>3. z = L
    <3>1. L \in 1..L /\ g[L] \in 1..k
      BY <1>2
    <3>2. z < L => g[z] < g[L]
      BY <1>1, <3>1
    <3> QED
      BY <1>2, <2>2, <3>1, <3>2
  <2> DEFINE d == SubSeq(b, 1, L - 1) h == [n \in 1..(L - 1) |-> g[n]]
  <2>4a. L - 1 \in Nat /\ \A n \in 1..(L - 1) : n \in 1..L /\ n < L
    BY <1>2, <2>2
  <2>4. Len(d) = L - 1 /\ \A n \in 1..(L - 1) : d[n] = b[n] /\ n \in 1..L /\ n < L
    <3> DEFINE r == L - 1
    <3>1. r \in Nat /\ r <= Len(b)
      BY <2>4a
    <3> HIDE DEF r
    <3>2. Len(SubSeq(b, 1, r)) = r /\ \A n \in 1..r : SubSeq(b, 1, r)[n] = b[n]
      BY <3>1
    <3> QED
      BY <2>4a, <3>2 DEF r
  <2>5. \A n \in 1..(L - 1) : h[n] = g[n] /\ g[n] \in 1..k /\ g[n] # k
    <3> SUFFICES ASSUME NEW n \in 1..(L - 1)
                 PROVE  g[n] \in 1..k /\ g[n] # k
      OBVIOUS
    <3>1. n \in 1..L /\ L \in 1..L /\ n < L
      BY <1>2, <2>2
    <3>2. g[n] < g[L] /\ g[L] = k /\ g[n] \in 1..k
      BY <1>1, <2>2, <2>3, <3>1
    <3> QED
      BY <1>2, <3>2
  <2>6. h \in [1..(L - 1) -> 1..Len(gs)]
    BY <1>2, <2>5
  <2> HIDE DEF d, h
  <2>7. \A m, n \in 1..(L - 1) : m < n => h[m] < h[n]
    BY <1>1, <2>4, <2>5
  <2>8. \A n \in 1..(L - 1) : h[n] \in Marked(gs) /\ d[n] = gs[h[n]].key
    <3> SUFFICES ASSUME NEW n \in 1..(L - 1)
                 PROVE  h[n] \in Marked(gs) /\ d[n] = gs[h[n]].key
      OBVIOUS
    <3>1. h[n] = g[n] /\ g[n] \in M /\ g[n] # k /\ b[n] = fs[g[n]].key /\ d[n] = b[n]
      BY <1>1, <2>4, <2>5
    <3>2. g[n] \in Marked(gs)
      BY <1>3, <3>1
    <3> QED
      BY <1>4, <3>1, <3>2
  <2>9. \A i \in Marked(gs) : \E n \in 1..(L - 1) : h[n] = i
    <3> SUFFICES ASSUME NEW i \in Marked(gs)
                 PROVE  \E n \in 1..(L - 1) : h[n] = i
      OBVIOUS
    <3>1. PICK n \in 1..L : g[n] = i
      BY <1>1, <1>3
    <3>2. i # k
      BY <1>3
    <3>3. n # L
      BY <2>2, <2>3, <3>1, <3>2
    <3>4. n \in 1..(L - 1)
      BY <1>2, <3>3
    <3> QED
      BY <2>5, <3>1, <3>4
  <2>10. Places(h, gs, d)
    BY <2>4, <2>7, <2>8, <2>9 DEF Places
  <2>11. Stacked(gs, d)
    BY <2>4, <2>6, <2>10 DEF Stacked
  <2> QED
    BY <1>6, <2>11 DEF d
<1> QED
  BY <1>5, <1>6

(* Unwinding pops as many types as building_ has. *)
LEMMA StackAll ==
  ASSUME NEW fs \in Seq(Frame), NEW b \in Seq(Key), Stacked(fs, b)
  PROVE  Cardinality({i \in DOMAIN fs : fs[i].f.guard}) = Len(b)
<1> DEFINE L == Len(b) M == Marked(fs)
<1>1. PICK g \in [1..L -> 1..Len(fs)] :
        /\ \A m, n \in 1..L : m < n => g[m] < g[n]
        /\ \A n \in 1..L : g[n] \in M
        /\ \A i \in M : \E n \in 1..L : g[n] = i
  BY DEF Stacked, Places
<1>2. L \in Nat /\ Len(fs) \in Nat /\ {i \in DOMAIN fs : fs[i].f.guard} = M
  BY DEF Marked
<1>3. \A m, n \in 1..L : g[m] = g[n] => m = n
  <2> SUFFICES ASSUME NEW m \in 1..L, NEW n \in 1..L, g[m] = g[n], m # n
               PROVE  FALSE
    OBVIOUS
  <2>1. g[m] \in 1..Len(fs) /\ g[n] \in 1..Len(fs)
    OBVIOUS
  <2>2. m < n \/ n < m
    BY <1>2
  <2> QED
    BY <1>1, <1>2, <2>1, <2>2
<1>4. g \in Bijection(1..L, M)
  <2>1. g \in [1..L -> M]
    BY <1>1
  <2> HIDE DEF L, M
  <2> QED
    BY <1>1, <1>3, <2>1 DEF Bijection, Injection, Surjection, IsInjective
<1>5. ExistsBijection(1..L, M)
  BY <1>4 DEF ExistsBijection
<1>6. IsFiniteSet(1..L) /\ Cardinality(1..L) = L
  <2>1. 1 \in Int /\ L \in Int
    BY <1>2
  <2> HIDE DEF L
  <2>2. IsFiniteSet(1..L) /\ Cardinality(1..L) = IF 1 > L THEN 0 ELSE L - 1 + 1
    BY ONLY <2>1, FS_Interval
  <2> QED
    BY <1>2, <2>2
<1>7. Cardinality(M) = L
  <2> HIDE DEF L, M
  <2> QED
    BY <1>5, <1>6, FS_Bijection
<1> QED
  BY <1>2, <1>7

(* A frame's way depends on the frames up to it. *)
LEMMA WaySame ==
  ASSUME NEW ctx, NEW fac, NEW fs, NEW gs, NEW i \in Nat \ {0},
         \A j \in 1..i : gs[j].key = fs[j].key /\ gs[j].f = fs[j].f,
         gs[i].want = fs[i].want, gs[i].slot = fs[i].slot, gs[i].got = fs[i].got,
         WayAt(ctx, fac, fs, i)
  PROVE  WayAt(ctx, fac, gs, i)
<1>1. Below(gs, i) = Below(fs, i)
  <2>1. \A j \in 1..(i - 1) : j \in 1..i
    OBVIOUS
  <2> QED
    BY <2>1, BelowSame
<1>2. gs[i].key = fs[i].key /\ gs[i].f = fs[i].f
  OBVIOUS
<1>3. i > 1 => gs[i - 1].f = fs[i - 1].f
  OBVIOUS
<1> QED
  BY <1>1, <1>2, <1>3 DEF WayAt

(* A frame that is not marked has the same consumer above it as below. *)
LEMMA BelowStep ==
  ASSUME NEW fs, NEW n \in Nat \ {0}, ~fs[n].f.guard
  PROVE  Below(fs, n + 1) = Below(fs, n)
<1> DEFINE A == {j \in 1..((n + 1) - 1) : fs[j].f.guard} B == {j \in 1..(n - 1) : fs[j].f.guard}
<1>1. A = B
  <2>1. \A j : j \in 1..((n + 1) - 1) <=> j \in 1..(n - 1) \/ j = n
    OBVIOUS
  <2> QED
    BY <2>1
<1>2. Below(fs, n + 1) = IF A = {} THEN None ELSE fs[Max(A)].key
  BY DEF Below
<1>3. Below(fs, n) = IF B = {} THEN None ELSE fs[Max(B)].key
  BY DEF Below
<1> HIDE DEF A, B
<1> QED
  BY <1>1, <1>2, <1>3

(* What Deliver() leaves of the frames, besides their types and factories. *)
LEMMA DeliverRest ==
  ASSUME TypeInv, NEW t \in Thread, NEW to, to.slot \in Nat, NEW obj \in Obj,
         NEW below \in Seq(Frame), Deliver(t, to, obj, below)
  PROVE  \A i \in 1..Len(below) :
           /\ frames'[t][i].want = below[i].want /\ frames'[t][i].slot = below[i].slot
           /\ i < Len(below) => frames'[t][i].got = below[i].got
           /\ i = Len(below) => frames'[t][i].got[to.slot] = obj
<1> DEFINE n == Len(below)
           top == [below[n] EXCEPT !.got = Merge([s \in {to.slot} |-> obj], @)]
<1>0. frames \in [Thread -> Seq(Frame)] /\ n \in Nat
  BY DEF TypeInv
<1> SUFFICES ASSUME NEW i \in 1..n
             PROVE  /\ frames'[t][i].want = below[i].want /\ frames'[t][i].slot = below[i].slot
                    /\ i < n => frames'[t][i].got = below[i].got
                    /\ i = n => frames'[t][i].got[to.slot] = obj
  OBVIOUS
<1>1. below # <<>> /\ n > 0 /\ below[n] \in Frame
  BY <1>0
<1>2. /\ top.want = below[n].want /\ top.slot = below[n].slot
      /\ top.got[to.slot] = obj
  BY <1>1 DEF Frame, Merge
<1>3. frames' = [frames EXCEPT ![t] = [below EXCEPT ![n] = top]]
  BY <1>1 DEF Deliver, ReplaceAt, Last
<1>4. frames'[t] = [below EXCEPT ![n] = top]
  BY <1>0, <1>3
<1> HIDE DEF top
<1>5. frames'[t][i] = IF i = n THEN top ELSE below[i]
  BY <1>0, <1>4
<1> HIDE DEF n
<1>6. CASE i = n
  BY <1>0, <1>2, <1>5, <1>6
<1>7. CASE i # n
  BY <1>5, <1>7
<1> QED
  BY <1>6, <1>7

(* A value that its consumer is to get goes to the frame that asked. *)
LEMMA DeliverWays ==
  ASSUME TypeInv, FactoryInv, HandInv, NEW t \in Thread, NEW to, to.slot \in Nat, NEW obj \in Obj,
         NEW below \in Seq(Frame), Deliver(t, to, obj, below), UNCHANGED <<factories, contextual>>,
         \A i \in 1..Len(below) : WayAt(contextual, factories, below, i),
         \A i \in 1..Len(below) : below[i].key \in Key =>
           below[i].f = factories[below[i].key] /\ below[i].f.life # "instance",
         Len(below) > 0 => to.slot \in DOMAIN below[Len(below)].f.deps
                           /\ to.want = below[Len(below)].f.deps[to.slot],
         Gets(contextual, factories, Below(below, Len(below) + 1), to.want, obj.type)
  PROVE  /\ \A i \in 1..Len(frames'[t]) : WayAt(contextual', factories', frames'[t], i)
         /\ GaveInv => GaveInv'
<1>0. \A i \in 1..Len(below) :
        /\ frames'[t][i].want = below[i].want /\ frames'[t][i].slot = below[i].slot
        /\ i < Len(below) => frames'[t][i].got = below[i].got
        /\ i = Len(below) => frames'[t][i].got[to.slot] = obj
  BY DeliverRest
<1> DEFINE n == Len(below) fs == frames'[t]
<1>1. /\ Len(fs) = n /\ n \in Nat
      /\ \A i \in 1..n : fs[i].key = below[i].key /\ fs[i].f = below[i].f
      /\ gave' = gave \union {[want |-> to.want, key |-> to.key, by |-> Consumer(below),
                               obj |-> obj, epoch |-> epoch]}
  BY DeliverFacts
<1>2. \A i \in 1..n :
        /\ fs[i].want = below[i].want /\ fs[i].slot = below[i].slot
        /\ i < n => fs[i].got = below[i].got
        /\ i = n => fs[i].got[to.slot] = obj
  BY <1>0
<1> HIDE DEF fs
<1>3. ASSUME NEW i \in 1..n, i < n
      PROVE  WayAt(contextual, factories, fs, i)
  <2>1. i \in Nat \ {0} /\ \A j \in 1..i : j \in 1..n
    BY <1>1
  <2>2. \A j \in 1..i : fs[j].key = below[j].key /\ fs[j].f = below[j].f
    BY <1>1, <2>1
  <2>3. fs[i].want = below[i].want /\ fs[i].slot = below[i].slot /\ fs[i].got = below[i].got
    BY <1>2, <1>3
  <2>4. WayAt(contextual, factories, below, i)
    BY <1>3
  <2> QED
    BY <2>1, <2>2, <2>3, <2>4, WaySame
<1>4. ASSUME n > 0
      PROVE  WayAt(contextual, factories, fs, n)
  <2>0. n \in 1..n /\ n \in Nat \ {0} /\ below[n] \in Frame
    BY <1>1, <1>4
  <2>1. Below(fs, n) = Below(below, n)
    <3>1. \A j \in 1..(n - 1) : j \in 1..n
      BY <1>1
    <3>2. \A j \in 1..(n - 1) : fs[j].key = below[j].key /\ fs[j].f = below[j].f
      BY <1>1, <3>1
    <3> HIDE DEF n
    <3> QED
      BY <2>0, <3>2, BelowSame
  <2>2. /\ fs[n].key = below[n].key /\ fs[n].f = below[n].f /\ fs[n].want = below[n].want
        /\ fs[n].slot = below[n].slot
        /\ fs[n].got[to.slot] = obj
    BY <1>1, <1>2, <2>0
  <2>3. WayAt(contextual, factories, below, n)
    BY <2>0
  <2>4. n > 1 => fs[n - 1].f = below[n - 1].f
    BY <1>1
  <2>5. ASSUME below[n].key \in Key, below[n].f.make = "same"
        PROVE  Gets(contextual, factories, Below(below, n), below[n].f.deps[1], fs[n].got[1].type)
    <3>1. below[n].f = factories[below[n].key] /\ below[n].f.life # "instance" /\ below[n].f \in Factory
      BY <2>0, <2>5 DEF Frame
    <3>2. factories[below[n].key] # None
      BY <3>1, NoneFacts
    <3>3. ~below[n].f.guard /\ Len(below[n].f.deps) = 1
      BY <2>5, <3>1, <3>2 DEF HandInv, FactoryInv
    <3>4. DOMAIN below[n].f.deps = {1}
      BY <3>1, <3>3 DEF Factory
    <3>5. to.slot = 1 /\ to.want = below[n].f.deps[1]
      BY <1>4, <3>4
    <3>6. fs[n].got[1] = obj
      BY <2>2, <3>5
    <3>7. Below(below, n + 1) = Below(below, n)
      <4> HIDE DEF n
      <4> QED
        BY <2>0, <3>3, BelowStep
    <3> QED
      BY <3>5, <3>6, <3>7
  <2> HIDE DEF n
  <2> QED
    BY <2>1, <2>2, <2>3, <2>4, <2>5 DEF WayAt
<1>5. \A i \in 1..Len(fs) : WayAt(contextual', factories', fs, i)
  <2> SUFFICES ASSUME NEW i \in 1..n
               PROVE  WayAt(contextual, factories, fs, i)
    BY <1>1
  <2> QED
    BY <1>1, <1>3, <1>4
<1>6. ASSUME GaveInv
      PROVE  GaveInv'
  <2> SUFFICES ASSUME NEW g \in gave'
               PROVE  Gets(contextual, factories, g.by, g.want, g.obj.type)
    BY DEF GaveInv
  <2>1. CASE g \in gave
    BY <1>6, <2>1 DEF GaveInv
  <2>2. CASE g = [want |-> to.want, key |-> to.key, by |-> Consumer(below), obj |-> obj, epoch |-> epoch]
    <3>1. g.by = Below(below, n + 1) /\ g.want = to.want /\ g.obj = obj
      BY <2>2, ConsumerIs
    <3> QED
      BY <3>1
  <2> QED
    BY <1>1, <2>1, <2>2
<1> QED
  BY <1>5, <1>6 DEF fs

(* WayInv and StackInv after a step of the thread that holds the mutex, or *)
(* takes it: the others have no frames.                                    *)
LEMMA OwnerWays ==
  ASSUME NEW t \in Thread, \A u \in Thread \ {t} : Idle(u),
         \A u \in Thread \ {t} : frames'[u] = frames[u] /\ ask'[u] = ask[u],
         \A i \in 1..Len(frames'[t]) : WayAt(contextual', factories', frames'[t], i),
         AskAt(contextual', factories', frames'[t], ask'[t]),
         mutex' \in {t, None}, Stacked(frames'[t], building'),
         mutex' = None => building' = <<>>
  PROVE  WayInv' /\ StackInv'
<1>1. \A u \in Thread \ {t} : frames'[u] = <<>> /\ ask'[u] = None
  BY DEF Idle
<1>2. WayInv'
  <2> SUFFICES ASSUME NEW u \in Thread
               PROVE  /\ \A i \in 1..Len(frames'[u]) : WayAt(contextual', factories', frames'[u], i)
                      /\ AskAt(contextual', factories', frames'[u], ask'[u])
    BY DEF WayInv
  <2>1. CASE u = t
    BY <2>1
  <2>2. CASE u # t
    <3>1. Len(frames'[u]) = 0 /\ ask'[u] = None
      BY <1>1, <2>2
    <3> QED
      BY <3>1 DEF AskAt
  <2> QED
    BY <2>1, <2>2
<1>3. StackInv'
  BY NoneFacts DEF StackInv
<1> QED
  BY <1>2, <1>3

(* What a step that binds, keeps and hands out nothing leaves. *)
LEMMA QuietContext ==
  ASSUME HandInv, MemoInv, GaveInv, UNCHANGED <<factories, contextual, instances, scoped, gave>>
  PROVE  HandInv' /\ MemoInv' /\ GaveInv'
BY DEF HandInv, MemoInv, GaveInv

(* Who holds the mutex, and what is then on building_. *)
LEMMA HolderFacts ==
  ASSUME BaseInv, StackInv, WayInv, NEW t \in Thread, ~Idle(t)
  PROVE  /\ TypeInv /\ FactoryInv /\ FrameInv /\ mutex = t /\ (\A u \in Thread \ {t} : Idle(u))
         /\ frames[t] \in Seq(Frame) /\ building \in Seq(Key) /\ Stacked(frames[t], building)
         /\ Below(frames[t], Len(frames[t]) + 1) = IF building = <<>> THEN None ELSE Last(building)
         /\ \A i \in 1..Len(frames[t]) : WayAt(contextual, factories, frames[t], i)
         /\ AskAt(contextual, factories, frames[t], ask[t])
<1>1. TypeInv /\ FactoryInv /\ FrameInv /\ LockInv
  BY DEF BaseInv
<1>2. mutex = t /\ \A u \in Thread \ {t} : Idle(u)
  BY <1>1, Alone
<1>3. frames[t] \in Seq(Frame) /\ building \in Seq(Key)
  BY <1>1 DEF TypeInv
<1>4. Stacked(frames[t], building)
  BY <1>2 DEF StackInv
<1> QED
  BY <1>1, <1>2, <1>3, <1>4, StackTop DEF WayInv

(* The outermost resolve<T>(). *)
LEMMA BeginContext ==
  ASSUME BaseInv, ContextInv, NEW t \in Thread, NEW k \in Key, Begin(t, k),
         UNCHANGED <<factories, contextual, instances, scoped, building, frames, gave>>
  PROVE  ContextInv'
<1>1. \A u \in Thread : Idle(u)
  BY LockAlone DEF Begin, BaseInv
<1>2. ask' = [ask EXCEPT ![t] = Lookup(k, k, 1)] /\ mutex' = t /\ mutex \in {None, t}
  BY DEF Begin, Lock
<1>3. TypeInv /\ building \in Seq(Key) /\ frames[t] = <<>>
  BY <1>1 DEF BaseInv, TypeInv, Idle
<1>4. ask'[t] = Lookup(k, k, 1) /\ \A u \in Thread \ {t} : ask'[u] = ask[u]
  BY <1>2, <1>3 DEF TypeInv
<1>5. Stacked(frames'[t], building')
  BY <1>2, <1>3, StackEmpty DEF ContextInv, StackInv
<1>6. Len(frames'[t]) = 0
  BY <1>3
<1>7. AskAt(contextual', factories', frames'[t], ask'[t])
  <2>1. LeadsIn(contextual, factories, Below(frames'[t], Len(frames'[t]) + 1), k, k)
    BY LeadsFacts
  <2> QED
    BY <1>4, <1>6, <2>1 DEF AskAt, Lookup
<1>8. WayInv' /\ StackInv'
  <2>1. \A i \in 1..Len(frames'[t]) : WayAt(contextual', factories', frames'[t], i)
    BY <1>6
  <2>2. mutex' \in {t, None} /\ (mutex' = None => building' = <<>>)
    BY <1>2, NoneFacts
  <2>3. \A u \in Thread \ {t} : frames'[u] = frames[u] /\ ask'[u] = ask[u]
    BY <1>4
  <2> QED
    BY <1>1, <1>5, <1>7, <2>1, <2>2, <2>3, OwnerWays
<1> QED
  BY <1>8, QuietContext DEF ContextInv

(* tagged() puts a frame that is not marked. *)
LEMMA TaggedContext ==
  ASSUME BaseInv, ContextInv, NEW t \in Thread, NEW g \in Tag, tagged(t, g)
  PROVE  ContextInv'
<1>0. TypeInv /\ BaseInv'
  BY TaggedKeeps DEF BaseInv
<1>1. \A u \in Thread : Idle(u)
  BY LockAlone DEF tagged, BaseInv
<1> DEFINE fr == [want |-> g, key |-> g, slot |-> 1, got |-> <<>>,
                  f |-> [life |-> "transient", deps |-> tags[g], guard |-> FALSE, make |-> "list"]]
<1>2. /\ frames' = [frames EXCEPT ![t] = <<fr>>] /\ mutex' = t /\ mutex \in {None, t}
      /\ UNCHANGED <<factories, contextual, instances, scoped, building, ask, gave>>
  BY DEF tagged, Lock, conf
<1>3. frames[t] = <<>> /\ building \in Seq(Key) /\ <<>> \in Seq(Frame) /\ ask[t] = None
  BY <1>0, <1>1 DEF TypeInv, Idle
<1>4. Stacked(<<>>, building)
  BY <1>2, <1>3, StackEmpty DEF ContextInv, StackInv
<1>5. fr.key = g /\ ~fr.f.guard
  OBVIOUS
<1> HIDE DEF fr
<1>6. /\ frames'[t] = <<fr>> /\ frames'[t] \in Seq(Frame)
      /\ \A u \in Thread \ {t} : frames'[u] = frames[u] /\ ask'[u] = ask[u]
  BY <1>0, <1>2 DEF BaseInv, TypeInv
<1>7. Len(frames'[t]) = 1 /\ frames'[t][1] = fr
  BY <1>6
<1>8. Stacked(frames'[t], building')
  <2> DEFINE gs == frames'[t] e == <<>>
  <2>1. /\ gs \in Seq(Frame) /\ e \in Seq(Frame) /\ Len(e) = 0 /\ Len(gs) = Len(e) + 1
        /\ ~gs[Len(e) + 1].f.guard /\ \A i \in 1..Len(e) : gs[i] = e[i]
    BY <1>3, <1>5, <1>6, <1>7
  <2>2. Stacked(e, building)
    BY <1>4
  <2> HIDE DEF gs, e
  <2>3. Stacked(gs, building)
    BY <1>3, <2>1, <2>2, StackPush
  <2> QED
    BY <1>2, <2>3 DEF gs
<1>9. \A i \in 1..Len(frames'[t]) : WayAt(contextual', factories', frames'[t], i)
  <2>1. WayAt(contextual', factories', frames'[t], 1)
    BY <1>5, <1>7, NoneFacts DEF WayAt
  <2> QED
    BY <1>7, <2>1
<1>10. WayInv' /\ StackInv'
  <2>1. AskAt(contextual', factories', frames'[t], ask'[t])
    BY <1>2, <1>3 DEF AskAt
  <2>2. mutex' \in {t, None} /\ (mutex' = None => building' = <<>>)
    BY <1>2, NoneFacts
  <2> QED
    BY <1>1, <1>6, <1>8, <1>9, <2>1, <2>2, OwnerWays
<1> QED
  BY <1>2, <1>10, QuietContext DEF ContextInv

(* A contextual binding of the consumer leads on. *)
LEMMA RedirectContext ==
  ASSUME BaseInv, ContextInv, NEW t \in Thread, Redirect(t)
  PROVE  ContextInv'
<1> DEFINE by == Below(frames[t], Len(frames[t]) + 1)
           a == ask[t]
           c == contextual[<<Last(building), a.key>>]
<1>1. ~Idle(t) /\ StackInv /\ WayInv /\ building # <<>>
  BY DEF Redirect, Override, Idle, ContextInv
<1>2. /\ TypeInv /\ mutex = t /\ (\A u \in Thread \ {t} : Idle(u)) /\ frames[t] \in Seq(Frame)
      /\ Stacked(frames[t], building) /\ by = Last(building)
      /\ \A i \in 1..Len(frames[t]) : WayAt(contextual, factories, frames[t], i)
      /\ AskAt(contextual, factories, frames[t], a)
  BY <1>1, HolderFacts
<1>3. /\ a \in Ask /\ <<by, a.key>> \in DOMAIN contextual
      /\ UNCHANGED <<factories, contextual, instances, scoped, building, mutex, frames, gave>>
  BY <1>2 DEF Redirect, Override, conf, TypeInv
<1>4. c \in Key /\ c = contextual[<<by, a.key>>] /\ a.key \in Key /\ a.want \in Key
  BY <1>2, <1>3 DEF TypeInv, Ask
<1>5. ask' = [ask EXCEPT ![t] = [a EXCEPT !.key = c]]
  BY DEF Redirect
<1>6. /\ ask'[t] = [a EXCEPT !.key = c] /\ \A u \in Thread \ {t} : ask'[u] = ask[u]
  BY <1>2, <1>5 DEF TypeInv
<1>7. ask'[t].key = c /\ ask'[t].want = a.want /\ ask'[t].slot = a.slot
  BY <1>3, <1>6 DEF Ask
<1>8. a # None
  BY DEF Redirect
<1>9. AskAt(contextual', factories', frames'[t], ask'[t])
  <2>1. LeadsIn(contextual, factories, by, a.want, a.key)
    BY <1>2, <1>8 DEF AskAt
  <2>2. c \in OnwardIn(contextual, factories, by, a.key)
    BY <1>3, <1>4 DEF OnwardIn
  <2> HIDE DEF by, a, c
  <2>3. LeadsIn(contextual, factories, by, a.want, c)
    BY <1>4, <2>1, <2>2, LeadsFacts
  <2> QED
    BY <1>2, <1>3, <1>7, <1>8, <2>3 DEF AskAt, by
<1>10. WayInv' /\ StackInv'
  <2>1. /\ mutex' \in {t, None} /\ (mutex' = None => building' = <<>>)
        /\ Stacked(frames'[t], building')
        /\ \A i \in 1..Len(frames'[t]) : WayAt(contextual', factories', frames'[t], i)
        /\ \A u \in Thread \ {t} : frames'[u] = frames[u] /\ ask'[u] = ask[u]
    BY <1>2, <1>3, <1>6, NoneFacts
  <2> QED
    BY <1>2, <1>9, <2>1, OwnerWays
<1> QED
  BY <1>3, <1>10, QuietContext DEF ContextInv

(* Where a found type does not lead its consumer on. *)
LEMMA FoundStays ==
  ASSUME BaseInv, StackInv, WayInv, NEW t \in Thread, Found(t)
  PROVE  /\ ask[t] \in Ask /\ factories[ask[t].key] \in Factory
         /\ <<Below(frames[t], Len(frames[t]) + 1), ask[t].key>> \notin DOMAIN contextual
<1>1. ~Idle(t)
  BY DEF Found, Idle
<1>2. /\ TypeInv
      /\ Below(frames[t], Len(frames[t]) + 1) = IF building = <<>> THEN None ELSE Last(building)
  BY <1>1, HolderFacts
<1>3. ask[t] \in Ask
  BY <1>2 DEF Found, TypeInv
<1>4. ask[t].key \in Key
  BY <1>3 DEF Ask
<1>5. factories[ask[t].key] \in Factory
  BY <1>2, <1>4 DEF Found, TypeInv
<1>6. <<None, ask[t].key>> \notin DOMAIN contextual
  BY <1>2, NoneFacts DEF TypeInv
<1> QED
  BY <1>2, <1>3, <1>5, <1>6 DEF Found, Override

(* A kept value is what the consumer is to get. *)
LEMMA ReturnContext ==
  ASSUME BaseInv, ContextInv, NEW t \in Thread, Return(t)
  PROVE  ContextInv'
<1> DEFINE a == ask[t] obj == Memo(a.key) n == Len(frames[t])
<1>1. ~Idle(t) /\ StackInv /\ WayInv /\ HandInv /\ MemoInv /\ GaveInv /\ Found(t)
  BY DEF Return, Found, Idle, ContextInv
<1>2. /\ TypeInv /\ FactoryInv /\ FrameInv /\ mutex = t /\ (\A u \in Thread \ {t} : Idle(u))
      /\ frames[t] \in Seq(Frame) /\ building \in Seq(Key) /\ Stacked(frames[t], building)
      /\ \A i \in 1..n : WayAt(contextual, factories, frames[t], i)
      /\ AskAt(contextual, factories, frames[t], a)
  BY <1>1, HolderFacts
<1>3. /\ a \in Ask /\ factories[a.key] \in Factory
      /\ <<Below(frames[t], n + 1), a.key>> \notin DOMAIN contextual
  BY <1>1, FoundStays
<1>4. /\ obj # None /\ Deliver(t, a, obj, frames[t]) /\ ask' = [ask EXCEPT ![t] = None]
      /\ UNCHANGED <<factories, contextual, instances, scoped, building>> /\ a # None
  BY DEF Return, Found, conf
<1>5. a.slot \in Nat /\ a.key \in Key /\ a.want \in Key /\ obj \in Obj
  BY <1>2, <1>3, <1>4, MemoType DEF Ask
<1>6. obj.type = a.key /\ factories[a.key].life # "transient"
  BY <1>1, <1>3, <1>4, <1>5 DEF Memo, MemoInv, Factory
<1>7. Gets(contextual, factories, Below(frames[t], n + 1), a.want, obj.type)
  BY <1>2, <1>3, <1>4, <1>6 DEF Gets, OnwardIn, AskAt
<1>8. n > 0 => a.slot \in DOMAIN frames[t][n].f.deps /\ a.want = frames[t][n].f.deps[a.slot]
  BY <1>2, <1>4 DEF AskAt
<1>9. \A i \in 1..n : frames[t][i].key \in Key =>
        frames[t][i].f = factories[frames[t][i].key] /\ frames[t][i].f.life # "instance"
  BY <1>2, NoneFacts DEF FrameInv
<1>10. /\ \A i \in 1..Len(frames'[t]) : WayAt(contextual', factories', frames'[t], i)
       /\ GaveInv'
  <2> HIDE DEF a, obj
  <2> QED
    BY <1>1, <1>2, <1>4, <1>5, <1>7, <1>8, <1>9, DeliverWays
<1>11. /\ \A u \in Thread \ {t} : frames'[u] = frames[u]
       /\ Len(frames'[t]) = n
       /\ \A i \in 1..n : frames'[t][i].key = frames[t][i].key /\ frames'[t][i].f = frames[t][i].f
       /\ mutex' = IF frames[t] = <<>> THEN None ELSE mutex
  BY ReturnFacts
<1>12. ask'[t] = None /\ \A u \in Thread \ {t} : ask'[u] = ask[u]
  BY <1>2, <1>4 DEF TypeInv
<1>13. Stacked(frames'[t], building')
  BY <1>2, <1>4, <1>11, StackSame
<1>14. mutex' \in {t, None} /\ (mutex' = None => building' = <<>>)
  BY <1>2, <1>4, <1>11, StackEmpty, NoneFacts
<1>15. WayInv' /\ StackInv'
  <2>1. AskAt(contextual', factories', frames'[t], ask'[t])
    BY <1>12 DEF AskAt
  <2> QED
    BY <1>2, <1>10, <1>11, <1>12, <1>13, <1>14, <2>1, OwnerWays
<1>16. HandInv' /\ MemoInv'
  BY <1>1, <1>4 DEF HandInv, MemoInv
<1> QED
  BY <1>10, <1>15, <1>16 DEF ContextInv

(* A factory is called for the type that was found. *)
LEMMA BuildContext ==
  ASSUME BaseInv, ContextInv, NEW t \in Thread, Build(t)
  PROVE  ContextInv'
<1> DEFINE a == ask[t] n == Len(frames[t]) f == factories[a.key] gs == frames'[t]
           fr == [want |-> a.want, key |-> a.key, slot |-> a.slot, got |-> <<>>, f |-> f]
<1>1. ~Idle(t) /\ StackInv /\ WayInv /\ Found(t)
  BY DEF Build, Found, Idle, ContextInv
<1>2. /\ TypeInv /\ mutex = t /\ (\A u \in Thread \ {t} : Idle(u))
      /\ frames[t] \in Seq(Frame) /\ building \in Seq(Key) /\ Stacked(frames[t], building)
      /\ \A i \in 1..n : WayAt(contextual, factories, frames[t], i)
      /\ AskAt(contextual, factories, frames[t], a)
  BY <1>1, HolderFacts
<1>3. /\ a \in Ask /\ f \in Factory /\ <<Below(frames[t], n + 1), a.key>> \notin DOMAIN contextual
  BY <1>1, FoundStays
<1>4. /\ frames' = [frames EXCEPT ![t] = Append(frames[t], fr)]
      /\ building' = IF f.guard THEN Append(building, a.key) ELSE building
      /\ ask' = [ask EXCEPT ![t] = None] /\ mutex' = mutex /\ a # None
      /\ UNCHANGED <<factories, contextual, instances, scoped, gave>>
  BY DEF Build, Found, conf
<1>5. /\ gs \in Seq(Frame) /\ \A u \in Thread \ {t} : frames'[u] = frames[u]
      /\ Len(gs) = n + 1 /\ \A i \in 1..n : gs[i] = frames[t][i]
  BY BuildFacts
<1>6. n \in Nat /\ a.key \in Key
  BY <1>2, <1>3 DEF Ask
<1>7. gs[n + 1] = fr
  <2> HIDE DEF fr
  <2>1. gs = Append(frames[t], fr)
    BY <1>2, <1>4 DEF TypeInv
  <2> QED
    BY <1>2, <1>6, <2>1
<1>8. /\ gs[n + 1].key = a.key /\ gs[n + 1].f = f /\ gs[n + 1].want = a.want
      /\ gs[n + 1].slot = a.slot /\ DOMAIN gs[n + 1].got = {}
  BY <1>7
<1> HIDE DEF gs, fr
<1>9. Stacked(gs, building')
  <2>1. Stacked(gs, IF gs[n + 1].f.guard THEN Append(building, gs[n + 1].key) ELSE building)
    BY <1>2, <1>5, <1>6, <1>8, StackPush
  <2> QED
    BY <1>4, <1>8, <2>1
<1>10. ASSUME NEW i \in 1..n
       PROVE  WayAt(contextual, factories, gs, i)
  <2>1. i \in Nat \ {0} /\ \A j \in 1..i : j \in 1..n
    BY <1>6
  <2>2. \A j \in 1..i : gs[j].key = frames[t][j].key /\ gs[j].f = frames[t][j].f
    BY <1>5, <2>1
  <2>3. gs[i] = frames[t][i] /\ WayAt(contextual, factories, frames[t], i)
    BY <1>2, <1>5
  <2> QED
    BY <2>1, <2>2, <2>3, WaySame
<1>11. WayAt(contextual, factories, gs, n + 1)
  <2>1. Below(gs, n + 1) = Below(frames[t], n + 1)
    <3>1. \A j \in 1..((n + 1) - 1) : gs[j].key = frames[t][j].key /\ gs[j].f = frames[t][j].f
      BY <1>5, <1>6
    <3>2. n + 1 \in Nat \ {0}
      BY <1>6
    <3> QED
      BY <3>1, <3>2, BelowSame
  <2>2. LeadsIn(contextual, factories, Below(gs, n + 1), a.want, a.key)
    BY <1>2, <1>4, <2>1 DEF AskAt
  <2>3. n + 1 > 1 => a.slot \in DOMAIN gs[(n + 1) - 1].f.deps /\ a.want = gs[(n + 1) - 1].f.deps[a.slot]
    <3> SUFFICES ASSUME n > 0
                 PROVE  a.slot \in DOMAIN gs[n].f.deps /\ a.want = gs[n].f.deps[a.slot]
      BY <1>6
    <3>1. gs[n] = frames[t][n]
      BY <1>5, <1>6
    <3> QED
      BY <1>2, <1>4, <3>1 DEF AskAt
  <2> HIDE DEF n
  <2> QED
    BY <1>3, <1>8, <2>1, <2>2, <2>3 DEF WayAt
<1>12. \A i \in 1..Len(gs) : WayAt(contextual', factories', gs, i)
  <2> SUFFICES ASSUME NEW i \in 1..(n + 1)
               PROVE  WayAt(contextual, factories, gs, i)
    BY <1>4, <1>5
  <2>1. i = n + 1 \/ i \in 1..n
    BY <1>6
  <2> QED
    BY <1>10, <1>11, <2>1
<1>13. ask'[t] = None /\ \A u \in Thread \ {t} : ask'[u] = ask[u]
  BY <1>2, <1>4 DEF TypeInv
<1>14. WayInv' /\ StackInv'
  <2>1. AskAt(contextual', factories', frames'[t], ask'[t])
    BY <1>13 DEF AskAt
  <2>2. mutex' \in {t, None} /\ (mutex' = None => building' = <<>>)
    BY <1>2, <1>4, NoneFacts
  <2> QED
    BY <1>2, <1>5, <1>9, <1>12, <1>13, <2>1, <2>2, OwnerWays DEF gs
<1> QED
  BY <1>4, <1>14, QuietContext DEF ContextInv

(* A factory asks for one of its arguments. *)
LEMMA ResolveDepContext ==
  ASSUME BaseInv, ContextInv, NEW t \in Thread, ResolveDep(t)
  PROVE  ContextInv'
<1> DEFINE n == Len(frames[t]) deps == frames[t][n].f.deps
<1>1. ~Idle(t) /\ StackInv /\ WayInv
  BY DEF ResolveDep, InFactory, Idle, ContextInv
<1>2. /\ TypeInv /\ mutex = t /\ (\A u \in Thread \ {t} : Idle(u))
      /\ frames[t] \in Seq(Frame) /\ Stacked(frames[t], building)
      /\ \A i \in 1..n : WayAt(contextual, factories, frames[t], i)
  BY <1>1, HolderFacts
<1>3. frames[t] # <<>> /\ UNCHANGED <<factories, contextual, instances, scoped, building, mutex, frames, gave>>
  BY DEF ResolveDep, InFactory, conf
<1>4. n \in Nat \ {0} /\ frames[t][n] \in Frame
  BY <1>2, <1>3
<1>5. deps \in Seq(Key)
  BY <1>4 DEF Frame, Factory
<1>6. PICK s \in DOMAIN deps : ask' = [ask EXCEPT ![t] = Lookup(deps[s], deps[s], s)]
  <2>1. PICK r \in Missing(t) :
          ask' = [ask EXCEPT ![t] = Lookup(Top(t).f.deps[r], Top(t).f.deps[r], r)]
    BY DEF ResolveDep
  <2>2. Top(t).f.deps = deps /\ Missing(t) \subseteq DOMAIN deps
    BY DEF Missing, Top, Last
  <2> HIDE DEF deps
  <2> QED
    BY <2>1, <2>2
<1>7. ask'[t] = Lookup(deps[s], deps[s], s) /\ \A u \in Thread \ {t} : ask'[u] = ask[u]
  BY <1>2, <1>6 DEF TypeInv
<1>8. AskAt(contextual', factories', frames'[t], ask'[t])
  <2>1. deps[s] \in Key
    BY <1>5
  <2>2. LeadsIn(contextual, factories, Below(frames[t], n + 1), deps[s], deps[s])
    BY <2>1, LeadsFacts
  <2>3. ask'[t].want = deps[s] /\ ask'[t].key = deps[s] /\ ask'[t].slot = s
    BY <1>7 DEF Lookup
  <2> QED
    BY <1>3, <1>4, <2>2, <2>3 DEF AskAt
<1>9. WayInv' /\ StackInv'
  <2>1. /\ mutex' \in {t, None} /\ (mutex' = None => building' = <<>>)
        /\ Stacked(frames'[t], building')
        /\ \A i \in 1..Len(frames'[t]) : WayAt(contextual', factories', frames'[t], i)
        /\ \A u \in Thread \ {t} : frames'[u] = frames[u] /\ ask'[u] = ask[u]
    BY <1>2, <1>3, <1>7, NoneFacts
  <2> QED
    BY <1>2, <1>8, <2>1, OwnerWays
<1> QED
  BY <1>3, <1>9, QuietContext DEF ContextInv

(* What a type's factory returns: a new object of it, or what it resolved. *)
LEMMA ConstructGives ==
  ASSUME BaseInv, NEW t \in Thread, Construct(t), frames[t][Len(frames[t])].key \in Key
  PROVE  LET fr == frames[t][Len(frames[t])]
             f == factories[fr.key]
         IN /\ fr.f = f /\ f \in Factory /\ f.life # "instance" /\ fr.slot \in Nat
            /\ \E obj \in Obj :
                 /\ Deliver(t, fr, obj, Front(frames[t]))
                 /\ instances' = IF f.life = "singleton" THEN [instances EXCEPT ![fr.key] = obj]
                                 ELSE instances
                 /\ scoped' = IF f.life = "scoped" THEN [scoped EXCEPT ![fr.key] = obj] ELSE scoped
                 /\ \/ f.make = "new" /\ obj.type = fr.key
                    \/ /\ f.make = "same" /\ Len(f.deps) = 1
                       /\ 1 \in DOMAIN fr.got /\ obj = fr.got[1]
<1> DEFINE n == Len(frames[t])
           fr == frames[t][n]
           k == fr.key
           obj == CASE fr.f.make = "same" -> fr.got[1]
                    [] fr.f.make = "new" -> [type |-> k, n |-> made[k] + 1]
                    [] fr.f.make = "list" -> fr.got
<1>1. TypeInv /\ FrameInv /\ FactoryInv
  BY DEF BaseInv
<1>2. frames[t] \in Seq(Frame) /\ frames[t] # <<>>
  BY <1>1 DEF Construct, InFactory, TypeInv
<1>3. n \in Nat \ {0} /\ n \in 1..n /\ fr \in Frame
  BY <1>2
<1>4. Top(t) = fr /\ DOMAIN fr.f.deps \subseteq DOMAIN fr.got
  BY DEF Construct, Top, Last, Missing
<1>5. /\ Keep(k, obj)
      /\ IF fr.f.make = "list" THEN TRUE ELSE Deliver(t, fr, obj, Front(frames[t]))
  BY DEF Construct, Top, Last
<1>6. k \in Key /\ fr.f = factories[k] /\ fr.f.life # "instance"
  BY <1>1, <1>3, NoneFacts DEF FrameInv
<1>7. fr.f \in Factory /\ fr.slot \in Nat /\ fr.got \in Got
  BY <1>3 DEF Frame
<1>8. factories[k] # None
  BY <1>6, <1>7, NoneFacts
<1>9. fr.f.make \in {"new", "same"} /\ (fr.f.make = "same" => Len(fr.f.deps) = 1)
  BY <1>1, <1>6, <1>7, <1>8 DEF FactoryInv, Factory
<1>10. /\ obj \in Obj
       /\ \/ fr.f.make = "new" /\ obj.type = k
          \/ fr.f.make = "same" /\ 1 \in DOMAIN fr.got /\ obj = fr.got[1]
  <2>1. CASE fr.f.make = "new"
    <3>1. obj = [type |-> k, n |-> made[k] + 1]
      BY <2>1
    <3>2. made[k] + 1 \in Nat
      BY <1>1, <1>6 DEF TypeInv
    <3>3. [type |-> k, n |-> made[k] + 1] \in Obj /\ [type |-> k, n |-> made[k] + 1].type = k
      BY <1>6, <3>2 DEF Obj
    <3> HIDE DEF obj
    <3> QED
      BY <2>1, <3>1, <3>3
  <2>2. CASE fr.f.make = "same"
    <3>1. obj = fr.got[1]
      BY <2>2
    <3>2. fr.f.deps \in Seq(Key) /\ Len(fr.f.deps) = 1
      BY <1>7, <1>9, <2>2 DEF Factory
    <3>3. 1 \in DOMAIN fr.got
      BY <1>4, <3>2
    <3> QED
      BY <1>7, <2>2, <3>1, <3>3, GotFacts
  <2> QED
    BY <1>9, <2>1, <2>2
<1> HIDE DEF obj
<1>11. /\ instances' = IF factories[k].life = "singleton"
                       THEN [instances EXCEPT ![k] = obj] ELSE instances
       /\ scoped' = IF factories[k].life = "scoped" THEN [scoped EXCEPT ![k] = obj] ELSE scoped
  BY <1>5, <1>6 DEF Keep
<1>12. Deliver(t, fr, obj, Front(frames[t]))
  BY <1>5, <1>9
<1> HIDE DEF fr
<1> QED
  BY <1>6, <1>7, <1>9, <1>10, <1>11, <1>12 DEF fr

(* A factory returns what the consumer is to get. *)
LEMMA ConstructContext ==
  ASSUME BaseInv, ContextInv, NEW t \in Thread, Construct(t)
  PROVE  ContextInv'
<1> DEFINE n == Len(frames[t]) fr == frames[t][n] k == fr.key below == Front(frames[t])
<1>1. ~Idle(t) /\ StackInv /\ WayInv /\ HandInv /\ MemoInv /\ GaveInv
  BY DEF Construct, InFactory, Idle, ContextInv
<1>2. /\ TypeInv /\ FactoryInv /\ FrameInv /\ mutex = t /\ (\A u \in Thread \ {t} : Idle(u))
      /\ frames[t] \in Seq(Frame) /\ building \in Seq(Key) /\ Stacked(frames[t], building)
      /\ \A i \in 1..n : WayAt(contextual, factories, frames[t], i)
  BY <1>1, HolderFacts
<1>3. /\ frames[t] # <<>> /\ ask[t] = None /\ UNCHANGED <<factories, contextual, ask>>
      /\ building' = SubSeq(building, 1, Len(building) - (IF fr.f.guard THEN 1 ELSE 0))
  BY DEF Construct, InFactory, conf, Popped, Top, Last
<1>4. /\ n \in Nat \ {0} /\ below \in Seq(Frame) /\ Len(below) = n - 1
      /\ \A i \in 1..(n - 1) : below[i] = frames[t][i]
  BY <1>2, <1>3, FrontFacts
<1>5. /\ frames' \in [Thread -> Seq(Frame)] /\ \A u \in Thread \ {t} : frames'[u] = frames[u]
      /\ mutex' = mutex \/ (mutex' = None /\ frames'[t] = <<>>)
  BY ConstructFrames
<1>6. AskAt(contextual', factories', frames'[t], ask'[t])
  BY <1>3 DEF AskAt
<1>7. Len(frames'[t]) = n - 1 /\ \A i \in 1..(n - 1) : frames'[t][i].key = frames[t][i].key
                                                      /\ frames'[t][i].f = frames[t][i].f
  <2>1. CASE k \in Key
    <3>1. PICK obj \in Obj : fr.slot \in Nat /\ Deliver(t, fr, obj, below)
      BY <2>1, ConstructGives
    <3>a. TypeInv /\ below \in Seq(Frame)
      BY <1>2, <1>4
    <3> HIDE DEF n, fr, below
    <3>2. /\ Len(frames'[t]) = Len(below)
          /\ \A i \in 1..Len(below) :
               frames'[t][i].key = below[i].key /\ frames'[t][i].f = below[i].f
      BY <3>a, <3>1, DeliverFacts
    <3> QED
      BY <1>4, <3>2
  <2>2. CASE k \notin Key
    <3>1. n \in 1..n
      BY <1>4
    <3>2. n = 1
      BY <1>2, <2>2, <3>1 DEF FrameInv
    <3>3. frames' = [frames EXCEPT ![t] = <<>>]
      BY <2>2, ConstructFacts
    <3>4. frames'[t] = <<>>
      BY <1>2, <3>3 DEF TypeInv
    <3> QED
      BY <3>2, <3>4
  <2> QED
    BY <2>1, <2>2
<1>8. Stacked(frames'[t], building')
  BY <1>2, <1>3, <1>4, <1>7, StackPop
<1>9. mutex' \in {t, None} /\ (mutex' = None => building' = <<>>)
  <2>1. building' \in Seq(Key)
    BY ConstructKeeps DEF BaseInv, TypeInv
  <2> QED
    BY <1>2, <1>5, <1>8, <2>1, StackEmpty, NoneFacts
<1>10. HandInv'
  BY <1>1, <1>3 DEF HandInv
<1>11. CASE k \in Key
  <2> DEFINE f == factories[k] by == Below(frames[t], n)
  <2>1. /\ fr.f = f /\ f \in Factory /\ f.life # "instance" /\ fr.slot \in Nat
    BY <1>11, ConstructGives
  <2>2. PICK obj \in Obj :
          /\ Deliver(t, fr, obj, below)
          /\ instances' = IF f.life = "singleton" THEN [instances EXCEPT ![k] = obj] ELSE instances
          /\ scoped' = IF f.life = "scoped" THEN [scoped EXCEPT ![k] = obj] ELSE scoped
          /\ \/ f.make = "new" /\ obj.type = k
             \/ f.make = "same" /\ Len(f.deps) = 1 /\ 1 \in DOMAIN fr.got /\ obj = fr.got[1]
    BY <1>11, ConstructGives
  <2>3. f # None /\ n \in 1..n /\ fr \in Frame
    BY <1>2, <1>4, <2>1, NoneFacts
  <2>4. WayAt(contextual, factories, frames[t], n)
    BY <1>2, <2>3
  <2>5. LeadsIn(contextual, factories, by, fr.want, k) /\ <<by, k>> \notin DOMAIN contextual
    BY <1>11, <2>4 DEF WayAt
  <2>6. f.make = "same" => f.life = "transient"
    BY <1>1, <1>11, <2>1, <2>3 DEF HandInv
  <2>8. Gets(contextual, factories, by, fr.want, obj.type)
    <3>1. CASE f.make = "new"
      BY <2>2, <2>5, <3>1 DEF Gets, OnwardIn
    <3>2. CASE f.make = "same"
      <4>1. obj = fr.got[1] /\ 1 \in DOMAIN fr.got /\ Len(f.deps) = 1
        BY <2>2, <3>2
      <4>2. Gets(contextual, factories, by, f.deps[1], obj.type)
        BY <1>11, <2>1, <2>4, <3>2, <4>1 DEF WayAt
      <4>3. f.deps[1] \in OnwardIn(contextual, factories, by, k)
        BY <2>3, <2>5, <2>6, <3>2 DEF OnwardIn
      <4>4. f.deps[1] \in Key /\ obj.type \in Key
        BY <2>1, <4>1 DEF Factory, Obj
      <4> HIDE DEF f, by, k, fr
      <4>5. LeadsIn(contextual, factories, by, fr.want, f.deps[1])
        BY <1>11, <2>5, <4>3, <4>4, LeadsFacts
      <4>6. LeadsIn(contextual, factories, by, fr.want, obj.type)
        BY <4>2, <4>4, <4>5, LeadsFacts DEF Gets
      <4> QED
        BY <4>2, <4>6 DEF Gets
    <3> QED
      BY <2>2, <3>1, <3>2
  <2>9. Below(below, Len(below) + 1) = by
    <3>1. \A j \in 1..(n - 1) : below[j].key = frames[t][j].key /\ below[j].f = frames[t][j].f
      BY <1>4
    <3>2. Below(below, n) = Below(frames[t], n)
      <4> HIDE DEF below
      <4> QED
        BY <1>4, <3>1, BelowSame
    <3>3. Len(below) + 1 = n
      BY <1>4
    <3> QED
      BY <3>2, <3>3
  <2>10. \A i \in 1..Len(below) : WayAt(contextual, factories, below, i)
    <3> SUFFICES ASSUME NEW i \in 1..(n - 1)
                 PROVE  WayAt(contextual, factories, below, i)
      BY <1>4
    <3>1. i \in Nat \ {0} /\ i \in 1..n /\ \A j \in 1..i : j \in 1..(n - 1)
      BY <1>4
    <3>2. \A j \in 1..i : below[j].key = frames[t][j].key /\ below[j].f = frames[t][j].f
      BY <1>4, <3>1
    <3>3. below[i] = frames[t][i] /\ WayAt(contextual, factories, frames[t], i)
      BY <1>2, <1>4, <3>1
    <3> HIDE DEF below
    <3> QED
      BY <3>1, <3>2, <3>3, WaySame
  <2>11. \A i \in 1..Len(below) : below[i].key \in Key =>
           below[i].f = factories[below[i].key] /\ below[i].f.life # "instance"
    <3>1. \A i \in 1..Len(below) : i \in 1..n /\ below[i] = frames[t][i]
      BY <1>4
    <3> HIDE DEF below
    <3> QED
      BY <1>2, <3>1, NoneFacts DEF FrameInv
  <2>12. Len(below) > 0 => fr.slot \in DOMAIN below[Len(below)].f.deps
                           /\ fr.want = below[Len(below)].f.deps[fr.slot]
    <3> SUFFICES ASSUME n > 1
                 PROVE  fr.slot \in DOMAIN below[n - 1].f.deps
                        /\ fr.want = below[n - 1].f.deps[fr.slot]
      BY <1>4
    <3>1. below[n - 1] = frames[t][n - 1]
      BY <1>4
    <3> QED
      BY <2>4, <3>1 DEF WayAt
  <2>13. (\A i \in 1..Len(frames'[t]) : WayAt(contextual', factories', frames'[t], i)) /\ GaveInv'
    <3>1. Gets(contextual, factories, Below(below, Len(below) + 1), fr.want, obj.type)
      BY <2>8, <2>9
    <3> HIDE DEF fr, below
    <3> QED
      BY <1>1, <1>2, <1>3, <1>4, <2>1, <2>2, <2>10, <2>11, <2>12, <3>1, DeliverWays
  <2>14. MemoInv'
    <3>1. f.life \in {"singleton", "scoped"} => obj.type = k
      BY <2>2, <2>6
    <3>2. instances \in [Key -> Obj \union {None}] /\ scoped \in [Key -> Obj \union {None}]
      BY <1>2 DEF TypeInv
    <3> HIDE DEF f, k
    <3> QED
      BY <1>1, <1>11, <2>2, <3>1, <3>2 DEF MemoInv
  <2>15. WayInv' /\ StackInv'
    BY <1>2, <1>3, <1>5, <1>6, <1>8, <1>9, <2>13, OwnerWays
  <2> QED
    BY <1>10, <2>13, <2>14, <2>15 DEF ContextInv
<1>12. CASE k \notin Key
  <2>1. /\ frames' = [frames EXCEPT ![t] = <<>>]
        /\ gave' = gave /\ instances' = instances /\ scoped' = scoped
    BY <1>12, ConstructFacts
  <2>2. Len(frames'[t]) = 0
    BY <1>2, <2>1 DEF TypeInv
  <2>3. \A i \in 1..Len(frames'[t]) : WayAt(contextual', factories', frames'[t], i)
    BY <2>2
  <2>4. WayInv' /\ StackInv'
    BY <1>2, <1>3, <1>5, <1>6, <1>8, <1>9, <2>3, OwnerWays
  <2> QED
    BY <1>1, <1>3, <2>1, <2>4, QuietContext DEF ContextInv
<1> QED
  BY <1>11, <1>12

(* An exception leaves nothing on building_. *)
LEMMA UnwindContext ==
  ASSUME BaseInv, ContextInv, NEW t \in Thread, ~Idle(t), Unwind(t),
         UNCHANGED <<factories, contextual, instances, scoped, gave>>
  PROVE  ContextInv'
<1>1. StackInv /\ WayInv
  BY DEF ContextInv
<1>2. /\ TypeInv /\ (\A u \in Thread \ {t} : Idle(u)) /\ frames[t] \in Seq(Frame)
      /\ building \in Seq(Key) /\ Stacked(frames[t], building)
  BY <1>1, HolderFacts
<1>3. /\ frames' = [frames EXCEPT ![t] = <<>>] /\ ask' = [ask EXCEPT ![t] = None]
      /\ mutex' = None /\ building' = Popped(Guards(t))
  BY DEF Unwind
<1>4. Guards(t) = Len(building)
  BY <1>2, StackAll DEF Guards
<1>5. building' = <<>>
  <2>1. building' = SubSeq(building, 1, Len(building) - Len(building))
    BY <1>3, <1>4 DEF Popped
  <2>2. Len(building) - Len(building) = 0 /\ SubSeq(building, 1, 0) = <<>>
    BY <1>2
  <2> QED
    BY <2>1, <2>2
<1>6. /\ frames'[t] = <<>> /\ ask'[t] = None
      /\ \A u \in Thread \ {t} : frames'[u] = frames[u] /\ ask'[u] = ask[u]
  BY <1>2, <1>3 DEF TypeInv
<1>7. WayInv' /\ StackInv'
  <2>1. Len(frames'[t]) = 0 /\ Stacked(frames'[t], building')
    BY <1>5, <1>6, StackEmpty
  <2>2. AskAt(contextual', factories', frames'[t], ask'[t])
    BY <1>6 DEF AskAt
  <2>3. \A i \in 1..Len(frames'[t]) : WayAt(contextual', factories', frames'[t], i)
    BY <2>1
  <2>4. mutex' \in {t, None} /\ (mutex' = None => building' = <<>>)
    BY <1>3, <1>5
  <2> QED
    BY <1>2, <1>6, <2>1, <2>2, <2>3, <2>4, OwnerWays
<1> QED
  BY <1>7, QuietContext DEF ContextInv

(* forget_scoped() *)
LEMMA ForgetContext ==
  ASSUME ContextInv, NEW t \in Thread, forget_scoped(t)
  PROVE  ContextInv'
<1>1. /\ scoped' = [k \in Key |-> None]
      /\ UNCHANGED <<factories, contextual, instances, building, mutex, frames, ask, gave>>
  BY DEF forget_scoped, conf
<1>2. StackInv' /\ WayInv' /\ HandInv' /\ GaveInv'
  BY <1>1 DEF ContextInv, StackInv, WayInv, HandInv, GaveInv
<1>3. MemoInv'
  BY <1>1 DEF ContextInv, MemoInv
<1> QED
  BY <1>2, <1>3 DEF ContextInv

(* register_() binds factories as HandsOnFresh says; nobody resolves. *)
LEMMA RegisterContext ==
  ASSUME HandsOnFresh, BaseInv, ContextInv, Register
  PROVE  ContextInv'
<1>1. /\ TypeInv /\ PhaseInv /\ Stage = "register"
      /\ UNCHANGED <<scoped, building, mutex, frames, ask, gave>>
  BY DEF BaseInv, Register
<1>2. (\A t \in Thread : frames[t] = <<>> /\ ask[t] = None) /\ gave = {}
  BY <1>1 DEF PhaseInv, Idle
<1>3. PICK i \in DOMAIN Provider :
        /\ Head(todo) = <<"register", i>>
        /\ \A k \in Provider[i].instances : factories'[k].life = "instance"
        /\ \A k \in DOMAIN Provider[i].binds \ Provider[i].instances :
             factories'[k] = Provider[i].binds[k]
        /\ \A k \in Key : k \notin DOMAIN Provider[i].binds \union Provider[i].instances =>
             factories'[k] = factories[k]
        /\ \A k \in Key \ Provider[i].instances : instances'[k] = instances[k]
  BY <1>1, RegisterFacts
<1>4. StackInv'
  BY <1>1 DEF ContextInv, StackInv
<1>5. WayInv'
  <2>1. \A t \in Thread : Len(frames'[t]) = 0 /\ ask'[t] = None
    BY <1>1, <1>2
  <2> QED
    BY <2>1 DEF WayInv, AskAt
<1>6. GaveInv'
  BY <1>1, <1>2 DEF GaveInv
<1>7. HandInv'
  <2> SUFFICES ASSUME NEW k \in Key, factories'[k] # None, factories'[k].life # "instance",
                      factories'[k].make = "same"
               PROVE  factories'[k].life = "transient" /\ ~factories'[k].guard
    BY DEF HandInv
  <2>1. k \notin Provider[i].instances
    BY <1>3
  <2>2. CASE k \in DOMAIN Provider[i].binds
    BY <1>3, <2>1, <2>2 DEF HandsOnFresh
  <2>3. CASE k \notin DOMAIN Provider[i].binds
    BY <1>3, <2>1, <2>3 DEF ContextInv, HandInv
  <2> QED
    BY <2>2, <2>3
<1>8. MemoInv'
  <2> DEFINE p == Provider[Head(todo)[2]] kept == [k \in p.instances |-> [type |-> k, n |-> 0]]
  <2>1. instances' = Merge(kept, instances)
    BY DEF Register
  <2>2. DOMAIN kept = Provider[i].instances /\ \A k \in DOMAIN kept : kept[k].type = k
    BY <1>3
  <2> HIDE DEF kept
  <2>3. \A k \in Provider[i].instances : instances'[k].type = k
    BY <2>1, <2>2 DEF Merge
  <2> QED
    BY <1>1, <1>3, <2>3 DEF ContextInv, MemoInv
<1> QED
  BY <1>4, <1>5, <1>6, <1>7, <1>8 DEF ContextInv

(* An empty container. *)
LEMMA ContextInit ==
  ASSUME Init
  PROVE  ContextInv
<1>1. /\ mutex = None /\ building = <<>> /\ gave = {}
      /\ \A t \in Thread : frames[t] = <<>> /\ ask[t] = None
      /\ \A k \in Key : factories[k] = None /\ instances[k] = None /\ scoped[k] = None
  BY DEF Init
<1>2. StackInv
  BY <1>1, NoneFacts DEF StackInv
<1>3. WayInv
  BY <1>1 DEF WayInv, AskAt
<1>4. HandInv /\ MemoInv /\ GaveInv
  BY <1>1 DEF HandInv, MemoInv, GaveInv
<1> QED
  BY <1>2, <1>3, <1>4 DEF ContextInv

(* Every step preserves ContextInv. *)
LEMMA ContextStep ==
  ASSUME HandsOnFresh, BaseInv, ContextInv, [Next]_vars
  PROVE  ContextInv'
<1>1. CASE UNCHANGED vars
  BY <1>1 DEF vars, ContextInv, StackInv, WayInv, HandInv, MemoInv, GaveInv
<1>2. CASE Register
  BY <1>2, RegisterContext
<1>3. CASE Boot
  <2>1. TypeInv /\ Stage = "boot" /\ todo # <<>> /\ todo \in Seq(Task) /\ Head(todo)[1] = "boot"
    BY <1>3 DEF BaseInv, TypeInv, Boot, Stage
  <2>2. Head(todo) \in Task
    BY <2>1
  <2>3. Head(todo)[2] \in DOMAIN Provider
    BY <2>1, <2>2 DEF Task
  <2>4. Provider[Head(todo)[2]].boots \in Key /\ Main \in Thread
    BY <2>3, ProviderFacts, ContainerAssumption
  <2> QED
    BY <1>3, <2>4, BeginContext DEF Boot
<1>4. ASSUME NEW t \in Thread, NEW k \in Key, Resolve(t, k)
      PROVE  ContextInv'
  BY <1>4, BeginContext DEF Resolve, conf
<1>5. ASSUME NEW t \in Thread, Unresolved(t)
      PROVE  ContextInv'
  <2>1. ~Idle(t)
    BY <1>5 DEF Unresolved, Idle
  <2> QED
    BY <1>5, <2>1, UnwindContext DEF Unresolved
<1>6. ASSUME NEW t \in Thread, Throw(t)
      PROVE  ContextInv'
  <2>1. ~Idle(t)
    BY <1>6 DEF Throw, InFactory, Idle
  <2> QED
    BY <1>6, <2>1, UnwindContext DEF Throw
<1> QED
  BY <1>1, <1>2, <1>3, <1>4, <1>5, <1>6, TaggedContext, RedirectContext, ReturnContext,
     BuildContext, ResolveDepContext, ConstructContext, ForgetContext DEF Next

(* ContextHonoured, for any types, providers, tags and threads whose        *)
(* factories that only hand on are transient: what a consumer receives for *)
(* a type is what its when/needs/give says, followed to its end, or the    *)
(* global binding, whatever was thrown before on any thread.               *)
THEOREM ContextsAreHonoured == HandsOnFresh /\ Spec => []ContextHonoured
<1> SUFFICES ASSUME HandsOnFresh
             PROVE  Spec => []ContextHonoured
  OBVIOUS
<1> DEFINE I == BaseInv /\ ContextInv
<1>1. Init => I
  BY BaseInit, ContextInit
<1>2. I /\ [Next]_vars => I'
  BY BaseStep, ContextStep
<1>3. I => ContextHonoured
  BY DEF ContextInv, GaveInv, Gets, OnwardIn, LeadsIn, ContextHonoured, Onward, Leads
<1> HIDE DEF I
<1> QED
  BY <1>1, <1>2, <1>3, PTL DEF Spec

=============================================================================
