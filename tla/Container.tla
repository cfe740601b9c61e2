------------------------------- MODULE Container -------------------------------
(***************************************************************************)
(* The service container (container.hpp, container_contract.hpp) and the   *)
(* two phases in which Kernel::register_providers fills it.  make_erased() *)
(* is recursive: a thread's frames are its factories under way, the        *)
(* innermost last, all under one recursive mutex.  building_ is a member   *)
(* of the container, shared by whoever resolves.                           *)
(***************************************************************************)
EXTENDS Naturals, Sequences, FiniteSets, SequencesExt

CONSTANTS
  Thread, Main,   \* the threads, and the one that boots the application
  Key,            \* types that can be bound or asked for
  Tag,
  Provider,       \* for each provider: what it binds, when/needs/give, instance()s,
                  \* tags, and the types boot() resolves (see MCContainer)
  None,
  MaxAsks,        \* bound: resolve<T>() calls after boot
  MaxThrows,      \* bound: constructors that throw
  MaxForgets      \* bound: forget_scoped() calls

(* A factory: how long its value is kept, what it resolves, whether it marks *)
(* its type as being built (the *_auto forms), and whether it makes a new   *)
(* object or hands on the one it resolved.                                 *)
Factory == [life : {"transient", "singleton", "scoped", "instance"}, deps : Seq(Key),
            guard : BOOLEAN, make : {"new", "same", "list"}]

ASSUME ContainerAssumption ==
  /\ Main \in Thread /\ None \notin Key \union Thread \union Tag /\ Tag \intersect Key = {}
  /\ None \notin Factory /\ None \notin [type : Key, n : Nat]
  /\ MaxAsks \in Nat /\ MaxThrows \in Nat /\ MaxForgets \in Nat
  /\ IsFiniteSet(DOMAIN Provider)
  /\ \A i \in DOMAIN Provider : LET p == Provider[i] IN
       /\ DOMAIN p.binds \subseteq Key /\ p.instances \subseteq Key /\ p.boots \in Key
       /\ \A k \in DOMAIN p.binds :
            /\ p.binds[k] \in Factory /\ p.binds[k].life # "instance" /\ p.binds[k].make # "list"
            /\ p.binds[k].make = "same" => Len(p.binds[k].deps) = 1
       /\ DOMAIN p.contexts \subseteq Key \X Key
       /\ \A x \in DOMAIN p.contexts : p.contexts[x] \in Key
       /\ DOMAIN p.tags \subseteq Tag /\ \A g \in DOMAIN p.tags : p.tags[g] \in Seq(Key)

VARIABLES
  factories, contextual, tags, instances, scoped, building, mutex,
  frames,     \* per thread, the factories under way
  ask,        \* per thread, the make_erased() call that is about to look its key up
  todo,       \* what register_providers has left to do
  asks, throws, epoch,
  made,       \* how many objects of each type there are
  gave,       \* history: what each resolve<T>() returned, to whom
  failed      \* history: the types that were not found, and the stage it happened in

(* Mutant: each provider boots as soon as it has registered. *)
MutPhases(order) ==
  FlattenSeq([p \in DOMAIN order |-> <<<<"register", order[p]>>, <<"boot", order[p]>>>>])

(* register_providers(): every register_(), then every boot(). *)
Phases(order) ==
  [p \in DOMAIN order |-> <<"register", order[p]>>] \o [p \in DOMAIN order |-> <<"boot", order[p]>>]

conf == <<factories, contextual, tags, todo>>
vars == <<factories, contextual, tags, todo, instances, scoped, building, mutex, frames, ask,
          asks, throws, epoch, made, gave, failed>>

Init ==
  /\ factories = [k \in Key |-> None] /\ contextual = <<>> /\ tags = [g \in Tag |-> <<>>]
  /\ instances = [k \in Key |-> None] /\ scoped = [k \in Key |-> None]
  /\ building = <<>> /\ mutex = None
  /\ frames = [t \in Thread |-> <<>>] /\ ask = [t \in Thread |-> None]
  /\ \E order \in SetToSeqs(DOMAIN Provider) : todo = Phases(order)
  /\ asks = 0 /\ throws = 0 /\ epoch = 0
  /\ made = [k \in Key |-> 0] /\ gave = {} /\ failed = {}

-----------------------------------------------------------------------------
(* The providers.                                                          *)

Idle(t) == ask[t] = None /\ frames[t] = <<>>
Stage == IF todo = <<>> THEN "up" ELSE Head(todo)[1]

Merge(new, old) == [k \in DOMAIN new \union DOMAIN old |-> IF k \in DOMAIN new THEN new[k] ELSE old[k]]

(* The next provider's register_(): bind, singleton, scoped, instance, when *)
(* ... needs ... give, tag.                                                *)
Register ==
  LET p == Provider[Head(todo)[2]]
      kept == [k \in p.instances |-> [type |-> k, n |-> 0]]
      constant == [k \in p.instances |->
                     [life |-> "instance", deps |-> <<>>, guard |-> FALSE, make |-> "same"]]
  IN /\ Stage = "register" /\ Idle(Main) /\ todo' = Tail(todo)
     /\ factories' = Merge(constant, Merge(p.binds, factories))
     /\ instances' = Merge(kept, instances)
     /\ contextual' = Merge(p.contexts, contextual)
     /\ tags' = [g \in Tag |-> IF g \in DOMAIN p.tags THEN tags[g] \o p.tags[g] ELSE tags[g]]
     /\ UNCHANGED <<scoped, building, mutex, frames, ask, asks, throws, epoch, made, gave, failed>>

-----------------------------------------------------------------------------
(* make_erased()                                                           *)

Lookup(want, key, slot) == [want |-> want, key |-> key, slot |-> slot]

(* Mutant: the container is not locked. *)
MutLock(t) == TRUE

Lock(t) == mutex \in {None, t}

(* The outermost resolve<T>(). *)
Begin(t, k) ==
  /\ Idle(t) /\ Lock(t)
  /\ mutex' = t
  /\ ask' = [ask EXCEPT ![t] = Lookup(k, k, 1)]

(* A provider's boot(): it resolves one type. *)
Boot ==
  /\ Stage = "boot" /\ Begin(Main, Provider[Head(todo)[2]].boots)
  /\ todo' = Tail(todo)
  /\ UNCHANGED <<factories, contextual, tags, instances, scoped, building, frames, asks, throws, epoch, made, gave, failed>>

(* A request on a worker resolves a type, or all that carry a tag. *)
Resolve(t, k) ==
  /\ Stage = "up" /\ Idle(Main) /\ asks < MaxAsks /\ Begin(t, k)
  /\ asks' = asks + 1
  /\ UNCHANGED <<conf, instances, scoped, building, frames, throws, epoch, made, gave, failed>>

tagged(t, g) ==
  /\ Stage = "up" /\ Idle(Main) /\ asks < MaxAsks /\ Idle(t) /\ Lock(t)
  /\ asks' = asks + 1 /\ mutex' = t
  /\ frames' = [frames EXCEPT ![t] = <<
       [want |-> g, key |-> g, slot |-> 1, got |-> <<>>,
        f |-> [life |-> "transient", deps |-> tags[g], guard |-> FALSE, make |-> "list"]]>>]
  /\ UNCHANGED <<conf, instances, scoped, building, ask, throws, epoch, made, gave, failed>>

Override(k) == building # <<>> /\ <<Last(building), k>> \in DOMAIN contextual

(* The type under construction has a binding of its own for this key: give's *)
(* closure resolves that type instead.                                     *)
Redirect(t) ==
  /\ ask[t] # None /\ Override(ask[t].key)
  /\ ask' = [ask EXCEPT ![t].key = contextual[<<Last(building), @>>]]
  /\ UNCHANGED <<conf, instances, scoped, building, mutex, frames, asks, throws, epoch, made, gave, failed>>

Found(t) == ask[t] # None /\ ~Override(ask[t].key) /\ factories[ask[t].key] # None

Memo(k) ==
  LET life == factories[k].life IN
  IF life \in {"singleton", "instance"} THEN instances[k]
  ELSE IF life = "scoped" THEN scoped[k] ELSE None

(* The type whose constructor a thread is in, seen from its own frames. *)
Consumer(fs) ==
  LET guarded == {i \in DOMAIN fs : fs[i].f.guard}
  IN IF guarded = {} THEN None ELSE fs[Max(guarded)].key

(* A value for the request `to` goes to the frame it was resolved for, or to *)
(* the caller, whose lock ends.                                            *)
Deliver(t, to, obj, below) ==
  /\ gave' = gave \union {[want |-> to.want, key |-> to.key, by |-> Consumer(below), obj |-> obj, epoch |-> epoch]}
  /\ IF below = <<>>
     THEN mutex' = None /\ frames' = [frames EXCEPT ![t] = <<>>]
     ELSE /\ frames' = [frames EXCEPT ![t] = ReplaceAt(below, Len(below),
                          [Last(below) EXCEPT !.got = Merge([s \in {to.slot} |-> obj], @)])]
          /\ mutex' = mutex

(* A kept value is returned, and no factory runs. *)
Return(t) ==
  /\ Found(t) /\ Memo(ask[t].key) # None
  /\ Deliver(t, ask[t], Memo(ask[t].key), frames[t])
  /\ ask' = [ask EXCEPT ![t] = None]
  /\ UNCHANGED <<conf, instances, scoped, building, asks, throws, epoch, made, failed>>

(* The factory is called; an *_auto one enters its context. *)
Build(t) ==
  LET a == ask[t] f == factories[a.key] IN
  /\ Found(t) /\ Memo(a.key) = None
  /\ frames' = [frames EXCEPT ![t] = Append(@,
       [want |-> a.want, key |-> a.key, slot |-> a.slot, got |-> <<>>, f |-> f])]
  /\ building' = IF f.guard THEN Append(building, a.key) ELSE building
  /\ ask' = [ask EXCEPT ![t] = None]
  /\ UNCHANGED <<conf, instances, scoped, mutex, asks, throws, epoch, made, gave, failed>>

InFactory(t) == ask[t] = None /\ frames[t] # <<>>
Top(t) == Last(frames[t])
Missing(t) == DOMAIN Top(t).f.deps \ DOMAIN Top(t).got

(* One of the factory's resolve<Dep>() calls.  The order in which those of  *)
(* an argument list are made is not specified; a tag's list is in order.   *)
ResolveDep(t) ==
  /\ InFactory(t)
  /\ \E s \in Missing(t) :
       /\ Top(t).f.make = "list" => \A r \in Missing(t) : s <= r
       /\ ask' = [ask EXCEPT ![t] = Lookup(Top(t).f.deps[s], Top(t).f.deps[s], s)]
  /\ UNCHANGED <<conf, instances, scoped, building, mutex, frames, asks, throws, epoch, made, gave, failed>>

(* ~ContextGuard of n guards; pop_building() leaves an empty stack alone. *)
Popped(n) == SubSeq(building, 1, Len(building) - n)

(* The wrapper that singleton_erased() or scoped_erased() put around the   *)
(* factory keeps what it made.                                             *)
Keep(k, obj) ==
  LET life == IF k \in Key THEN factories[k].life ELSE "transient" IN
  /\ instances' = IF life = "singleton" THEN [instances EXCEPT ![k] = obj] ELSE instances
  /\ scoped' = IF life = "scoped" THEN [scoped EXCEPT ![k] = obj] ELSE scoped

(* All dependencies are there: the factory returns. *)
Construct(t) ==
  LET fr == Top(t)
      obj == CASE fr.f.make = "same" -> fr.got[1]
               [] fr.f.make = "new" -> [type |-> fr.key, n |-> made[fr.key] + 1]
               [] fr.f.make = "list" -> fr.got
  IN /\ InFactory(t) /\ Missing(t) = {}
     /\ Keep(fr.key, obj)
     /\ building' = Popped(IF fr.f.guard THEN 1 ELSE 0)
     /\ made' = IF fr.f.make = "new" THEN [made EXCEPT ![fr.key] = @ + 1] ELSE made
     /\ IF fr.f.make = "list"
        THEN mutex' = None /\ frames' = [frames EXCEPT ![t] = <<>>] /\ gave' = gave
        ELSE Deliver(t, fr, obj, Front(frames[t]))
     /\ UNCHANGED <<conf, ask, asks, throws, epoch, failed>>

Guards(t) == Cardinality({i \in DOMAIN frames[t] : frames[t][i].f.guard})

(* What is thrown while the providers boot ends the program. *)
Escapes == todo' = IF asks = 0 THEN <<<<"ended", None>>>> ELSE todo

(* Mutant: the context is left on the normal path only. *)
MutUnwind(t) ==
  /\ Escapes
  /\ frames' = [frames EXCEPT ![t] = <<>>] /\ ask' = [ask EXCEPT ![t] = None]
  /\ mutex' = None /\ building' = building

(* An exception leaves every frame of the thread: guards pop, locks end,   *)
(* nothing is kept.                                                        *)
Unwind(t) ==
  /\ Escapes
  /\ frames' = [frames EXCEPT ![t] = <<>>] /\ ask' = [ask EXCEPT ![t] = None]
  /\ mutex' = None /\ building' = Popped(Guards(t))

(* BindingResolutionException *)
Unresolved(t) ==
  /\ ask[t] # None /\ ~Override(ask[t].key) /\ factories[ask[t].key] = None
  /\ failed' = failed \union {[key |-> ask[t].key, stage |-> IF asks = 0 THEN "boot" ELSE "up"]}
  /\ Unwind(t)
  /\ UNCHANGED <<factories, contextual, tags, instances, scoped, asks, throws, epoch, made, gave>>

(* A constructor throws. *)
Throw(t) ==
  /\ InFactory(t) /\ Missing(t) = {} /\ Top(t).f.make = "new" /\ throws < MaxThrows
  /\ throws' = throws + 1
  /\ Unwind(t)
  /\ UNCHANGED <<factories, contextual, tags, instances, scoped, asks, epoch, made, gave, failed>>

forget_scoped(t) ==
  /\ Stage = "up" /\ Idle(t) /\ Lock(t) /\ mutex = None /\ epoch < MaxForgets
  /\ scoped' = [k \in Key |-> None] /\ epoch' = epoch + 1
  /\ UNCHANGED <<conf, instances, building, mutex, frames, ask, asks, throws, made, gave, failed>>

Next ==
  \/ Register \/ Boot
  \/ \E t \in Thread :
       \/ \E k \in Key : Resolve(t, k)
       \/ \E g \in Tag : tagged(t, g)
       \/ Redirect(t) \/ Return(t) \/ Build(t) \/ ResolveDep(t) \/ Construct(t)
       \/ Unresolved(t) \/ Throw(t) \/ forget_scoped(t)

Spec == Init /\ [][Next]_vars

-----------------------------------------------------------------------------
(* Correctness.                                                            *)

TypeOK ==
  /\ mutex \in Thread \union {None} /\ building \in Seq(Key)
  /\ \A k \in Key : factories[k] \in Factory \union {None}
  /\ asks \in 0..MaxAsks /\ throws \in 0..MaxThrows /\ epoch \in 0..MaxForgets

(* container.hpp: a singleton's "factory runs once, result memoised for the *)
(* container's lifetime", and a scoped one's until forget_scoped(): however *)
(* the resolutions of several threads meet, nest, and fail half way, all   *)
(* that ever received the type share one object.                           *)
SharedOnce ==
  \A g, h \in gave :
    /\ g.key = h.key
    /\ \/ factories[g.key].life \in {"singleton", "instance"}
       \/ factories[g.key].life = "scoped" /\ g.epoch = h.epoch
    => g.obj = h.obj

(* Where type j takes consumer `by`: to its own binding for j, or through a *)
(* factory that only hands on; nowhere, if j itself is what it gets.       *)
Onward(by, j) ==
  IF <<by, j>> \in DOMAIN contextual THEN {contextual[<<by, j>>]}
  ELSE IF factories[j] # None /\ factories[j].make = "same" /\ factories[j].life = "transient"
  THEN {factories[j].deps[1]} ELSE {}

(* k takes `by` to j: steps lead out of every set that has k and not j. *)
Leads(by, k, j) ==
  k # j => \A S \in SUBSET (Key \ {j}) : k \in S => \E i \in S : ~(Onward(by, i) \subseteq S)

(* container.hpp: "if the type currently being built has a specific binding *)
(* for `key`, use it instead of the global one": each consumer gets what   *)
(* when/needs/give says for it and nobody else does, also after            *)
(* resolutions that threw, and with other threads resolving.               *)
ContextHonoured ==
  \A g \in gave : Onward(g.by, g.obj.type) = {} /\ Leads(g.by, g.want, g.obj.type)

(* service_provider.hpp: the two phases are "what makes provider order not *)
(* matter": no boot() meets a type that some provider binds and that is    *)
(* not bound yet, at any depth of what it resolves.                        *)
BootFindsBindings ==
  \A f \in failed : f.stage = "boot" =>
    \A p \in DOMAIN Provider : f.key \notin DOMAIN Provider[p].binds \union Provider[p].instances
===============================================================================
