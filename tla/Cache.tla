-------------------------------- MODULE Cache --------------------------------
(***************************************************************************)
(* ArrayCache as the workers share it, with tags() and remember()          *)
(* (include/cache.hpp).  put, get and forget hold the mutex, so each is    *)
(* one step; remember() is two, and a TaggedCache takes several, which use *)
(* tagged_keys_ without the mutex.  Expiry is in Kernel.                   *)
(***************************************************************************)
EXTENDS Naturals, Sequences, SequencesExt

CONSTANTS Worker, CacheKey, Tag, MaxPuts   \* MaxPuts: bound on the values that are stored

VARIABLES
  stored,       \* items_: the number of the put that each key's value is from (0: none)
  tagged_keys_, \* tag -> keys
  task,         \* what each worker is doing
  puts,
  under,        \* history: under each tag, <<key, put>> of what was stored and not flushed
  raced         \* history: have two workers been in tagged_keys_ at the same time?

cachevars == <<stored, tagged_keys_, task, puts, under, raced>>

Rest == [pc |-> "rest", tags |-> <<>>, key |-> 0, from |-> 0]

CacheInit ==
  /\ stored = [k \in CacheKey |-> 0] /\ tagged_keys_ = [g \in Tag |-> <<>>]
  /\ task = [w \in Worker |-> Rest] /\ puts = 0
  /\ under = [g \in Tag |-> {}] /\ raced = FALSE

InTags(w) == task[w].pc \in {"tag", "forget"}

(* A worker goes on to pc, with the tags it has still to deal with. *)
Goes(w, t) ==
  /\ task' = [task EXCEPT ![w] = IF t.pc \in {"tag", "flush"} /\ t.tags = <<>> THEN Rest ELSE t]
  /\ raced' = (raced \/ (InTags(w)' /\ \E o \in Worker \ {w} : InTags(o)))

Store(k) == puts < MaxPuts /\ puts' = puts + 1 /\ stored' = [stored EXCEPT ![k] = puts + 1]

Put(w, k) ==
  /\ task[w] = Rest /\ Store(k)
  /\ UNCHANGED <<tagged_keys_, task, under, raced>>

Forget(w, k) ==
  /\ task[w] = Rest /\ stored' = [stored EXCEPT ![k] = 0]
  /\ UNCHANGED <<tagged_keys_, task, puts, under, raced>>

(* remember(): get(), and put() what was computed if there was nothing. *)
Remember(w, k) ==
  /\ task[w] = Rest /\ stored[k] = 0
  /\ Goes(w, [Rest EXCEPT !.pc = "compute", !.key = k])
  /\ UNCHANGED <<stored, tagged_keys_, puts, under>>

Computed(w) ==
  /\ task[w].pc = "compute" /\ Store(task[w].key)
  /\ Goes(w, Rest)
  /\ UNCHANGED <<tagged_keys_, under>>

(* TaggedCache::put(): the value, then the key under each tag. *)
TaggedPut(w, k, tags) ==
  /\ task[w] = Rest /\ Store(k)
  /\ Goes(w, [pc |-> "tag", tags |-> tags, key |-> k, from |-> puts + 1])
  /\ UNCHANGED <<tagged_keys_, under>>

AddTag(w) ==
  LET t == task[w] g == Head(t.tags) IN
  /\ t.pc = "tag"
  /\ tagged_keys_' = [tagged_keys_ EXCEPT ![g] = Append(@, t.key)]
  /\ under' = [under EXCEPT ![g] = @ \union {<<t.key, t.from>>}]
  /\ Goes(w, [t EXCEPT !.tags = Tail(@)])
  /\ UNCHANGED <<stored, puts>>

(* TaggedCache::flush(): for each tag, its keys one by one, then the tag. *)
Flush(w, tags) ==
  /\ task[w] = Rest
  /\ Goes(w, [pc |-> "flush", tags |-> tags, key |-> 1, from |-> puts])
  /\ UNCHANGED <<stored, tagged_keys_, puts, under>>

FindTag(w) ==
  LET t == task[w] IN
  /\ t.pc = "flush"
  /\ Goes(w, IF tagged_keys_[Head(t.tags)] = <<>> THEN [t EXCEPT !.tags = Tail(@)]
             ELSE [t EXCEPT !.pc = "forget", !.key = 1])
  /\ UNCHANGED <<stored, tagged_keys_, puts, under>>

(* Mutant: the tag is erased with its first key. *)
MutPastEnd(w) == task[w].key > 1

PastEnd(w) == task[w].key > Len(tagged_keys_[Head(task[w].tags)])

ForgetNext(w) ==
  LET t == task[w] IN
  /\ t.pc = "forget" /\ ~PastEnd(w)
  /\ stored' = [stored EXCEPT ![tagged_keys_[Head(t.tags)][t.key]] = 0]
  /\ Goes(w, [t EXCEPT !.key = @ + 1])
  /\ UNCHANGED <<tagged_keys_, puts, under>>

EraseTag(w) ==
  LET t == task[w] g == Head(t.tags) IN
  /\ t.pc = "forget" /\ PastEnd(w)
  /\ tagged_keys_' = [tagged_keys_ EXCEPT ![g] = <<>>]
  /\ under' = [under EXCEPT ![g] = {}]
  /\ Goes(w, [t EXCEPT !.pc = "flush", !.tags = Tail(@)])
  /\ UNCHANGED <<stored, puts>>

CacheStep(w) ==
  \/ \E k \in CacheKey : Put(w, k) \/ Forget(w, k) \/ Remember(w, k)
  \/ \E tags \in {<<g>> : g \in Tag} \union SetToSeqs(Tag) :
       Flush(w, tags) \/ \E k \in CacheKey : TaggedPut(w, k, tags)
  \/ Computed(w) \/ AddTag(w) \/ FindTag(w) \/ ForgetNext(w) \/ EraseTag(w)

(* What follows a race is undefined. *)
CacheNext == ~raced /\ \E w \in Worker : CacheStep(w)

-----------------------------------------------------------------------------
(* Correctness.                                                            *)

(* flush() is done with a tag: no value that was stored under it is left. *)
Forgotten == \A g \in Tag : under'[g] = {} => \A p \in under[g] : stored'[p[1]] # p[2]
===============================================================================
