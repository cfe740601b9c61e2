---------------------------- MODULE DatabaseProofs ----------------------------
(***************************************************************************)
(* Theorems about Database and Query, for any threads, rows and back end:  *)
(* insert() hands out no id that a row has, no transaction is left open    *)
(* before a COMMIT is refused, a transaction that throws is taken back     *)
(* whole and no other's commit with it, and pages show each row once.      *)
(***************************************************************************)
EXTENDS Query, FiniteSetTheorems, SequenceTheorems, WellFoundedInduction, TLAPS

(* "No transaction" is no database state. *)
LEMMA NoneIsNoStore == None \notin Store
BY NoneAssumption DEF Store

(* What a query sees is a database state. *)
LEMMA NowIsStore == TypeOK => Now \in Store
BY DEF TypeOK, Now, Store

(* A write keeps the store's type, and puts nothing above the counter. *)
LEMMA WriteKeeps ==
  ASSUME TypeOK, Write
  PROVE  /\ rows' \in Table /\ next_id_' \in 0..MaxId
         /\ next_id_' >= next_id_
         /\ \A i \in Id : i > next_id_' /\ rows[i] = NoRow => rows'[i] = NoRow
<1> USE DatabaseAssumption DEF TypeOK, Table, Id
<1>1. PICK v \in Val : insert(v) \/ \E i \in Id : update(i, v) \/ remove(i)
  BY DEF Write
<1>2. CASE insert(v)
  BY <1>2 DEF insert
<1>3. CASE \E i \in Id : update(i, v) \/ remove(i)
  BY <1>3 DEF update, remove
<1> QED BY <1>1, <1>2, <1>3

(***************************************************************************)
(* Every state has the type of the code's variables.                       *)
(***************************************************************************)
THEOREM DatabaseTypeCorrect == Spec => []TypeOK
<1>1. Init => TypeOK
  <2> SUFFICES ASSUME Init PROVE TypeOK
    OBVIOUS
  <2>1. refused \in BOOLEAN
    BY Zenon DEF Init
  <2>2. rows \in Table /\ next_id_ \in 0..MaxId
    BY DatabaseAssumption DEF Init, Table, Id
  <2> QED BY <2>1, <2>2 DEF Init, TypeOK
<1>2. TypeOK /\ [Next]_vars => TypeOK'
  <2> SUFFICES ASSUME TypeOK, [Next]_vars PROVE TypeOK'
    OBVIOUS
  <2> USE DatabaseAssumption
  <2>1. CASE Write
    BY <2>1, WriteKeeps DEF Write, TypeOK
  <2>2. ASSUME NEW t \in Thread, Begin(t) PROVE TypeOK'
    BY <2>2, NowIsStore DEF Begin, TypeOK, store, Seen
  <2>3. ASSUME NEW t \in Thread, FnThrows(t) PROVE TypeOK'
    BY <2>3 DEF FnThrows, TypeOK, store
  <2>4. ASSUME NEW t \in Thread, Commit(t) PROVE TypeOK'
    BY <2>4 DEF Commit, Leave, TypeOK, store, Seen
  <2>5. ASSUME NEW t \in Thread, CommitThrows(t) PROVE TypeOK'
    BY <2>5 DEF CommitThrows, Leave, TypeOK, store, Seen
  <2>6. ASSUME NEW t \in Thread, Rollback(t) PROVE TypeOK'
    BY <2>6 DEF Rollback, Restore, Leave, TypeOK, store, Store, Seen
  <2>7. CASE UNCHANGED vars
    BY <2>7 DEF vars, TypeOK
  <2> QED
    BY <2>1, <2>2, <2>3, <2>4, <2>5, <2>6, <2>7 DEF Next, FnWrites, PlainWrite
<1> QED BY <1>1, <1>2, PTL DEF Spec

(***************************************************************************)
(* insert() never hands out the id of a row that is in the table, on       *)
(* either back end and whoever rolls back whose transaction (the ids of    *)
(* rows that were rolled back are handed out again).                       *)
(* The second conjunct of IdsFresh, *)
(* about the snapshot, is what makes it inductive.                         *)
(***************************************************************************)
THEOREM IdsNeverReused == Spec => []IdsFresh
<1>1. Init => IdsFresh
  BY DatabaseAssumption DEF Init, IdsFresh, Id
<1>2. TypeOK /\ IdsFresh /\ [Next]_vars => IdsFresh'
  <2> SUFFICES ASSUME TypeOK, IdsFresh, [Next]_vars PROVE IdsFresh'
    OBVIOUS
  <2>1. CASE Write
    <3>1. snapshot_' = snapshot_
      BY <2>1 DEF Write
    <3>2. \A i \in Id : i > next_id_' => rows'[i] = NoRow
      BY <2>1, WriteKeeps, DatabaseAssumption DEF TypeOK, IdsFresh, Id
    <3> QED BY <3>1, <3>2 DEF IdsFresh
  <2>2. ASSUME NEW t \in Thread, Begin(t) PROVE IdsFresh'
    BY <2>2 DEF Begin, IdsFresh, Now, store
  <2>3. ASSUME NEW t \in Thread, FnThrows(t) \/ CommitThrows(t) PROVE IdsFresh'
    BY <2>3 DEF FnThrows, CommitThrows, IdsFresh, store
  <2>4. ASSUME NEW t \in Thread, Commit(t) PROVE IdsFresh'
    BY <2>4 DEF Commit, IdsFresh, store
  <2>5. ASSUME NEW t \in Thread, Rollback(t) PROVE IdsFresh'
    BY <2>5 DEF Rollback, Restore, IdsFresh, store
  <2>6. CASE UNCHANGED vars
    BY <2>6 DEF vars, IdsFresh
  <2> QED
    BY <2>1, <2>2, <2>3, <2>4, <2>5, <2>6 DEF Next, FnWrites, PlainWrite
<1> QED BY <1>1, <1>2, DatabaseTypeCorrect, PTL DEF Spec

(***************************************************************************)
(* Until a COMMIT is refused, a transaction is open only while some thread *)
(* is inside transaction(), on either back end.                            *)
(***************************************************************************)
THEOREM NoTransactionLeftOpen == Spec => []NoneLeftOpen
<1>1. Init => NoneLeftOpen
  BY DEF Init, NoneLeftOpen
<1>2. TypeOK /\ NoneLeftOpen /\ [Next]_vars => NoneLeftOpen'
  <2> SUFFICES ASSUME TypeOK, NoneLeftOpen, [Next]_vars PROVE NoneLeftOpen'
    OBVIOUS
  <2>1. CASE Write
    BY <2>1 DEF Write, NoneLeftOpen
  <2>2. ASSUME NEW t \in Thread, Begin(t) PROVE NoneLeftOpen'
    BY <2>2 DEF Begin, NoneLeftOpen, TypeOK
  <2>3. ASSUME NEW t \in Thread, FnThrows(t) PROVE NoneLeftOpen'
    BY <2>3 DEF FnThrows, NoneLeftOpen, TypeOK
  <2>4. ASSUME NEW t \in Thread, Commit(t) \/ CommitThrows(t) \/ Rollback(t)
        PROVE  NoneLeftOpen'
    BY <2>4 DEF Commit, CommitThrows, Rollback, NoneLeftOpen
  <2>5. CASE UNCHANGED vars
    BY <2>5 DEF vars, NoneLeftOpen
  <2> QED
    BY <2>1, <2>2, <2>3, <2>4, <2>5 DEF Next, FnWrites, PlainWrite
<1> QED BY <1>1, <1>2, DatabaseTypeCorrect, PTL DEF Spec

-----------------------------------------------------------------------------
(* The transactions under way, and the ones with nothing of another's      *)
(* since they began.                                                       *)
Inside == {t \in Thread : pc[t] # "out"}
Latest == {t \in Inside : since[t] = {}}

(* The snapshot is that of the transaction that began last, as long as no  *)
(* other has ended since; on SQLite there is one transaction at a time.    *)
SnapshotInv ==
  /\ \A t \in Latest : snapshot_ # None /\ before[t] = snapshot_
  /\ snapshot_ # None /\ Inside # {} => Latest # {}
  /\ backend = "sqlite" => /\ Inside # {} => snapshot_ # None
                           /\ \A t, u \in Inside : t = u

(* A step of transaction() that ends it. *)
LEMMA EndKeeps ==
  ASSUME TypeOK, SnapshotInv, NEW t \in Thread, pc[t] # "out", Leave(t),
         snapshot_' = None \/ backend = "sqlite"
  PROVE  SnapshotInv'
<1>1. /\ pc' = [pc EXCEPT ![t] = "out"] /\ backend' = backend
      /\ since' = [u \in Thread |-> IF u = t \/ pc[u] = "out" THEN {} ELSE since[u] \union {"ended"}]
  BY DEF Leave, Seen
<1>2. Inside' = Inside \ {t} /\ t \in Inside
  BY <1>1 DEF Inside, TypeOK
<1>3. Latest' = {}
  <2> SUFFICES ASSUME NEW u \in Latest' PROVE FALSE
    OBVIOUS
  <2>1. u \in Inside' /\ since'[u] = {}
    BY DEF Latest
  <2>2. u # t /\ pc[u] # "out" /\ u \in Thread
    BY <1>2, <2>1 DEF Inside
  <2>3. "ended" \in since'[u]
    BY <1>1, <2>2
  <2> QED
    BY <2>1, <2>3
<1>4. CASE backend = "sqlite"
  <2>1. Inside' = {}
    BY <1>2, <1>4 DEF SnapshotInv
  <2> QED
    BY <1>3, <2>1 DEF SnapshotInv
<1>5. CASE backend # "sqlite"
  BY <1>1, <1>3, <1>5 DEF SnapshotInv
<1> QED
  BY <1>4, <1>5

(* A step that leaves every transaction under way. *)
LEMMA SameOpen ==
  ASSUME SnapshotInv, UNCHANGED <<backend, snapshot_, before, since>>, Inside' = Inside
  PROVE  SnapshotInv'
<1>1. Latest' = Latest
  BY DEF Latest
<1> QED
  BY <1>1 DEF SnapshotInv

(* begin(): the snapshot is this transaction's from now on. *)
LEMMA BeginKeeps ==
  ASSUME TypeOK, SnapshotInv, NEW t \in Thread, Begin(t)
  PROVE  SnapshotInv'
<1>1. /\ pc[t] = "out" /\ pc' = [pc EXCEPT ![t] = "fn"] /\ backend' = backend
      /\ snapshot_' = Now /\ before' = [before EXCEPT ![t] = Now]
      /\ since' = [u \in Thread |-> IF u = t \/ pc[u] = "out" THEN {} ELSE since[u] \union {"begun"}]
      /\ backend = "sqlite" => snapshot_ = None
  BY DEF Begin, Seen
<1>2. snapshot_' # None
  BY <1>1, NowIsStore, NoneIsNoStore
<1>3. Inside' = Inside \union {t}
  BY <1>1 DEF Inside, TypeOK
<1>4. Latest' = {t}
  <2>1. t \in Latest'
    BY <1>1, <1>3 DEF Latest
  <2>2. ASSUME NEW u \in Latest', u # t PROVE FALSE
    <3>1. u \in Inside' /\ since'[u] = {}
      BY DEF Latest
    <3>2. u \in Thread /\ pc[u] # "out"
      BY <1>3, <2>2, <3>1 DEF Inside
    <3>3. "begun" \in since'[u]
      BY <1>1, <2>2, <3>2
    <3> QED
      BY <3>1, <3>3
  <2> QED
    BY <2>1, <2>2
<1>5. before'[t] = snapshot_'
  BY <1>1 DEF TypeOK
<1>6. backend = "sqlite" => Inside = {}
  BY <1>1 DEF SnapshotInv
<1> QED
  BY <1>1, <1>2, <1>3, <1>4, <1>5, <1>6 DEF SnapshotInv

(* Every step keeps SnapshotInv. *)
LEMMA SnapshotStep ==
  ASSUME TypeOK, SnapshotInv, [Next]_vars
  PROVE  SnapshotInv'
<1>1. CASE Write
  BY <1>1, SameOpen DEF Write, Inside
<1>2. ASSUME NEW t \in Thread, FnThrows(t) PROVE SnapshotInv'
  <2>1. Inside' = Inside
    BY <1>2 DEF FnThrows, Inside, TypeOK
  <2> QED
    BY <1>2, <2>1, SameOpen DEF FnThrows
<1>3. ASSUME NEW t \in Thread, Commit(t) \/ CommitThrows(t) \/ Rollback(t)
      PROVE  SnapshotInv'
  BY <1>3, EndKeeps DEF Commit, CommitThrows, Rollback
<1>4. CASE UNCHANGED vars
  BY <1>4, SameOpen DEF vars, Inside
<1> QED
  BY <1>1, <1>2, <1>3, <1>4, BeginKeeps DEF Next, FnWrites, PlainWrite

(***************************************************************************)
(* A transaction whose fn() throws leaves the store as it was when it      *)
(* began, on both back ends, if no other began or ended meanwhile; and     *)
(* however transactions overlap, rollback() undoes nothing that was there  *)
(* when one of them ended.  SnapshotInv is the inductive invariant:        *)
(* commit() and rollback() keep it by dropping the snapshot.               *)
(***************************************************************************)
THEOREM RollbacksRestore == Spec => RollbackRestores
<1>1. Init => SnapshotInv
  BY DEF Init, SnapshotInv, Inside, Latest
<1>2. TypeOK /\ SnapshotInv /\ [Next]_vars => SnapshotInv'
  BY SnapshotStep
<1> DEFINE A == \A t \in Thread : pc[t] = "thrown" /\ pc'[t] = "out" =>
       /\ since[t] = {} => Now' = before[t]
       /\ Now' # Now => \E u \in Thread : pc[u] # "out" /\ "ended" \notin since[u] /\ Now' = before[u]
<1>3. TypeOK /\ SnapshotInv /\ [Next]_vars => [A]_vars
  <2> SUFFICES ASSUME TypeOK, SnapshotInv, Next, NEW t \in Thread, pc[t] = "thrown", pc'[t] = "out"
               PROVE  /\ since[t] = {} => Now' = before[t]
                      /\ Now' # Now => \E u \in Thread : pc[u] # "out" /\ "ended" \notin since[u] /\ Now' = before[u]
    OBVIOUS
  <2>1. ~Write
    BY DEF Write
  <2>2. PICK u \in Thread : Begin(u) \/ FnThrows(u) \/ Commit(u) \/ CommitThrows(u) \/ Rollback(u)
    BY <2>1 DEF Next, FnWrites, PlainWrite
  <2>3. u = t
    BY <2>2 DEF Begin, FnThrows, Commit, CommitThrows, Rollback, Leave, TypeOK
  <2>4. Rollback(t)
    BY <2>2, <2>3 DEF Begin, FnThrows, Commit, CommitThrows
  <2>5. CASE snapshot_ = None
    <3>1. Now' = Now
      BY <2>4, <2>5 DEF Rollback, store, Now
    <3>2. t \notin Latest
      BY <2>5 DEF SnapshotInv
    <3> QED
      BY <3>1, <3>2 DEF Latest, Inside
  <2>6. CASE snapshot_ # None
    <3>1. snapshot_ \in Store
      BY <2>6 DEF TypeOK
    <3>2. Now' = snapshot_
      BY <2>4, <2>6, <3>1 DEF Rollback, Restore, Now, Store
    <3>3. PICK v \in Latest : TRUE
      BY <2>6 DEF SnapshotInv, Inside
    <3>4. v \in Thread /\ pc[v] # "out" /\ since[v] = {} /\ before[v] = snapshot_
      BY <3>3 DEF SnapshotInv, Latest, Inside
    <3>5. since[t] = {} => before[t] = snapshot_
      BY DEF SnapshotInv, Latest, Inside
    <3> QED
      BY <3>2, <3>4, <3>5
  <2> QED
    BY <2>5, <2>6
<1> HIDE DEF A
<1>4. Spec => [][A]_vars
  BY <1>1, <1>2, <1>3, DatabaseTypeCorrect, PTL DEF Spec
<1> QED
  BY <1>4 DEF RollbackRestores, A

(* The connection is what the application was given. *)
LEMMA BackendFixed == [Next]_vars => backend' = backend
BY DEF Next, FnWrites, PlainWrite, Write, Begin, FnThrows, Commit, CommitThrows,
       Rollback, Leave, vars

-----------------------------------------------------------------------------
(* Pages.  A result is an enumeration of a set of rows that a relation     *)
(* orders; R is such a relation.                                           *)

Ordered(R, s) == \A k \in 2..Len(s) : <<s[k - 1], s[k]>> \in R
Transitive(R, F) ==
  \A x, y, z \in F : <<x, y>> \in R /\ <<y, z>> \in R => <<x, z>> \in R
Antisymmetric(R, F) == \A x, y \in F : <<x, y>> \in R /\ <<y, x>> \in R => x = y

(* A set of naturals that is not empty has a least element. *)
LEMMA LeastOf ==
  ASSUME NEW T \in SUBSET Nat, T # {}
  PROVE  \E x \in T : \A y \in T : x <= y
<1>1. PICK x \in T : \A y \in T : ~(<<y, x>> \in OpToRel(<, Nat))
  BY NatLessThanWellFounded, WFMin
<1>2. \A y \in T : ~(y < x)
  BY <1>1 DEF OpToRel
<1> QED
  BY <1>2

(* What is ordered step by step is ordered. *)
LEMMA OrderedPairs ==
  ASSUME NEW F, NEW R, Transitive(R, F), NEW s \in Seq(F), Ordered(R, s)
  PROVE  \A k, l \in 1..Len(s) : k < l => <<s[k], s[l]>> \in R
<1> DEFINE T == {l \in 1..Len(s) : \E k \in 1..Len(s) : k < l /\ <<s[k], s[l]>> \notin R}
<1>1. CASE T = {}
  BY <1>1
<1>2. CASE T # {}
  <2>1. Len(s) \in Nat /\ \A k \in 1..Len(s) : s[k] \in F
    OBVIOUS
  <2>2. T \in SUBSET Nat
    BY <2>1
  <2>3. PICK l \in T : \A m \in T : l <= m
    <3> HIDE DEF T
    <3> QED
      BY <1>2, <2>2, LeastOf
  <2>4. PICK k \in 1..Len(s) : k < l /\ <<s[k], s[l]>> \notin R
    OBVIOUS
  <2>5. /\ l \in 2..Len(s) /\ l - 1 \in 1..Len(s) /\ <<s[l - 1], s[l]>> \in R
        /\ l - 1 \notin T
    BY <2>1, <2>3, <2>4 DEF Ordered
  <2>6. k = l - 1 \/ <<s[k], s[l - 1]>> \in R
    <3>1. \A j \in 1..Len(s) : j < l - 1 => <<s[j], s[l - 1]>> \in R
      BY <2>5
    <3>2. k = l - 1 \/ k < l - 1
      BY <2>1, <2>4, <2>5
    <3> QED
      BY <2>4, <3>1, <3>2
  <2>7. s[k] \in F /\ s[l - 1] \in F /\ s[l] \in F
    BY <2>1, <2>4, <2>5
  <2>8. CASE k = l - 1
    BY <2>4, <2>5, <2>8
  <2>9. CASE <<s[k], s[l - 1]>> \in R
    <3> HIDE DEF T
    <3>1. <<s[k], s[l]>> \in R
      BY <2>5, <2>7, <2>9 DEF Transitive
    <3> QED
      BY <2>4, <3>1
  <2> QED
    BY <2>6, <2>8, <2>9
<1> QED
  BY <1>1, <1>2

(* SetToSeqs() gives enumerations. *)
LEMMA Enumerates ==
  ASSUME NEW F, IsFiniteSet(F), NEW s \in SetToSeqs(F)
  PROVE  /\ Cardinality(F) \in Nat /\ s \in Seq(F) /\ Len(s) = Cardinality(F)
         /\ \A k, l \in 1..Len(s) : s[k] = s[l] => k = l
         /\ \A x \in F : \E k \in 1..Len(s) : s[k] = x
<1> DEFINE n == Cardinality(F)
<1>1. n \in Nat
  BY FS_CardinalityType
<1>2. s \in [1..n -> F] /\ \A k, l \in 1..n : k # l => s[k] # s[l]
  BY DEF SetToSeqs
<1> HIDE DEF n
<1>3. s \in Seq(F) /\ Len(s) = n
  BY <1>1, <1>2
<1>4. s \in Injection(1..n, F)
  BY <1>2 DEF Injection, IsInjective
<1>5. Cardinality(1..n) = n
  BY <1>1, FS_Interval
<1>6. s \in Surjection(1..n, F)
  BY <1>4, <1>5, FS_Injection DEF n
<1> QED
  BY <1>1, <1>2, <1>3, <1>6 DEF Surjection, n

(* An ordered enumeration of the first ones begins that of all. *)
LEMMA BeginsWith ==
  ASSUME NEW F, NEW G, IsFiniteSet(G), F \subseteq G, NEW R,
         Transitive(R, G), Antisymmetric(R, G),
         \A x \in F, y \in G \ F : <<x, y>> \in R,
         NEW s \in SetToSeqs(F), Ordered(R, s), NEW t \in SetToSeqs(G), Ordered(R, t)
  PROVE  Len(s) <= Len(t) /\ \A k \in 1..Len(s) : t[k] = s[k]
<1>1. IsFiniteSet(F) /\ Cardinality(F) <= Cardinality(G)
  BY FS_Subset
<1>2. /\ s \in Seq(F) /\ Len(s) = Cardinality(F) /\ Len(s) \in Nat
      /\ \A k, l \in 1..Len(s) : s[k] = s[l] => k = l
      /\ \A x \in F : \E k \in 1..Len(s) : s[k] = x
  BY <1>1, Enumerates
<1>3. /\ t \in Seq(G) /\ Len(t) = Cardinality(G) /\ Len(t) \in Nat
      /\ \A x \in G : \E k \in 1..Len(t) : t[k] = x
  BY Enumerates
<1>4. Len(s) <= Len(t)
  BY <1>1, <1>2, <1>3
<1>5. \A k, l \in 1..Len(s) : k < l => <<s[k], s[l]>> \in R
  <2>1. Transitive(R, F)
    BY DEF Transitive
  <2> QED
    BY <1>2, <2>1, OrderedPairs
<1>6. \A k, l \in 1..Len(t) : k < l => <<t[k], t[l]>> \in R
  BY <1>3, OrderedPairs
<1>7. /\ \A k \in 1..Len(s) : s[k] \in F /\ s[k] \in G /\ k \in 1..Len(t) /\ k \in Nat
      /\ \A k \in 1..Len(t) : t[k] \in G
  BY <1>2, <1>3, <1>4
<1> DEFINE T == {k \in 1..Len(s) : t[k] # s[k]}
<1>8. ASSUME T # {}
      PROVE  FALSE
  <2>1. T \in SUBSET Nat
    BY <1>7
  <2>2. PICK k \in T : \A m \in T : k <= m
    <3> HIDE DEF T
    <3> QED
      BY <1>8, <2>1, LeastOf
  <2>3. k \in 1..Len(s) /\ t[k] # s[k] /\ \A m \in 1..Len(s) : m < k => t[m] = s[m]
    BY <1>7, <2>2
  <2> HIDE DEF T
  <2>4. <<s[k], t[k]>> \in R
    <3>1. CASE t[k] \in F
      <4>1. PICK l \in 1..Len(s) : s[l] = t[k]
        BY <1>2, <3>1
      <4>2. l \in Nat /\ k \in Nat /\ l # k
        BY <1>7, <2>3, <4>1
      <4>3. ~(l < k)
        <5> SUFFICES ASSUME l < k PROVE FALSE
          OBVIOUS
        <5>1. t[l] = t[k]
          BY <2>3, <4>1
        <5>2. \A i, j \in 1..Len(t) : t[i] = t[j] => i = j
          BY Enumerates
        <5> QED
          BY <1>7, <2>3, <4>1, <4>2, <5>1, <5>2
      <4> QED
        BY <1>5, <2>3, <4>1, <4>2, <4>3
    <3>2. CASE t[k] \notin F
      BY <1>7, <2>3, <3>2
    <3> QED
      BY <3>1, <3>2
  <2>5. <<t[k], s[k]>> \in R
    <3>1. PICK m \in 1..Len(t) : t[m] = s[k]
      BY <1>3, <1>7, <2>3
    <3>2. m \in Nat /\ k \in Nat /\ m # k
      BY <1>3, <1>7, <2>3, <3>1
    <3>3. ~(m < k)
      <4> SUFFICES ASSUME m < k PROVE FALSE
        OBVIOUS
      <4>1. m \in 1..Len(s)
        BY <1>2, <2>3, <3>1, <3>2
      <4>2. s[m] = s[k]
        BY <2>3, <3>1, <4>1
      <4> QED
        BY <1>2, <2>3, <3>2, <4>1, <4>2
    <3> QED
      BY <1>6, <1>7, <2>3, <3>1, <3>2, <3>3
  <2> QED
    BY <1>7, <2>3, <2>4, <2>5 DEF Antisymmetric
<1> QED
  BY <1>4, <1>8

(* Numbers can be enumerated in ascending order. *)
LEMMA Ascending ==
  ASSUME NEW n \in Nat, NEW F \in SUBSET (1..n)
  PROVE  \E s \in SetToSeqs(F) : \A k \in 2..Len(s) : s[k - 1] < s[k]
<1> DEFINE Good(G) == \E s \in SetToSeqs(G) : \A k \in 2..Len(s) : s[k - 1] < s[k]
           T == {m \in Nat : \E G \in SUBSET (1..m) : ~Good(G)}
<1>1. CASE T = {}
  <2>1. n \notin T
    BY <1>1
  <2> QED
    BY <2>1
<1>2. CASE T # {}
  <2>1. PICK m \in T : \A x \in T : m <= x
    <3>1. T \in SUBSET Nat
      OBVIOUS
    <3> HIDE DEF T
    <3> QED
      BY <1>2, <3>1, LeastOf
  <2>2. PICK G \in SUBSET (1..m) : ~Good(G)
    BY <2>1
  <2>3. m \in Nat
    BY <2>1
  <2>4. IsFiniteSet(G) /\ Cardinality(G) \in Nat
    <3>1. IsFiniteSet(1..m)
      BY <2>3, FS_Interval
    <3> QED
      BY <3>1, FS_Subset, FS_CardinalityType
  <2>5. CASE m = 0
    <3>1. G = {} /\ Cardinality(G) = 0
      <4>1. 1..m = {}
        BY <2>5
      <4>2. G = {}
        BY <2>2, <4>1
      <4> QED
        BY <2>4, <4>2, FS_EmptySet
    <3>2. <<>> \in SetToSeqs(G)
      BY <3>1 DEF SetToSeqs
    <3>3. \A k \in 2..Len(<<>>) : FALSE
      OBVIOUS
    <3> QED
      BY <2>2, <3>2, <3>3
  <2>6. CASE m # 0
    <3>1. m - 1 \in Nat /\ m - 1 \notin T
      BY <2>1, <2>3, <2>6
    <3>2. \A H \in SUBSET (1..(m - 1)) : Good(H)
      BY <3>1
    <3>3. G \ {m} \in SUBSET (1..(m - 1))
      BY <2>2, <2>3
    <3>4. PICK s \in SetToSeqs(G \ {m}) : \A k \in 2..Len(s) : s[k - 1] < s[k]
      BY <3>2, <3>3
    <3>5. CASE m \notin G
      <4>1. G \ {m} = G
        BY <3>5
      <4> QED
        BY <2>2, <3>4, <4>1
    <3>6. CASE m \in G
      <4> DEFINE c == Cardinality(G \ {m})
                 u == [k \in 1..(c + 1) |-> IF k = c + 1 THEN m ELSE s[k]]
      <4>1. IsFiniteSet(G \ {m}) /\ c \in Nat /\ Cardinality(G) = c + 1
        <5>1. IsFiniteSet(G \ {m}) /\ c = Cardinality(G) - 1
          BY <2>4, <3>6, FS_RemoveElement
        <5>2. c \in Nat
          BY <5>1, FS_CardinalityType
        <5> HIDE DEF c
        <5> QED
          BY <2>4, <5>1, <5>2
      <4> HIDE DEF c
      <4>2. /\ s \in Seq(G \ {m}) /\ Len(s) = c
            /\ \A k, l \in 1..Len(s) : s[k] = s[l] => k = l
        BY <4>1, Enumerates DEF c
      <4>3. \A k \in 1..c : s[k] \in G /\ s[k] \in 1..(m - 1)
        <5>1. \A k \in 1..c : s[k] \in G \ {m}
          BY <4>1, <4>2
        <5> QED
          BY <3>3, <5>1
      <4>4. u \in [1..(c + 1) -> G]
        BY <3>6, <4>1, <4>3
      <4>5. \A k, l \in 1..(c + 1) : k # l => u[k] # u[l]
        <5> SUFFICES ASSUME NEW k \in 1..(c + 1), NEW l \in 1..(c + 1), k # l, u[k] = u[l]
                     PROVE  FALSE
          OBVIOUS
        <5>1. \A j \in 1..c : s[j] # m
          BY <2>3, <4>3
        <5> QED
          BY <4>1, <4>2, <5>1
      <4>6. u \in SetToSeqs(G)
        BY <4>1, <4>4, <4>5 DEF SetToSeqs
      <4>7. \A k \in 2..Len(u) : u[k - 1] < u[k]
        <5>1. Len(u) = c + 1
          BY <4>1
        <5> SUFFICES ASSUME NEW k \in 2..(c + 1)
                     PROVE  u[k - 1] < u[k]
          BY <5>1
        <5>2. CASE k = c + 1
          <6>1. c \in 1..c /\ u[k - 1] = s[c] /\ u[k] = m
            BY <4>1, <5>2
          <6> QED
            BY <2>3, <4>3, <6>1
        <5>3. CASE k # c + 1
          <6>1. k \in 2..c /\ k - 1 \in 1..c /\ u[k - 1] = s[k - 1] /\ u[k] = s[k]
            BY <4>1, <5>3
          <6> QED
            BY <3>4, <4>2, <6>1
        <5> QED
          BY <5>2, <5>3
      <4> QED
        BY <2>2, <4>6, <4>7
    <3> QED
      BY <3>5, <3>6
  <2> QED
    BY <2>5, <2>6
<1> QED
  BY <1>1, <1>2

(* What matches q, and in which order, in a table `tab` of back end `be`;   *)
(* with Steady, the back end has no choice.                                *)
CellIn(tab, i, column) == IF column = "id" THEN i ELSE tab[i][column]
MatchIn(tab, q) ==
  {i \in Id : tab[i] # NoRow /\ \A k \in DOMAIN q.wheres :
     matches(CellIn(tab, i, q.wheres[k].column), q.wheres[k].op, q.wheres[k].value)}
PrecedesIn(tab, be, q, i, j) ==
  IF q.order = None THEN i < j
  ELSE LET a == CellIn(tab, i, q.order.column) b == CellIn(tab, j, q.order.column) IN
       \/ IF q.order.descending THEN b < a ELSE a < b
       \/ a = b /\ (be = "sqlite" \/ i < j)
OrderIn(tab, be, q) == {p \in Id \X Id : PrecedesIn(tab, be, q, p[1], p[2])}
SortedIn(tab, be, q) == {s \in SetToSeqs(MatchIn(tab, q)) : Ordered(OrderIn(tab, be, q), s)}
Steady(be, q) == be = "memory" \/ q.order = None \/ q.order.column = "id"

(* The rows that match are finitely many. *)
LEMMA MatchFacts ==
  ASSUME NEW tab \in Table, NEW q
  PROVE  /\ MatchIn(tab, q) \in SUBSET Id /\ IsFiniteSet(MatchIn(tab, q))
         /\ Cardinality(MatchIn(tab, q)) \in Nat
         /\ \A i \in MatchIn(tab, q) : tab[i] \in Val
<1>1. MatchIn(tab, q) \in SUBSET Id /\ \A i \in MatchIn(tab, q) : tab[i] # NoRow
  BY DEF MatchIn
<1>2. IsFiniteSet(Id)
  BY DatabaseAssumption, FS_Interval DEF Id
<1>3. IsFiniteSet(MatchIn(tab, q)) /\ Cardinality(MatchIn(tab, q)) \in Nat
  BY <1>1, <1>2, FS_Subset, FS_CardinalityType
<1> QED
  BY <1>1, <1>3 DEF Table

(* What an ordinary column holds can be compared. *)
LEMMA CellFacts ==
  ASSUME NEW tab \in Table, NEW q \in Queries, q.order # None, NEW i \in MatchIn(tab, q)
  PROVE  CellIn(tab, i, q.order.column) \in Int /\ i \in Int
<1>1. i \in Id /\ tab[i] \in Val
  BY MatchFacts
<1>2. i \in Int
  BY <1>1, DatabaseAssumption DEF Id
<1> QED
  BY <1>1, <1>2, QueryAssumption DEF CellIn

(* Rows have one order, unless SQLite is left a choice. *)
LEMMA OrderFacts ==
  ASSUME NEW tab \in Table, NEW be, NEW q \in Queries, Steady(be, q)
  PROVE  /\ Transitive(OrderIn(tab, be, q), MatchIn(tab, q))
         /\ Antisymmetric(OrderIn(tab, be, q), MatchIn(tab, q))
<1>1. \A i \in MatchIn(tab, q) : i \in Id /\ i \in Int
  BY MatchFacts, DatabaseAssumption DEF Id
<1>2. \A i, j \in MatchIn(tab, q) :
        <<i, j>> \in OrderIn(tab, be, q) <=> PrecedesIn(tab, be, q, i, j)
  BY <1>1 DEF OrderIn
<1>3. CASE q.order = None
  BY <1>1, <1>2, <1>3 DEF PrecedesIn, Transitive, Antisymmetric
<1>4. CASE q.order # None
  <2> DEFINE c == [i \in MatchIn(tab, q) |-> CellIn(tab, i, q.order.column)]
  <2>1. \A i \in MatchIn(tab, q) : c[i] \in Int /\ c[i] = CellIn(tab, i, q.order.column)
    BY <1>4, CellFacts
  <2>2. q.order.descending \in BOOLEAN
    BY <1>4, QueryAssumption
  <2>3. \A i, j \in MatchIn(tab, q) : <<i, j>> \in OrderIn(tab, be, q) <=>
          \/ q.order.descending /\ c[j] < c[i]
          \/ ~q.order.descending /\ c[i] < c[j]
          \/ c[i] = c[j] /\ (be = "sqlite" \/ i < j)
    BY <1>2, <1>4, <2>1, <2>2 DEF PrecedesIn
  <2>4. be = "sqlite" => \A i \in MatchIn(tab, q) : c[i] = i
    BY <1>4, <2>1 DEF Steady, CellIn
  <2> HIDE DEF c
  <2>5. Transitive(OrderIn(tab, be, q), MatchIn(tab, q))
    BY <1>1, <2>1, <2>3 DEF Transitive
  <2>6. Antisymmetric(OrderIn(tab, be, q), MatchIn(tab, q))
    BY <1>1, <2>1, <2>3, <2>4 DEF Antisymmetric
  <2> QED
    BY <2>5, <2>6
<1> QED
  BY <1>3, <1>4

(* Rows can be put in the order of their ids. *)
LEMMA SortedById ==
  ASSUME NEW tab \in Table, NEW be, NEW q,
         q.order = None \/ (q.order.column = "id" /\ ~q.order.descending)
  PROVE  SortedIn(tab, be, q) # {}
<1>1. MatchIn(tab, q) \in SUBSET (1..MaxId) /\ MaxId \in Nat /\ IsFiniteSet(MatchIn(tab, q))
  BY MatchFacts, DatabaseAssumption DEF Id
<1>2. PICK s \in SetToSeqs(MatchIn(tab, q)) : \A k \in 2..Len(s) : s[k - 1] < s[k]
  BY <1>1, Ascending
<1>3. \A k \in 2..Len(s) : PrecedesIn(tab, be, q, s[k - 1], s[k])
  BY <1>2 DEF PrecedesIn, CellIn
<1>4. \A k \in 2..Len(s) : s[k - 1] \in Id /\ s[k] \in Id
  <2>1. s \in Seq(MatchIn(tab, q)) /\ Len(s) \in Nat
    BY <1>1, <1>2, Enumerates
  <2> QED
    BY <1>1, <2>1 DEF Id
<1>5. Ordered(OrderIn(tab, be, q), s)
  BY <1>3, <1>4 DEF Ordered, OrderIn
<1> QED
  BY <1>2, <1>5 DEF SortedIn

(* Filtered() and Sorted(), in these terms. *)
LEMMA InHere ==
  ASSUME TypeOK, NEW q
  PROVE  Filtered(q) = MatchIn(rows, q) /\ Sorted(q) = SortedIn(rows, backend, q)
<1>1. Filtered(q) = MatchIn(rows, q)
  BY DEF Filtered, MatchIn, cell, CellIn
<1>2. ASSUME NEW s \in SetToSeqs(MatchIn(rows, q))
      PROVE  Ordered(OrderIn(rows, backend, q), s) <=>
               \A k \in 2..Len(s) : Precedes(q, s[k - 1], s[k])
  <2>1. s \in Seq(MatchIn(rows, q)) /\ MatchIn(rows, q) \in SUBSET Id /\ Len(s) \in Nat
    BY <1>2, MatchFacts, Enumerates DEF TypeOK
  <2>2. \A k \in 2..Len(s) : s[k - 1] \in Id /\ s[k] \in Id
    BY <2>1
  <2>3. \A i, j : Precedes(q, i, j) <=> PrecedesIn(rows, backend, q, i, j)
    BY DEF Precedes, PrecedesIn, cell, CellIn
  <2> QED
    BY <2>2, <2>3 DEF Ordered, OrderIn
<1> QED
  BY <1>1, <1>2 DEF Sorted, SortedIn

(* Limit and offset change neither what matches nor its order. *)
LEMMA PageQuery ==
  ASSUME NEW q, NEW r, r.wheres = q.wheres, r.order = q.order
  PROVE  Filtered(r) = Filtered(q) /\ Sorted(r) = Sorted(q)
<1>1. Filtered(r) = Filtered(q)
  BY DEF Filtered
<1> QED
  BY <1>1 DEF Sorted, Precedes

(* count() is the number of rows that match. *)
LEMMA Counted ==
  ASSUME TypeOK, NEW q \in Queries
  PROVE  count(q) = Cardinality(Filtered(q))
<1> DEFINE r == [q EXCEPT !.order = None, !.limit = None, !.offset = None]
<1>1. q = [wheres |-> q.wheres, order |-> q.order, limit |-> None, offset |-> None]
  BY QueryAssumption DEF Q
<1>2. r.wheres = q.wheres /\ r.order = None /\ r.limit = None /\ r.offset = None
  BY <1>1
<1> HIDE DEF r
<1>3. Filtered(r) = Filtered(q) /\ rows \in Table
  BY <1>2 DEF Filtered, TypeOK
<1>4. \A s \in Sorted(r) : s \in Seq(Filtered(q)) /\ Len(s) = Cardinality(Filtered(q))
  <2>1. IsFiniteSet(Filtered(q))
    BY <1>3, InHere, MatchFacts
  <2> QED
    BY <1>3, <2>1, Enumerates DEF Sorted
<1>5. \A s \in Sorted(r) : Window(s, r) = s
  BY <1>2, <1>4 DEF Window
<1>6. Sorted(r) # {}
  BY <1>2, <1>3, InHere, SortedById
<1>7. select(r) # {} /\ \A s \in select(r) : Len(s) = Cardinality(Filtered(q))
  BY <1>4, <1>5, <1>6 DEF select
<1>8. (CHOOSE s \in select(r) : TRUE) \in select(r)
  BY <1>7
<1> QED
  BY <1>7, <1>8 DEF count, r

(* What a page holds. *)
LEMMA WindowFacts ==
  ASSUME NEW s \in Seq(Id), NEW q, q.limit \in Nat, q.offset \in Nat,
         NEW page, page = Window(s, q)
  PROVE  /\ page \in Seq(Id) /\ Len(page) \in Nat /\ Len(page) <= q.limit
         /\ \A k \in 1..Len(page) : q.offset + k \in 1..Len(s) /\ page[k] = s[q.offset + k]
         /\ q.offset <= Len(s) => Len(page) = q.limit \/ q.offset + Len(page) = Len(s)
<1> DEFINE off == q.offset lim == q.limit
           rest == SubSeq(s, off + 1, Len(s))
           items == IF Len(rest) <= lim THEN rest ELSE SubSeq(rest, 1, lim)
<1>1. Window(s, q) = items
  BY QueryAssumption DEF Window
<1>2. off \in Nat /\ lim \in Nat /\ Len(s) \in Nat /\ \A k \in 1..Len(s) : s[k] \in Id
  OBVIOUS
<1>3. /\ rest \in Seq(Id) /\ Len(rest) = IF off < Len(s) THEN Len(s) - off ELSE 0
      /\ \A k \in 1..Len(rest) : off + k \in 1..Len(s) /\ rest[k] = s[off + k]
  <2> HIDE DEF off
  <2>1. CASE off < Len(s)
    <3>1. /\ \A k \in (off + 1)..Len(s) : s[k] \in Id
          /\ Len(rest) = Len(s) - off
          /\ \A k \in 1..(Len(s) - off) : off + k \in 1..Len(s) /\ rest[k] = s[off + k]
      BY <1>2, <2>1
    <3> QED
      BY <1>2, <2>1, <3>1
  <2>2. CASE ~(off < Len(s))
    <3>1. rest = <<>>
      BY <1>2, <2>2
    <3> HIDE DEF rest
    <3>2. rest \in Seq(Id) /\ Len(rest) = 0 /\ 1..0 = {}
      BY <3>1
    <3> QED
      BY <2>2, <3>2
  <2> QED
    BY <2>1, <2>2
<1> HIDE DEF rest, off, lim
<1>4. CASE Len(rest) <= lim
  BY <1>1, <1>2, <1>3, <1>4 DEF off, lim
<1>5. CASE ~(Len(rest) <= lim)
  <2>1. Len(rest) \in Nat /\ lim \in 0..Len(rest)
    BY <1>2, <1>3, <1>5
  <2>2. /\ items \in Seq(Id) /\ Len(items) = lim
        /\ \A k \in 1..lim : items[k] = rest[k]
    BY <1>2, <1>3, <1>5, <2>1
  <2> HIDE DEF items
  <2> QED
    BY <1>1, <1>2, <1>3, <2>1, <2>2 DEF off, lim
<1> QED
  BY <1>4, <1>5

(* Products grow with their factors. *)
LEMMA Grows ==
  ASSUME NEW a \in Nat, NEW b \in Nat, NEW c \in Nat, a <= b
  PROVE  a * c <= b * c /\ a * c \in Nat
OBVIOUS

(* last_page is the last page that has rows. *)
LEMMA LastPageFacts ==
  ASSUME NEW total \in Nat, NEW per \in Nat \ {0}, NEW page \in Nat
  PROVE  /\ page < LastPage(total, per) => page * per < total
         /\ ~(page < LastPage(total, per)) => total <= page * per
<1> DEFINE last == LastPage(total, per)
<1>1. last = (total + per - 1) \div per
  BY DEF LastPage
<1>2. last \in Nat /\ last * per <= total + per - 1 /\ total + per - 1 < last * per + per
  BY <1>1
<1> HIDE DEF last
<1>3. ASSUME page < last
      PROVE  page * per < total
  <2>1. (page + 1) * per <= last * per
    BY <1>2, <1>3, Grows
  <2>2. (page + 1) * per = page * per + per
    OBVIOUS
  <2> QED
    BY <1>2, <2>1, <2>2
<1>4. ASSUME ~(page < last)
      PROVE  total <= page * per
  <2>1. last * per <= page * per
    BY <1>2, <1>4, Grows
  <2> QED
    BY <1>2, <2>1
<1> QED
  BY <1>3, <1>4 DEF last

(* Rows that come before all others are at the beginning. *)
LEMMA FirstPlaces ==
  ASSUME NEW F, IsFiniteSet(F), NEW A \in SUBSET F, NEW R,
         Transitive(R, F), Antisymmetric(R, F), \A x \in A, y \in F \ A : <<x, y>> \in R,
         NEW s \in SetToSeqs(F), Ordered(R, s)
  PROVE  /\ Cardinality(A) \in Nat /\ Cardinality(A) <= Len(s)
         /\ \A k \in 1..Len(s) : s[k] \in A <=> k <= Cardinality(A)
<1>1. /\ s \in Seq(F) /\ Len(s) = Cardinality(F) /\ Len(s) \in Nat
      /\ \A k, l \in 1..Len(s) : s[k] = s[l] => k = l
      /\ \A x \in F : \E k \in 1..Len(s) : s[k] = x
  BY Enumerates
<1>2. \A k \in 1..Len(s) : s[k] \in F
  BY <1>1
<1>3. \A k, l \in 1..Len(s) : k < l /\ s[l] \in A => s[k] \in A
  <2> SUFFICES ASSUME NEW k \in 1..Len(s), NEW l \in 1..Len(s), k < l, s[l] \in A, s[k] \notin A
               PROVE  FALSE
    OBVIOUS
  <2>1. <<s[k], s[l]>> \in R
    BY <1>1, OrderedPairs
  <2>2. <<s[l], s[k]>> \in R
    BY <1>2
  <2> QED
    BY <1>2, <2>1, <2>2 DEF Antisymmetric
<1> DEFINE T == {k \in Nat : k + 1 \notin 1..Len(s) \/ s[k + 1] \notin A}
<1>4. PICK n \in T : \A m \in T : n <= m
  <2>1. Len(s) \in T /\ T \in SUBSET Nat
    BY <1>1
  <2> HIDE DEF T
  <2> QED
    BY <2>1, LeastOf
<1>5. n \in Nat /\ n <= Len(s) /\ (n + 1 \in 1..Len(s) => s[n + 1] \notin A)
  BY <1>1, <1>4
<1>6. ASSUME NEW k \in 1..Len(s)
      PROVE  s[k] \in A <=> k <= n
  <2>1. CASE k <= n
    <3>1. k - 1 \in Nat /\ k - 1 < n /\ k - 1 + 1 = k
      BY <1>1, <1>5, <2>1
    <3>2. k - 1 \notin T
      <4> HIDE DEF T
      <4> QED
        BY <1>4, <1>5, <3>1
    <3> QED
      BY <2>1, <3>1, <3>2
  <2>2. CASE ~(k <= n)
    <3>1. n + 1 \in 1..Len(s) /\ (k = n + 1 \/ n + 1 < k)
      BY <1>1, <1>5, <2>2
    <3> QED
      BY <1>3, <1>5, <2>2, <3>1
  <2> QED
    BY <2>1, <2>2
<1> HIDE DEF T
<1>7. Cardinality(A) = n
  <2> DEFINE f == [k \in 1..n |-> s[k]]
  <2>1. \A k \in 1..n : k \in 1..Len(s) /\ f[k] = s[k] /\ s[k] \in A
    BY <1>1, <1>5, <1>6
  <2>2. f \in [1..n -> A]
    BY <2>1
  <2>3. \A x \in A : \E k \in 1..n : f[k] = x
    <3> SUFFICES ASSUME NEW x \in A
                 PROVE  \E k \in 1..n : f[k] = x
      OBVIOUS
    <3>1. PICK k \in 1..Len(s) : s[k] = x
      BY <1>1
    <3>2. k \in 1..n
      BY <1>1, <1>5, <1>6, <3>1
    <3> QED
      BY <2>1, <3>1, <3>2
  <2>4. \A k, l \in 1..n : f[k] = f[l] => k = l
    BY <1>1, <2>1
  <2> HIDE DEF f
  <2>5. f \in Bijection(1..n, A)
    BY <2>2, <2>3, <2>4 DEF Bijection, Injection, Surjection, IsInjective
  <2>6. IsFiniteSet(1..n) /\ Cardinality(1..n) = n
    BY <1>5, FS_Interval
  <2> QED
    BY <2>5, <2>6, FS_Bijection DEF ExistsBijection
<1> QED
  BY <1>5, <1>6, <1>7

-----------------------------------------------------------------------------
(* The walk.                                                               *)

Walk ==
  [pc : {"count", "select", "done"}, q : Queries, page : Nat, per : Nat, total : Nat,
   ids : SUBSET Id, seen : Seq(Id)]

ShownOnce(w) ==
  \A i \in w.ids : \E k \in 1..Len(w.seen) :
    w.seen[k] = i /\ \A l \in 1..Len(w.seen) : w.seen[l] = i => l = k

(* The rows of the start come first; what was seen are the rows before the *)
(* next page, or, when page "0" was not full, the rows of the start and    *)
(* none that is to come.                                                   *)
UnderWay(tab, be, w) ==
  /\ w.ids \subseteq MatchIn(tab, w.q)
  /\ \A i \in w.ids, j \in MatchIn(tab, w.q) \ w.ids : <<i, j>> \in OrderIn(tab, be, w.q)
  /\ w.pc = "select" => Cardinality(w.ids) <= w.total
  /\ \/ /\ Len(w.seen) = Offset(w.page, w.per)
        /\ \A s \in SortedIn(tab, be, w.q) :
             Len(w.seen) <= Len(s) /\ \A k \in 1..Len(w.seen) : s[k] = w.seen[k]
     \/ Cardinality(w.ids) <= Offset(w.page, w.per) /\ ShownOnce(w)

GoodWalk(tab, be, w) ==
  /\ w \in Walk
  /\ w.per > 0 /\ Steady(be, w.q) =>
       IF w.pc = "done" THEN ShownOnce(w) ELSE UnderWay(tab, be, w)

WalkInv == walk # Idle => GoodWalk(rows, backend, walk)

(* Every result is what the first lemmas are about. *)
LEMMA ResultFacts ==
  ASSUME NEW tab \in Table, NEW be, NEW q \in Queries, NEW s \in SortedIn(tab, be, q)
  PROVE  /\ s \in Seq(Id) /\ Len(s) = Cardinality(MatchIn(tab, q)) /\ Len(s) \in Nat
         /\ \A k, l \in 1..Len(s) : s[k] = s[l] => k = l
         /\ \A x \in MatchIn(tab, q) : \E k \in 1..Len(s) : s[k] = x
         /\ s \in SetToSeqs(MatchIn(tab, q)) /\ Ordered(OrderIn(tab, be, q), s)
<1>1. s \in SetToSeqs(MatchIn(tab, q)) /\ Ordered(OrderIn(tab, be, q), s)
  BY DEF SortedIn
<1>2. MatchIn(tab, q) \in SUBSET Id /\ IsFiniteSet(MatchIn(tab, q))
  BY MatchFacts
<1>3. /\ s \in Seq(MatchIn(tab, q)) /\ Len(s) = Cardinality(MatchIn(tab, q)) /\ Len(s) \in Nat
      /\ \A k, l \in 1..Len(s) : s[k] = s[l] => k = l
      /\ \A x \in MatchIn(tab, q) : \E k \in 1..Len(s) : s[k] = x
  BY <1>1, <1>2, Enumerates
<1>4. s \in Seq(Id)
  BY <1>2, <1>3
<1> QED
  BY <1>1, <1>3, <1>4

(* A walk begins well. *)
LEMMA OpenWalk ==
  ASSUME TypeOK, NEW q \in Queries, NEW page \in 0..1, NEW per \in PerPage, Open(q, page, per)
  PROVE  GoodWalk(rows, backend, walk')
<1> DEFINE w == [pc |-> "count", q |-> q, page |-> page, per |-> per, total |-> 0,
                 ids |-> MatchIn(rows, q), seen |-> <<>>]
<1>1. walk' = w /\ rows \in Table
  BY InHere DEF Open, TypeOK
<1>2. MatchIn(rows, q) \in SUBSET Id /\ page \in Nat /\ per \in Nat
  BY <1>1, MatchFacts, QueryAssumption
<1>3. w \in Walk
  BY <1>2 DEF Walk
<1>4. Offset(page, per) = 0
  BY <1>2 DEF Offset
<1>5. UnderWay(rows, backend, w)
  <2>1. \A s \in SortedIn(rows, backend, q) : 0 <= Len(s)
    BY <1>1, ResultFacts
  <2>2. Len(<<>>) = 0 /\ 1..0 = {}
    OBVIOUS
  <2> QED
    BY <1>4, <2>1, <2>2 DEF UnderWay
<1> QED
  BY <1>1, <1>3, <1>5 DEF GoodWalk

(* count() counts the rows of the start, too. *)
LEMMA CountWalk ==
  ASSUME TypeOK, GoodWalk(rows, backend, walk), Count
  PROVE  GoodWalk(rows, backend, walk')
<1> DEFINE n == Cardinality(MatchIn(rows, walk.q))
<1>1. walk \in Walk /\ rows \in Table /\ walk.q \in Queries /\ walk.pc = "count"
  BY DEF GoodWalk, TypeOK, Walk, Count
<1>2. walk' = [walk EXCEPT !.pc = "select", !.total = n]
  BY <1>1, InHere, Counted DEF Count
<1>3. n \in Nat /\ IsFiniteSet(MatchIn(rows, walk.q))
  BY <1>1, MatchFacts
<1> HIDE DEF n
<1>4. /\ walk' \in Walk /\ walk'.pc = "select" /\ walk'.total = n /\ walk'.q = walk.q
      /\ walk'.ids = walk.ids /\ walk'.seen = walk.seen /\ walk'.page = walk.page
      /\ walk'.per = walk.per
  BY <1>1, <1>2, <1>3 DEF Walk
<1>5. ASSUME walk.per > 0, Steady(backend, walk.q)
      PROVE  UnderWay(rows, backend, walk')
  <2>1. UnderWay(rows, backend, walk)
    BY <1>1, <1>5 DEF GoodWalk
  <2>2. Cardinality(walk.ids) <= n
    BY <1>3, <2>1, FS_Subset DEF UnderWay, n
  <2> QED
    BY <1>4, <2>1, <2>2 DEF UnderWay, ShownOnce
<1> QED
  BY <1>4, <1>5 DEF GoodWalk

(* The next page begins where this one ends. *)
LEMMA NextOffset ==
  ASSUME NEW page \in Nat, NEW per \in Nat
  PROVE  /\ Offset(page, per) \in Nat
         /\ Offset(IF page = 0 THEN 2 ELSE page + 1, per) = Offset(page, per) + per
         /\ page * per <= Offset(page, per) + per
<1>1. CASE page = 0
  BY <1>1 DEF Offset
<1>2. CASE page # 0
  <2>1. page - 1 \in Nat /\ (page - 1) * per \in Nat /\ (page - 1) * per + per = page * per
    BY <1>2, Grows
  <2>2. Offset(page, per) = (page - 1) * per /\ Offset(page + 1, per) = page * per
    BY <1>2 DEF Offset
  <2> QED
    BY <1>2, <2>1, <2>2
<1> QED
  BY <1>1, <1>2

(* A page's rows go on where the last page's ended, or show nothing again. *)
LEMMA SelectWalk ==
  ASSUME TypeOK, GoodWalk(rows, backend, walk), Select
  PROVE  GoodWalk(rows, backend, walk')
<1> DEFINE w == walk
           q == w.q
           o == Offset(w.page, w.per)
           last == LastPage(w.total, w.per)
           r == [q EXCEPT !.limit = w.per, !.offset = o]
<1>1. w \in Walk /\ rows \in Table /\ q \in Queries /\ w.pc = "select"
  BY DEF GoodWalk, TypeOK, Walk, Select
<1>2. /\ w.page \in Nat /\ w.per \in Nat /\ w.total \in Nat /\ w.ids \in SUBSET Id
      /\ w.seen \in Seq(Id)
  BY <1>1 DEF Walk
<1>3. PICK items \in select(r) :
        walk' = [w EXCEPT !.seen = @ \o items,
                          !.pc = IF w.page < last THEN "count" ELSE "done",
                          !.page = IF @ = 0 THEN 2 ELSE @ + 1]
  BY DEF Select
<1>4. r.limit = w.per /\ r.offset = o /\ Sorted(r) = Sorted(q)
  <2> HIDE DEF o, q, w
  <2>1. q = [wheres |-> q.wheres, order |-> q.order, limit |-> None, offset |-> None]
    BY <1>1, QueryAssumption DEF Q
  <2>2. r.wheres = q.wheres /\ r.order = q.order /\ r.limit = w.per /\ r.offset = o
    BY <2>1
  <2> HIDE DEF r
  <2> QED
    BY <2>2, PageQuery
<1>5. PICK s \in SortedIn(rows, backend, q) : items = Window(s, r)
  BY <1>3, <1>4, InHere DEF select
<1>6. /\ s \in Seq(Id) /\ Len(s) = Cardinality(MatchIn(rows, q)) /\ Len(s) \in Nat
      /\ \A k, l \in 1..Len(s) : s[k] = s[l] => k = l
      /\ \A x \in MatchIn(rows, q) : \E k \in 1..Len(s) : s[k] = x
      /\ s \in SetToSeqs(MatchIn(rows, q)) /\ Ordered(OrderIn(rows, backend, q), s)
  BY <1>1, <1>5, ResultFacts
<1>7. /\ o \in Nat
      /\ Offset(IF w.page = 0 THEN 2 ELSE w.page + 1, w.per) = o + w.per
      /\ w.page * w.per <= o + w.per
  BY <1>2, NextOffset
<1>8. /\ items \in Seq(Id) /\ Len(items) \in Nat /\ Len(items) <= w.per
      /\ \A k \in 1..Len(items) : o + k \in 1..Len(s) /\ items[k] = s[o + k]
      /\ o <= Len(s) => Len(items) = w.per \/ o + Len(items) = Len(s)
  <2> HIDE DEF r, o, q, w
  <2>1. r.limit \in Nat /\ r.offset \in Nat /\ s \in Seq(Id) /\ items = Window(s, r)
    BY <1>2, <1>4, <1>5, <1>6, <1>7
  <2>2. /\ items \in Seq(Id) /\ Len(items) \in Nat /\ Len(items) <= r.limit
        /\ \A k \in 1..Len(items) : r.offset + k \in 1..Len(s) /\ items[k] = s[r.offset + k]
        /\ r.offset <= Len(s) => Len(items) = r.limit \/ r.offset + Len(items) = Len(s)
    BY <2>1, WindowFacts
  <2> QED
    BY <1>4, <2>2
<1>9. /\ walk' \in Walk /\ walk'.q = q /\ walk'.ids = w.ids /\ walk'.per = w.per
      /\ walk'.total = w.total /\ walk'.seen = w.seen \o items
      /\ walk'.pc = (IF w.page < last THEN "count" ELSE "done")
      /\ Offset(walk'.page, w.per) = o + w.per
  <2>1. w.seen \o items \in Seq(Id)
    BY <1>2, <1>8
  <2> HIDE DEF r, o, last
  <2>2. /\ walk'.q = q /\ walk'.ids = w.ids /\ walk'.per = w.per /\ walk'.total = w.total
        /\ walk'.seen = w.seen \o items
        /\ walk'.pc = (IF w.page < last THEN "count" ELSE "done")
        /\ walk'.page = (IF w.page = 0 THEN 2 ELSE w.page + 1)
    BY <1>1, <1>3 DEF Walk
  <2>3. walk'.page \in Nat /\ walk'.pc \in {"count", "select", "done"}
    BY <1>2, <2>2
  <2>4. walk' = [pc |-> walk'.pc, q |-> walk'.q, page |-> walk'.page, per |-> walk'.per,
                 total |-> walk'.total, ids |-> walk'.ids, seen |-> walk'.seen]
    BY <1>1, <1>3 DEF Walk
  <2>5. walk' \in Walk
    BY <1>1, <1>2, <2>1, <2>2, <2>3, <2>4 DEF Walk
  <2> QED
    BY <1>7, <2>2, <2>5
<1>10. /\ Len(w.seen) \in Nat /\ Len(w.seen \o items) = Len(w.seen) + Len(items)
       /\ \A k \in 1..Len(w.seen) : (w.seen \o items)[k] = w.seen[k]
       /\ \A k \in (Len(w.seen) + 1)..(Len(w.seen) + Len(items)) :
            /\ k - Len(w.seen) \in 1..Len(items)
            /\ (w.seen \o items)[k] = items[k - Len(w.seen)]
  BY <1>2, <1>8
<1> HIDE DEF r, o, last
<1>11. ASSUME w.per > 0, Steady(backend, q)
       PROVE  IF walk'.pc = "done" THEN ShownOnce(walk') ELSE UnderWay(rows, backend, walk')
  <2> DEFINE n == Cardinality(w.ids) seen == walk'.seen
  <2>1. UnderWay(rows, backend, w)
    BY <1>1, <1>11 DEF GoodWalk
  <2>2. /\ w.ids \in SUBSET MatchIn(rows, q) /\ n <= w.total
        /\ \A i \in w.ids, j \in MatchIn(rows, q) \ w.ids : <<i, j>> \in OrderIn(rows, backend, q)
    BY <1>1, <2>1 DEF UnderWay
  <2>3. /\ Transitive(OrderIn(rows, backend, q), MatchIn(rows, q))
        /\ Antisymmetric(OrderIn(rows, backend, q), MatchIn(rows, q))
    BY <1>1, <1>11, OrderFacts
  <2>4. IsFiniteSet(MatchIn(rows, q))
    BY <1>1, MatchFacts
  <2>5. n \in Nat /\ n <= Len(s) /\ \A k \in 1..Len(s) : s[k] \in w.ids <=> k <= n
    BY <1>6, <2>2, <2>3, <2>4, FirstPlaces
  <2>6. /\ seen = w.seen \o items /\ Len(seen) = Len(w.seen) + Len(items)
        /\ walk'.ids = w.ids
    BY <1>9, <1>10
  <2> HIDE DEF n, seen, w
  <2>7. CASE n <= o /\ ShownOnce(w)
    <3>1. \A k \in 1..Len(items) : items[k] \notin w.ids
      BY <1>7, <1>8, <2>5, <2>7
    <3>2. ASSUME NEW i \in w.ids
          PROVE  \E k \in 1..Len(seen) : seen[k] = i /\ \A l \in 1..Len(seen) : seen[l] = i => l = k
      <4>1. PICK k \in 1..Len(w.seen) :
              w.seen[k] = i /\ \A l \in 1..Len(w.seen) : w.seen[l] = i => l = k
        BY <2>7 DEF ShownOnce
      <4>2. k \in 1..Len(seen) /\ seen[k] = i
        BY <1>8, <1>10, <2>6, <4>1
      <4>3. ASSUME NEW l \in 1..Len(seen), seen[l] = i
            PROVE  l = k
        <5>1. CASE l \in 1..Len(w.seen)
          BY <1>10, <2>6, <4>1, <4>3, <5>1
        <5>2. CASE l \notin 1..Len(w.seen)
          <6>1. l \in (Len(w.seen) + 1)..(Len(w.seen) + Len(items))
            BY <1>8, <1>10, <2>6, <5>2
          <6> QED
            BY <1>10, <2>6, <3>1, <4>3, <6>1
        <5> QED
          BY <5>1, <5>2
      <4> QED
        BY <4>2, <4>3
    <3>3. ShownOnce(walk')
      <4>1. seen = walk'.seen
        BY DEF seen
      <4> QED
        BY <2>6, <3>2, <4>1 DEF ShownOnce
    <3>4. n <= Offset(walk'.page, walk'.per)
      BY <1>2, <1>7, <1>9, <2>5, <2>7 DEF w
    <3> QED
      BY <1>9, <2>2, <3>3, <3>4 DEF UnderWay, n
  <2>8. CASE /\ Len(w.seen) = o
             /\ \A t \in SortedIn(rows, backend, q) :
                  Len(w.seen) <= Len(t) /\ \A k \in 1..Len(w.seen) : t[k] = w.seen[k]
    <3>1. o <= Len(s) /\ \A k \in 1..o : s[k] = w.seen[k]
      BY <1>5, <2>8
    <3>2. Len(seen) = o + Len(items) /\ Len(seen) \in Nat /\ Len(seen) <= Len(s)
      <4>1. Len(items) = 0 \/ Len(items) \in 1..Len(items)
        BY <1>8
      <4> QED
        BY <1>6, <1>7, <1>8, <2>6, <2>8, <3>1, <4>1
    <3>3. ASSUME NEW k \in 1..Len(seen)
          PROVE  seen[k] = s[k]
      <4>1. CASE k <= o
        <5>1. k \in 1..o
          BY <1>7, <3>2, <4>1
        <5> QED
          BY <1>10, <2>6, <2>8, <3>1, <5>1
      <4>2. CASE ~(k <= o)
        <5>1. k \in (o + 1)..(o + Len(items)) /\ k - o \in 1..Len(items) /\ o + (k - o) = k
          BY <1>7, <1>8, <3>2, <4>2
        <5> QED
          BY <1>8, <1>10, <2>6, <2>8, <5>1
      <4> QED
        BY <4>1, <4>2
    <3>4. ASSUME n <= Len(seen)
          PROVE  ShownOnce(walk')
      <4>1. ASSUME NEW i \in w.ids
            PROVE  \E k \in 1..Len(seen) :
                     seen[k] = i /\ \A l \in 1..Len(seen) : seen[l] = i => l = k
        <5>1. PICK k \in 1..Len(s) : s[k] = i
          BY <1>6, <2>2
        <5>2. k \in 1..Len(seen)
          BY <1>6, <2>5, <3>2, <3>4, <5>1
        <5>3. \A l \in 1..Len(seen) : l \in 1..Len(s)
          BY <1>6, <3>2
        <5> QED
          BY <1>6, <3>3, <5>1, <5>2, <5>3
      <4> QED
        <5>1. seen = walk'.seen
          BY DEF seen
        <5> QED
          BY <2>6, <4>1, <5>1 DEF ShownOnce
    <3>5. CASE walk'.pc = "done"
      <4>1. ~(w.page < last)
        BY <1>9, <3>5 DEF w
      <4>2. w.per \in Nat \ {0} /\ w.page \in Nat /\ w.total \in Nat
        BY <1>2, <1>11 DEF w
      <4>3. w.total <= w.page * w.per
        BY <4>1, <4>2, LastPageFacts DEF last, w
      <4>4. w.page * w.per <= o + w.per /\ w.page * w.per \in Nat
        BY <1>7, <4>2, Grows DEF w
      <4>5. n <= o + w.per
        BY <1>7, <2>2, <2>5, <4>2, <4>3, <4>4 DEF n
      <4>6. Len(items) = w.per \/ o + Len(items) = Len(s)
        BY <1>8, <3>1 DEF w
      <4>7. n <= Len(seen)
        BY <2>5, <3>2, <4>5, <4>6
      <4> QED
        BY <3>4, <3>5, <4>7
    <3>6. CASE walk'.pc # "done"
      <4>1. walk'.pc = "count"
        BY <1>9, <3>6
      <4>2. CASE Len(items) = w.per
        <5>1. Len(seen) = Offset(walk'.page, walk'.per)
          BY <1>9, <3>2, <4>2 DEF w
        <5>2. \A t \in SortedIn(rows, backend, q) :
                Len(seen) <= Len(t) /\ \A k \in 1..Len(seen) : t[k] = seen[k]
          <6> SUFFICES ASSUME NEW t \in SortedIn(rows, backend, q)
                       PROVE  Len(seen) <= Len(t) /\ \A k \in 1..Len(seen) : t[k] = seen[k]
            OBVIOUS
          <6>1. t \in SetToSeqs(MatchIn(rows, q)) /\ Ordered(OrderIn(rows, backend, q), t)
                /\ Len(t) = Len(s)
            BY <1>1, <1>6, ResultFacts
          <6>2. \A k \in 1..Len(s) : t[k] = s[k]
            BY <1>6, <2>3, <2>4, <6>1, BeginsWith
          <6>3. \A k \in 1..Len(seen) : k \in 1..Len(s)
            BY <1>6, <3>2
          <6> QED
            BY <3>2, <3>3, <6>1, <6>2, <6>3
        <5> QED
          BY <1>9, <2>2, <4>1, <5>1, <5>2 DEF UnderWay, seen, w
      <4>3. CASE Len(items) # w.per
        <5>1. Len(seen) = Len(s) /\ Len(s) <= o + w.per
          BY <1>2, <1>7, <1>8, <3>1, <3>2, <4>3 DEF w
        <5>2. ShownOnce(walk') /\ n <= Offset(walk'.page, walk'.per)
          BY <1>2, <1>6, <1>7, <1>9, <2>5, <3>4, <5>1 DEF w
        <5> QED
          BY <1>9, <2>2, <4>1, <5>2 DEF UnderWay, n, w
      <4> QED
        BY <4>2, <4>3
    <3> QED
      BY <3>5, <3>6
  <2> QED
    BY <2>1, <2>7, <2>8 DEF UnderWay, n, o, w
<1> QED
  BY <1>9, <1>11 DEF GoodWalk

(* Rows that are added behind the others disturb no walk by id. *)
LEMMA AppendedWalk ==
  ASSUME NEW tab \in Table, NEW new \in Table, NEW be, NEW w, GoodWalk(tab, be, w),
         NEW top \in 0..MaxId, \A i \in Id : i > top => tab[i] = NoRow,
         \A i \in 1..top : new[i] = tab[i],
         w.q.order \in {None, [column |-> "id", descending |-> FALSE]}
  PROVE  GoodWalk(new, be, w)
<1> DEFINE q == w.q F == MatchIn(tab, q) G == MatchIn(new, q)
           R == OrderIn(tab, be, q)
<1>1. w \in Walk /\ q \in Queries
  BY DEF GoodWalk, Walk
<1>2. q.order = None \/ (q.order.column = "id" /\ ~q.order.descending)
  OBVIOUS
<1>3. OrderIn(new, be, q) = R
  BY <1>2 DEF OrderIn, PrecedesIn, CellIn
<1>4. F \subseteq Id /\ G \subseteq Id /\ \A i \in F : i <= top
  BY DatabaseAssumption DEF MatchIn, Id
<1>5. \A i \in Id : i <= top => (i \in F <=> i \in G)
  <2> SUFFICES ASSUME NEW i \in Id, i <= top
               PROVE  i \in F <=> i \in G
    OBVIOUS
  <2>1. new[i] = tab[i]
    BY DatabaseAssumption DEF Id
  <2>2. \A c : CellIn(new, i, c) = CellIn(tab, i, c)
    BY <2>1 DEF CellIn
  <2> QED
    BY <2>1, <2>2 DEF MatchIn
<1>6. F \subseteq G /\ \A j \in G \ F : j > top
  BY <1>4, <1>5, DatabaseAssumption DEF Id
<1>7. \A i, j \in Id : i < j => <<i, j>> \in R
  BY <1>2 DEF OrderIn, PrecedesIn, CellIn
<1>8. \A i \in F, j \in G \ F : <<i, j>> \in R
  <2>1. \A i \in F, j \in G \ F : i \in Id /\ j \in Id /\ i < j
    BY <1>4, <1>6, DatabaseAssumption DEF Id
  <2> QED
    BY <1>7, <2>1
<1>9. Steady(be, q)
  BY <1>2 DEF Steady
<1> HIDE DEF F, G, R, q
<1>10. ASSUME w.per > 0, w.pc # "done"
       PROVE  UnderWay(new, be, w)
  <2>1. UnderWay(tab, be, w)
    BY <1>9, <1>10 DEF GoodWalk, q
  <2>2. w.ids \subseteq G
    BY <1>6, <2>1 DEF UnderWay, F, G, q
  <2>3. \A i \in w.ids, j \in G \ w.ids : <<i, j>> \in OrderIn(new, be, q)
    <3>1. w.ids \subseteq F /\ \A i \in w.ids, j \in F \ w.ids : <<i, j>> \in R
      BY <2>1 DEF UnderWay, F, R, q
    <3> QED
      BY <1>3, <1>8, <3>1
  <2>4. ASSUME NEW t \in SortedIn(new, be, q),
               \A s \in SortedIn(tab, be, q) :
                 Len(w.seen) <= Len(s) /\ \A k \in 1..Len(w.seen) : s[k] = w.seen[k]
        PROVE  Len(w.seen) <= Len(t) /\ \A k \in 1..Len(w.seen) : t[k] = w.seen[k]
    <3>1. PICK s \in SortedIn(tab, be, q) : TRUE
      BY <1>2, SortedById DEF q
    <3>2. s \in SetToSeqs(F) /\ Ordered(R, s) /\ Len(s) \in Nat
      BY <1>1, <3>1, ResultFacts DEF F, R
    <3>3. t \in SetToSeqs(G) /\ Ordered(R, t) /\ Len(t) \in Nat
      BY <1>1, <1>3, <2>4, ResultFacts DEF G
    <3>4. Transitive(R, G) /\ Antisymmetric(R, G) /\ IsFiniteSet(G)
      BY <1>1, <1>3, <1>9, OrderFacts, MatchFacts DEF G
    <3>5. Len(s) <= Len(t) /\ \A k \in 1..Len(s) : t[k] = s[k]
      BY <1>6, <1>8, <3>2, <3>3, <3>4, BeginsWith
    <3>6. Len(w.seen) \in Nat /\ Len(w.seen) <= Len(s) /\ \A k \in 1..Len(w.seen) : s[k] = w.seen[k]
      BY <1>1, <2>4, <3>1 DEF Walk
    <3>7. \A k \in 1..Len(w.seen) : k \in 1..Len(s)
      BY <3>2, <3>6
    <3> QED
      BY <3>2, <3>3, <3>5, <3>6, <3>7
  <2> QED
    BY <2>1, <2>2, <2>3, <2>4 DEF UnderWay, G, q
<1> QED
  BY <1>1, <1>9, <1>10 DEF GoodWalk, q

(* The reader leaves the connection alone, and it is a Database. *)
LEMMA QueryIsDatabase == QuerySpec => Spec
<1>1. QueryInit => Init
  BY DEF QueryInit
<1>2. [QueryNext]_<<vars, walk>> => [Next]_vars
  BY DEF QueryNext
<1> QED
  BY <1>1, <1>2, PTL DEF QuerySpec, Spec

(* Every step keeps WalkInv. *)
LEMMA WalkStep ==
  ASSUME TypeOK, TypeOK', IdsFresh, WalkInv, [QueryNext]_<<vars, walk>>
  PROVE  WalkInv'
<1>1. CASE UNCHANGED <<vars, walk>>
  BY <1>1 DEF WalkInv, vars
<1>2. CASE Next /\ Meanwhile
  <2>1. backend' = backend
    BY <1>2, BackendFixed
  <2>2. CASE walk' = Idle
    BY <2>2 DEF WalkInv
  <2>3. CASE walk' # Idle
    <3>1. /\ walk' = walk /\ walk # Idle
          /\ \/ rows' = rows
             \/ /\ \A i \in 1..next_id_ : rows'[i] = rows[i]
                /\ walk.q.order \in {None, [column |-> "id", descending |-> FALSE]}
      BY <1>2, <2>3 DEF Meanwhile
    <3>2. GoodWalk(rows, backend, walk)
      BY <3>1 DEF WalkInv
    <3>3. GoodWalk(rows', backend, walk)
      <4>1. CASE rows' = rows
        BY <3>2, <4>1
      <4>2. CASE rows' # rows
        <5>1. rows \in Table /\ rows' \in Table /\ next_id_ \in 0..MaxId
          BY DEF TypeOK
        <5>2. \A i \in Id : i > next_id_ => rows[i] = NoRow
          BY DEF IdsFresh
        <5> QED
          BY <3>1, <3>2, <4>2, <5>1, <5>2, AppendedWalk
      <4> QED
        BY <4>1, <4>2
    <3> QED
      BY <2>1, <3>1, <3>3 DEF WalkInv
  <2> QED
    BY <2>2, <2>3
<1>3. CASE /\ \/ \E q \in Queries, page \in 0..1, per \in PerPage : Open(q, page, per)
              \/ Count \/ Select
           /\ UNCHANGED vars
  <2>1. rows' = rows /\ backend' = backend
    BY <1>3 DEF vars
  <2>2. GoodWalk(rows, backend, walk')
    <3>1. CASE \E q \in Queries, page \in 0..1, per \in PerPage : Open(q, page, per)
      BY <3>1, OpenWalk
    <3>2. CASE Count \/ Select
      <4>1. walk # Idle
        <5>1. walk.pc # "idle"
          BY <3>2 DEF Count, Select
        <5> QED
          BY <5>1 DEF Idle
      <4> QED
        BY <3>2, <4>1, CountWalk, SelectWalk, Zenon DEF WalkInv
    <3> QED
      BY <1>3, <3>1, <3>2
  <2> QED
    BY <2>1, <2>2 DEF WalkInv
<1> QED
  BY <1>1, <1>2, <1>3 DEF QueryNext

(***************************************************************************)
(* WalkComplete, for any queries, page sizes, tables and writers: the      *)
(* pages of paginate() from 1, or from "0", to last_page show each row     *)
(* that was there at the start exactly once, although rows are appended    *)
(* between the calls and every page is sorted anew.                        *)
(***************************************************************************)
THEOREM PagesShowEachRowOnce == QuerySpec => []WalkComplete
<1>1. QueryInit => WalkInv
  BY DEF QueryInit, WalkInv
<1>2. TypeOK /\ TypeOK' /\ IdsFresh /\ WalkInv /\ [QueryNext]_<<vars, walk>> => WalkInv'
  BY WalkStep
<1>3. WalkInv => WalkComplete
  <2> SUFFICES ASSUME WalkInv, walk.pc = "done", walk.per > 0, Steady(backend, walk.q),
                      NEW i \in walk.ids
               PROVE  Cardinality({k \in DOMAIN walk.seen : walk.seen[k] = i}) = 1
    BY DEF WalkComplete, Steady
  <2>1. walk \in Walk /\ ShownOnce(walk)
    BY DEF WalkInv, GoodWalk, Idle
  <2>2. PICK k \in 1..Len(walk.seen) :
          walk.seen[k] = i /\ \A l \in 1..Len(walk.seen) : walk.seen[l] = i => l = k
    BY <2>1 DEF ShownOnce
  <2>3. DOMAIN walk.seen = 1..Len(walk.seen)
    BY <2>1 DEF Walk
  <2>4. {l \in DOMAIN walk.seen : walk.seen[l] = i} = {k}
    BY <2>2, <2>3
  <2> QED
    BY <2>4, FS_Singleton
<1> QED
  BY <1>1, <1>2, <1>3, QueryIsDatabase, DatabaseTypeCorrect, IdsNeverReused, PTL DEF QuerySpec
=============================================================================
