------------------------------- MODULE Database -------------------------------
(***************************************************************************)
(* A Connection shared by threads (include/database.hpp): one table of     *)
(* MemoryConnection (src/database.cpp) or SqliteConnection                 *)
(* (src/sqlite_connection.cpp), and the transaction() helper.  Each method *)
(* holds the connection's mutex, so it is one step; a transaction is       *)
(* several, and belongs to the connection, not to the thread that began    *)
(* it.                                                                     *)
(***************************************************************************)
EXTENDS Integers

CONSTANTS
  Thread,       \* threads that call transaction()
  Writer,       \* threads that write without a transaction
  Val,          \* what a row holds, its id apart
  MaxId,        \* bound: the rows that are ever inserted
  CommitFails,  \* may COMMIT be refused (SQLite: another process reads)?
  NoRow, None

ASSUME DatabaseAssumption ==
  /\ CommitFails \in BOOLEAN
  /\ MaxId \in Nat /\ NoRow \notin Val
  /\ Thread \intersect Writer = {}

Id == 1..MaxId
Table == [Id -> Val \union {NoRow}]

ASSUME NoneAssumption == None \notin [rows : Table, next : 0..MaxId]

VARIABLES
  backend,    \* "memory" or "sqlite": the connection the application was given
  rows,       \* the table of tables_, by id
  next_id_,   \* next_id_
  snapshot_,  \* what a rollback goes back to (None: no open transaction)
  pc,         \* "out" of transaction(), "fn" (inside it) or "thrown"
  before,     \* history: the store when the thread's transaction began
  since,      \* history: what other threads' transactions did since the thread's began
  refused     \* history: has a COMMIT been refused?

store == <<rows, next_id_>>
vars  == <<backend, rows, next_id_, snapshot_, pc, before, since, refused>>

Store == [rows : Table, next : 0..MaxId]
Now   == [rows |-> rows, next |-> next_id_]

TypeOK ==
  /\ backend \in {"memory", "sqlite"} /\ refused \in BOOLEAN
  /\ rows \in Table /\ next_id_ \in 0..MaxId
  /\ snapshot_ \in Store \union {None}
  /\ pc \in [Thread -> {"out", "fn", "thrown"}]
  /\ before \in [Thread -> Store \union {None}]
  /\ since \in [Thread -> SUBSET {"begun", "ended"}]

Init ==
  /\ backend \in {"memory", "sqlite"} /\ refused = FALSE
  /\ rows = [i \in Id |-> NoRow] /\ next_id_ = 0
  /\ snapshot_ = None
  /\ pc = [t \in Thread |-> "out"] /\ before = [t \in Thread |-> None]
  /\ since = [t \in Thread |-> {}]

-----------------------------------------------------------------------------
(* The writing methods.                                                    *)

insert(v) ==
  /\ next_id_ < MaxId
  /\ next_id_' = next_id_ + 1
  /\ rows' = [rows EXCEPT ![next_id_ + 1] = v]

(* update() and update_if() when its guard holds. *)
update(i, v) == rows[i] # NoRow /\ rows' = [rows EXCEPT ![i] = v] /\ UNCHANGED next_id_

remove(i) == rows[i] # NoRow /\ rows' = [rows EXCEPT ![i] = NoRow] /\ UNCHANGED next_id_

Write ==
  /\ \E v \in Val : insert(v) \/ \E i \in Id : update(i, v) \/ remove(i)
  /\ UNCHANGED <<snapshot_, pc, before, since, backend, refused>>

(* A statement on its own, and one inside fn(). *)
PlainWrite(w) == w \in Writer /\ Write
FnWrites(t) == pc[t] = "fn" /\ Write

-----------------------------------------------------------------------------
(* transaction().                                                          *)

(* History: thread t's transaction begins or ends. *)
Seen(t, what) ==
  since' = [u \in Thread |-> IF u = t \/ pc[u] = "out" THEN {} ELSE since[u] \union {what}]

(* begin(): MemoryConnection takes a snapshot over whatever snapshot there *)
(* is; SQLite refuses a second BEGIN, and the exception leaves             *)
(* transaction() before fn() runs.                                         *)
Begin(t) ==
  /\ pc[t] = "out"
  /\ backend = "sqlite" => snapshot_ = None
  /\ snapshot_' = Now
  /\ pc' = [pc EXCEPT ![t] = "fn"]
  /\ before' = [before EXCEPT ![t] = Now]
  /\ Seen(t, "begun")
  /\ UNCHANGED <<store, backend, refused>>

(* fn() throws. *)
FnThrows(t) ==
  /\ pc[t] = "fn"
  /\ pc' = [pc EXCEPT ![t] = "thrown"]
  /\ UNCHANGED <<store, snapshot_, before, since, backend, refused>>

Leave(t) ==
  /\ pc' = [pc EXCEPT ![t] = "out"]
  /\ before' = [before EXCEPT ![t] = None]
  /\ Seen(t, "ended")
  /\ UNCHANGED backend

(* Mutant: commit() forgets to drop the snapshot. *)
MutCommitKeepsSnapshot(t) ==
  /\ pc[t] = "fn"
  /\ Leave(t)
  /\ UNCHANGED <<store, snapshot_, refused>>

(* commit() *)
Commit(t) ==
  /\ pc[t] = "fn"
  /\ snapshot_' = None
  /\ Leave(t)
  /\ UNCHANGED <<store, refused>>

(* COMMIT is refused: statement() throws, outside transaction()'s try, and *)
(* the transaction is still open.                                          *)
CommitThrows(t) ==
  /\ CommitFails /\ backend = "sqlite"
  /\ pc[t] = "fn"
  /\ Leave(t)
  /\ refused' = TRUE
  /\ UNCHANGED <<store, snapshot_>>

(* Mutant: the rows stay and only the counter goes back. *)
MutRestoreIds == next_id_' = snapshot_.next /\ UNCHANGED rows

(* Mutant: the rows go back and the counter, too, but the snapshot stays. *)
MutRollbackKeepsSnapshot(t) ==
  /\ pc[t] = "thrown"
  /\ rows' = snapshot_.rows /\ next_id_' = snapshot_.next /\ UNCHANGED <<snapshot_, refused>>
  /\ Leave(t)

Restore == rows' = snapshot_.rows /\ next_id_' = snapshot_.next

(* rollback(): nothing to do without a snapshot. *)
Rollback(t) ==
  /\ pc[t] = "thrown"
  /\ IF snapshot_ = None THEN UNCHANGED store ELSE Restore
  /\ snapshot_' = None
  /\ Leave(t)
  /\ UNCHANGED refused

Next ==
  \/ \E t \in Thread : Begin(t) \/ FnWrites(t) \/ FnThrows(t) \/ Commit(t)
                       \/ CommitThrows(t) \/ Rollback(t)
  \/ \E w \in Writer : PlainWrite(w)

Spec == Init /\ [][Next]_vars

-----------------------------------------------------------------------------
(* Correctness.                                                            *)

(* An id names one row: insert() never hands out the id of a row that is   *)
(* in the table, although rollbacks, of this thread or of another, take    *)
(* the counter back.                                                       *)
IdsFresh ==
  /\ \A i \in Id : i > next_id_ => rows[i] = NoRow
  /\ snapshot_ # None => \A i \in Id : i > snapshot_.next => snapshot_.rows[i] = NoRow

(* transaction() "roll[s] back (and rethrow) when it throws", and no more  *)
(* than that, on either back end: the store is what it was when the        *)
(* transaction began, plain writes of other threads undone with its own,   *)
(* if no other transaction began or ended in between; and however          *)
(* transactions overlap on MemoryConnection, which keeps one snapshot for  *)
(* all of them, nothing is undone that was there when one of them ended:   *)
(* no commit is taken back.                                                *)
RollbackRestores ==
  [][\A t \in Thread : pc[t] = "thrown" /\ pc'[t] = "out" =>
       /\ since[t] = {} => Now' = before[t]
       /\ Now' # Now => \E u \in Thread : pc[u] # "out" /\ "ended" \notin since[u] /\ Now' = before[u]]_vars

(* "commit on normal return, roll back (and rethrow) when it throws": when *)
(* no thread is inside transaction() no transaction is open, if no COMMIT  *)
(* has been refused.                                                       *)
NoneLeftOpen == (\A t \in Thread : pc[t] = "out") /\ ~refused => snapshot_ = None
===============================================================================
