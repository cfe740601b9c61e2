------------------------------- MODULE Migrator -------------------------------
(***************************************************************************)
(* The migrator (include/migration.hpp): run() applies the migrations that *)
(* the `migrations` table does not name, rollback() takes them back in     *)
(* reverse order.  A migration is one or several statements, each of which *)
(* makes, or drops, a table; no transaction holds them and the record of   *)
(* them together.  SQLite may refuse any call, because another process has *)
(* locked the file, and the process may die between any two of them.       *)
(***************************************************************************)
EXTENDS Naturals, FiniteSets

CONSTANTS
  Count,        \* the migrations are 1..Count, in order
  Parts,        \* how many tables each makes
  MaxCalls,     \* bound: how often run() and rollback() are called
  MaxDeaths,    \* bound: how often the process dies
  MaxRefusals   \* bound: how many calls SQLite refuses

VARIABLES
  backend,   \* "sqlite", or "memory" (statement() does nothing)
  applied,   \* the names in the `migrations` table
  schema,    \* for each migration, which of its tables there are
  op,        \* "idle", "run" or "rollback"
  at,        \* the migration the loop is at
  stage,     \* "ensure" (the table), "look" (is it applied?) or "change"
  done,      \* statements of its up() or down() that have returned
  calls, deaths, refusals,
  blind      \* history: has a rollback passed a migration it could not read?

vars == <<backend, applied, schema, op, at, stage, done, calls, deaths, refusals, blind>>

Migration == 1..Count
Tables(m) == 1..Parts[m]

Init ==
  /\ backend \in {"sqlite", "memory"}
  /\ applied = {} /\ schema = [m \in Migration |-> {}]
  /\ op = "idle" /\ at = 0 /\ stage = "ensure" /\ done = 0
  /\ calls = 0 /\ deaths = 0 /\ refusals = 0 /\ blind = FALSE

-----------------------------------------------------------------------------
Start(which, first) ==
  /\ op = "idle" /\ calls < MaxCalls
  /\ op' = which /\ at' = first /\ calls' = calls + 1
  /\ UNCHANGED <<backend, applied, schema, stage, done, deaths, refusals, blind>>

run == Start("run", 1)

rollback == Start("rollback", Count)

(* CREATE TABLE IF NOT EXISTS migrations. *)
ensure_table ==
  /\ op # "idle" /\ stage = "ensure"
  /\ stage' = "look"
  /\ UNCHANGED <<backend, applied, schema, op, at, done, calls, deaths, refusals, blind>>

Refusable == backend = "sqlite" /\ refusals < MaxRefusals

Following == IF op = "run" THEN at + 1 ELSE at - 1

(* applied(): a select() that is refused finds nothing.  Then `continue`,  *)
(* or up() or down() is entered.                                           *)
Look(seen) ==
  /\ op # "idle" /\ stage = "look" /\ at \in Migration
  /\ IF (op = "run") = seen THEN at' = Following /\ UNCHANGED stage
                            ELSE stage' = "change" /\ UNCHANGED at
  /\ UNCHANGED <<backend, applied, schema, op, done, calls, deaths>>

LookRight == Look(at \in applied) /\ UNCHANGED <<refusals, blind>>

LookBlind ==
  /\ Refusable /\ Look(FALSE)
  /\ refusals' = refusals + 1
  /\ blind' = (blind \/ op = "rollback")

(* The next statement of up() or down(). *)
Changing == op # "idle" /\ stage = "change" /\ done < Parts[at]

(* Schema::create() is a CREATE TABLE without IF NOT EXISTS: SQLite fails   *)
(* it for a table that is there already.                                   *)
Exists == op = "run" /\ backend = "sqlite" /\ done + 1 \in schema[at]

Statement ==
  /\ Changing /\ ~Exists
  /\ schema' = IF backend = "memory" THEN schema
               ELSE [schema EXCEPT ![at] = IF op = "run" THEN @ \union {done + 1} ELSE @ \ {done + 1}]
  /\ done' = done + 1
  /\ UNCHANGED <<backend, applied, op, at, stage, calls, deaths, refusals, blind>>

(* An exception leaves run() or rollback(), and takes the command with it. *)
Abandon == op' = "idle" /\ at' = 0 /\ stage' = "ensure" /\ done' = 0

Throws ==
  /\ Changing /\ Exists
  /\ Abandon
  /\ UNCHANGED <<backend, applied, schema, calls, deaths, refusals, blind>>

(* SQLite refuses ensure_table(), a statement of up() or down(), record()  *)
(* or forget(): statement() and insert() throw.                            *)
Refused ==
  /\ Refusable /\ op # "idle" /\ stage \in {"ensure", "change"}
  /\ refusals' = refusals + 1
  /\ Abandon
  /\ UNCHANGED <<backend, applied, schema, calls, deaths, blind>>

(* up() or down() has returned. *)
Changed == stage = "change" /\ done = Parts[at]
Onward == at' = Following /\ stage' = "look" /\ done' = 0

(* record() *)
Record ==
  /\ op = "run" /\ Changed
  /\ applied' = applied \union {at}
  /\ Onward
  /\ UNCHANGED <<backend, schema, op, calls, deaths, refusals, blind>>

(* Mutant: the bookkeeping is left to the next run. *)
MutForget ==
  /\ op = "rollback" /\ Changed
  /\ Onward
  /\ UNCHANGED <<backend, applied, schema, op, calls, deaths, refusals, blind>>

(* forget(), a raw DELETE: MemoryConnection::statement() does nothing. *)
Forget ==
  /\ op = "rollback" /\ Changed
  /\ applied' = IF backend = "sqlite" THEN applied \ {at} ELSE applied
  /\ Onward
  /\ UNCHANGED <<backend, schema, op, calls, deaths, refusals, blind>>

Finish ==
  /\ op # "idle" /\ stage = "look" /\ at \notin Migration
  /\ Abandon
  /\ UNCHANGED <<backend, applied, schema, calls, deaths, refusals, blind>>

(* The process dies (external). *)
Die ==
  /\ op # "idle" /\ deaths < MaxDeaths
  /\ deaths' = deaths + 1
  /\ Abandon
  /\ UNCHANGED <<backend, applied, schema, calls, refusals, blind>>

-----------------------------------------------------------------------------
(* The migrations whose tables are not what the table `migrations` says. *)
Torn == {m \in Migration : schema[m] # IF m \in applied THEN Tables(m) ELSE {}}
===============================================================================
