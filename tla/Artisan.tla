------------------------------- MODULE Artisan -------------------------------
(***************************************************************************)
(* The commands of examples/blog/artisan.cpp that keep state: an operator  *)
(* and cron start one process after the other; each boots the application, *)
(* which migrates the database, and then migrates back, or ticks the       *)
(* schedule, whose stamps are in a table of one of the migrations.  With   *)
(* SQLite the database is a file ($LIPP_DB), which a server or a worker    *)
(* may lock for a moment; with MemoryConnection it goes with the process.  *)
(***************************************************************************)
EXTENDS Schedule, FiniteSets

CONSTANTS
  Count, Parts, MaxCalls,   \* of Migrator
  QueueTables               \* the migration whose last table is schedule_runs

ASSUME ArtisanAssumption ==
  /\ Count \in Nat /\ MaxCalls \in Nat /\ QueueTables \in 1..Count
  /\ Parts \in [1..Count -> Nat \ {0}]

VARIABLES
  cmd, step,    \* the command that runs ("none"), and where it is
  backend, applied, schema, op, place, stage, done, calls, blind

M == INSTANCE Migrator WITH at <- place, deaths <- restarts, MaxDeaths <- MaxRestarts

migration == <<backend, applied, schema, op, place, stage, done, calls, blind>>
ticking == <<last_run, pc, now, at, fired_at, shaky>>
artisanvars == <<vars, migration, cmd, step>>

ArtisanInit == Init /\ M!Init /\ cmd = "none" /\ step = "none"

NoStamps ==
  /\ last_run' = [t \in Task |-> 0]
  /\ fired_at' = [t \in Task |-> 0] /\ shaky' = {}

(* A process starts, with the file or with an empty MemoryConnection. *)
Launch(c) ==
  /\ cmd = "none" /\ calls < MaxCalls
  /\ cmd' = c /\ step' = "boot"
  /\ IF backend = "memory" THEN applied' = {} /\ NoStamps
                           ELSE UNCHANGED <<applied, last_run, fired_at, shaky>>
  /\ UNCHANGED <<time, pc, now, at, restarts, refusals>>
  /\ UNCHANGED <<backend, schema, op, place, stage, done, calls, blind>>

Exit == cmd' = "none" /\ step' = "none"

(* bootstrap(): DatabaseServiceProvider::boot() *)
Boot == step = "boot" /\ M!run /\ step' = "migrate" /\ UNCHANGED <<cmd, time, ticking>>

(* The command proper. *)
Body ==
  /\ step = "body"
  /\ \/ cmd = "migrate" /\ Exit /\ UNCHANGED <<vars, migration>>
     \/ cmd = "migrate:rollback" /\ M!rollback /\ step' = "roll_back" /\ UNCHANGED <<cmd, time, ticking>>
     \/ cmd = "schedule:run" /\ step' = "tick" /\ (\E k \in Ticker : Tick(k)) /\ UNCHANGED <<cmd, migration>>

(* The statement at hand drops schedule_runs, and the stamps with it. *)
DropsStamps == op = "rollback" /\ backend = "sqlite" /\ place = QueueTables /\ done + 1 = Parts[place]

(* The migrator's steps; an exception ends the command. *)
Migrating ==
  /\ step \in {"migrate", "roll_back"}
  /\ \/ /\ M!ensure_table \/ M!LookRight \/ M!LookBlind \/ M!Record \/ M!Forget
        /\ UNCHANGED <<ticking, step, cmd>>
     \/ /\ M!Statement
        /\ IF DropsStamps THEN NoStamps ELSE UNCHANGED <<last_run, fired_at, shaky>>
        /\ UNCHANGED <<pc, now, at, step, cmd>>
     \/ /\ M!Finish
        /\ IF step = "migrate" THEN step' = "body" /\ UNCHANGED cmd ELSE Exit
        /\ UNCHANGED ticking
     \/ (M!Throws \/ M!Refused) /\ Exit /\ UNCHANGED ticking
  /\ UNCHANGED time

(* Without its table select() finds nothing, and insert() throws. *)
TableMissing == backend = "sqlite" /\ Parts[QueueTables] \notin schema[QueueTables]

Ticking(k) ==
  /\ step = "tick"
  /\ \/ Check(k) \/ Run(k) \/ Finish(k)
     \/ ~TableMissing /\ Record(k)
     \/ /\ TableMissing /\ pc[k] = "record"
        /\ Goto(k, "idle", 1)
        /\ UNCHANGED <<time, last_run, now, restarts, refusals, fired_at, shaky>>
     \/ backend = "sqlite" /\ (CheckBlind(k) \/ RecordLost(k) \/ RecordThrows(k))
  /\ IF pc'[k] = "idle" THEN Exit ELSE UNCHANGED <<cmd, step>>
  /\ UNCHANGED migration

(* The process dies (external). *)
Die ==
  /\ \/ M!Die /\ UNCHANGED <<time, ticking>>
     \/ step = "tick" /\ (\E k \in Ticker : pc[k] # "idle" /\ Restart(k)) /\ UNCHANGED migration
  /\ Exit

ArtisanNext ==
  \/ \E c \in {"migrate", "migrate:rollback", "schedule:run"} : Launch(c)
  \/ Boot \/ Body \/ Migrating \/ Die
  \/ \E k \in Ticker : Ticking(k)
  \/ Pass /\ UNCHANGED <<migration, cmd, step>>

ArtisanSpec == ArtisanInit /\ [][ArtisanNext]_artisanvars

-----------------------------------------------------------------------------
(* Correctness.                                                            *)

(* The tick at which task t was run, when this step runs it. *)
Fires(k, t) == pc[k] = "run" /\ pc'[k] # "run" /\ TaskOf(k) = t /\ restarts' = restarts

(* The cadences, across processes that die wherever in a tick and calls    *)
(* that SQLite refuses, as long as the stamps are not lost (to             *)
(* migrate:rollback, or with MemoryConnection).  every(): two runs, even   *)
(* of a task that throws, are an interval apart; daily_at(): "due once per *)
(* LOCAL day, at the first tick at or after HH:MM": no two runs are on one *)
(* day.  Only a run whose stamp could not be read, or not be written for   *)
(* the run before it, may come too early, and a daily one even then not    *)
(* before its time.  And when a tick has ended, unless a stamp's insert()  *)
(* threw it out, every daily task whose time had come has run that day, or *)
(* is behind a task that threw, or a process has died before.              *)
CadenceKept ==
  [][\A k \in Ticker :
       /\ \A t \in Task : Fires(k, t) =>
            /\ t \in Daily /\ Clock[t].colon => now[k] % DayLen >= Clock[t].hour
            /\ t \notin shaky /\ fired_at[t] # 0 =>
                 /\ t \in Every => now[k] >= fired_at[t] + Interval[t]
                 /\ t \in Daily => DayOf(fired_at[t]) # DayOf(now[k])
       /\ pc[k] \in {"check", "run"} /\ pc'[k] = "idle" /\ restarts' = 0 =>
            \A i \in 1..Len(Tasks) : LET t == Tasks[i] IN
              t \in Daily /\ now[k] >= today_at(t, now[k]) /\ i <= at[k]
                => DayOf(fired_at'[t]) = DayOf(now[k])]_artisanvars

(* "run() is idempotent" and "safe on every boot": over any sequence of    *)
(* commands the migrations table is a prefix of the list, unless a         *)
(* rollback could not read it; on SQLite each death and each refused call  *)
(* leaves at most one migration half done, or done and not recorded, and   *)
(* nothing else does but the one under way; and until the first of them no *)
(* boot fails on a table that is already there, and a command that has     *)
(* booted has its tables.                                                  *)
MigrationsAgree ==
  /\ ~blind => \A m \in applied : \A l \in 1..Count : l < m => l \in applied
  /\ backend = "sqlite" =>
       Cardinality(M!Torn) <= restarts + refusals + (IF stage = "change" THEN 1 ELSE 0)
  /\ restarts + refusals = 0 => /\ M!Changing => ~M!Exists
                                /\ step \in {"body", "tick"} => ~TableMissing
===============================================================================
