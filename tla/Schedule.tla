------------------------------- MODULE Schedule -------------------------------
(***************************************************************************)
(* The scheduler (include/scheduler.hpp): processes that tick, each by     *)
(* calling run_pending(), over last-run stamps that are kept in a          *)
(* Connection, or in the process's memory.  Time is counted in units of    *)
(* which DayLen make a local day; a tick that runs long sees time pass.    *)
(***************************************************************************)
EXTENDS Naturals, Sequences

CONSTANTS
  Ticker,      \* processes that call run_pending()
  Tasks,       \* tasks_: the sequence of registered tasks
  Interval,    \* every() tasks: the interval in the last argument
  Clock,       \* daily_at() tasks: the hour given, and whether as "HH:MM" or "HH"
  Throwing,      \* the tasks whose fn() always throws
  DayLen,      \* units in a day
  Persist,     \* is there a Connection?
  MaxTime,     \* bound: the last instant that is modelled
  MaxRestarts, \* bound: how often a process dies and is started again
  MaxRefusals  \* bound: how many calls the database refuses

Task == {Tasks[k] : k \in 1..Len(Tasks)}
Every == DOMAIN Interval
Daily == DOMAIN Clock

ASSUME ScheduleAssumption ==
  /\ Tasks \in Seq(Task)
  /\ Every \union Daily = Task /\ Every \intersect Daily = {} /\ Throwing \subseteq Task
  /\ \A t \in Every : Interval[t] \in Nat \ {0}
  /\ DayLen \in Nat \ {0} /\ MaxTime \in Nat /\ MaxTime >= DayLen
  /\ MaxRestarts \in Nat /\ MaxRefusals \in Nat
  /\ \A t \in Daily : Clock[t] \in [hour : 0..(DayLen - 1), colon : BOOLEAN]
  /\ Persist \in BOOLEAN
  /\ ~Persist => \A j, k \in Ticker : j = k   \* memory_ is a process's own

VARIABLES
  time,      \* the wall clock
  last_run,  \* the schedule_runs table, or memory_ (0: no stamp)
  pc,        \* "idle", "check", "record" or "run"
  now,       \* run_pending()'s locals
  at,
  restarts,
  refusals,
  fired_at,  \* history: the tick each task was last run at (0: none)
  shaky      \* history: tasks run, or to run, on a stamp not read or not written

vars == <<time, last_run, pc, now, at, restarts, refusals, fired_at, shaky>>

DayOf(t) == t \div DayLen

(* Time starts on the second day: 0, "no stamp", is long past. *)
Init ==
  /\ time = DayLen
  /\ last_run = [t \in Task |-> 0]
  /\ pc = [k \in Ticker |-> "idle"] /\ now = [k \in Ticker |-> 0] /\ at = [k \in Ticker |-> 1]
  /\ restarts = 0 /\ refusals = 0
  /\ fired_at = [t \in Task |-> 0] /\ shaky = {}

-----------------------------------------------------------------------------
(* Cadences.                                                               *)

(* parse_hhmm(): without a colon nothing is parsed. *)
HourOf(t) == IF Clock[t].colon THEN Clock[t].hour ELSE 0

(* today_at(): the task's time on the day of n. *)
today_at(t, n) == DayOf(n) * DayLen + HourOf(t)

(* The two `due` closures. *)
Due(t, n, last) ==
  IF t \in Every THEN last = 0 \/ n - last >= Interval[t]
  ELSE n >= today_at(t, n) /\ last < today_at(t, n)

-----------------------------------------------------------------------------
(* run_pending().                                                          *)

Tick(k) ==
  /\ pc[k] = "idle"
  /\ pc' = [pc EXCEPT ![k] = "check"]
  /\ now' = [now EXCEPT ![k] = time]
  /\ at' = [at EXCEPT ![k] = 1]
  /\ UNCHANGED <<time, last_run, restarts, refusals, fired_at, shaky>>

TaskOf(k) == Tasks[at[k]]

Goto(k, to, place) == pc' = [pc EXCEPT ![k] = to] /\ at' = [at EXCEPT ![k] = place]

Refusing == Persist /\ refusals < MaxRefusals /\ refusals' = refusals + 1

Decide(k, due) == IF due THEN Goto(k, "record", at[k]) ELSE Goto(k, "check", at[k] + 1)

(* last_run() of the next task: is it due? *)
Check(k) ==
  /\ pc[k] = "check" /\ at[k] <= Len(Tasks)
  /\ Decide(k, Due(TaskOf(k), now[k], last_run[TaskOf(k)]))
  /\ UNCHANGED <<time, last_run, now, restarts, refusals, fired_at, shaky>>

(* Its select() is refused, and finds no stamp. *)
CheckBlind(k) ==
  /\ pc[k] = "check" /\ at[k] <= Len(Tasks)
  /\ Refusing
  /\ LET due == Due(TaskOf(k), now[k], 0) IN
       /\ Decide(k, due)
       /\ shaky' = IF due THEN shaky \union {TaskOf(k)} ELSE shaky
  /\ UNCHANGED <<time, last_run, now, restarts, fired_at>>

(* Mutant: the stamp is not written. *)
MutRecord(k) ==
  /\ pc[k] = "record"
  /\ Goto(k, "run", at[k])
  /\ UNCHANGED <<time, last_run, now, restarts, refusals, fired_at, shaky>>

(* record_run(), before the task. *)
Record(k) ==
  /\ pc[k] = "record"
  /\ last_run' = [last_run EXCEPT ![TaskOf(k)] = now[k]]
  /\ Goto(k, "run", at[k])
  /\ UNCHANGED <<time, now, restarts, refusals, fired_at, shaky>>

(* The row is there: its update() is refused, and nobody looks; or select() *)
(* is, and insert() adds a row behind it that nobody reads.  The task runs, *)
(* and its stamp is the old one.                                           *)
RecordLost(k) ==
  /\ pc[k] = "record" /\ last_run[TaskOf(k)] # 0
  /\ Refusing
  /\ Goto(k, "run", at[k])
  /\ shaky' = shaky \union {TaskOf(k)}
  /\ UNCHANGED <<time, last_run, now, restarts, fired_at>>

(* insert() is refused, the row not there or not found: it throws out of   *)
(* run_pending().                                                          *)
RecordThrows(k) ==
  /\ pc[k] = "record"
  /\ Refusing
  /\ Goto(k, "idle", 1)
  /\ UNCHANGED <<time, last_run, now, restarts, fired_at, shaky>>

(* fn() returns, or throws out of run_pending(). *)
Run(k) ==
  /\ pc[k] = "run"
  /\ fired_at' = [fired_at EXCEPT ![TaskOf(k)] = now[k]]
  /\ shaky' = IF last_run[TaskOf(k)] = now[k] THEN shaky \ {TaskOf(k)} ELSE shaky
  /\ IF TaskOf(k) \in Throwing THEN Goto(k, "idle", 1) ELSE Goto(k, "check", at[k] + 1)
  /\ UNCHANGED <<time, last_run, now, restarts, refusals>>

(* run_pending() returns. *)
Finish(k) ==
  /\ pc[k] = "check" /\ at[k] = Len(Tasks) + 1
  /\ Goto(k, "idle", 1)
  /\ UNCHANGED <<time, last_run, now, restarts, refusals, fired_at, shaky>>

-----------------------------------------------------------------------------
(* The world.                                                              *)

Pass ==
  /\ time < MaxTime
  /\ time' = time + 1
  /\ UNCHANGED <<last_run, pc, now, at, restarts, refusals, fired_at, shaky>>

(* A process dies, wherever it is, and starts again; memory_ goes with it. *)
Restart(k) ==
  /\ restarts < MaxRestarts
  /\ restarts' = restarts + 1
  /\ last_run' = IF Persist THEN last_run ELSE [t \in Task |-> 0]
  /\ Goto(k, "idle", 1)
  /\ UNCHANGED <<time, now, refusals, fired_at, shaky>>
===============================================================================
