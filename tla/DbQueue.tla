------------------------------- MODULE DbQueue -------------------------------
(***************************************************************************)
(* The database queue driver (include/db_queue.hpp): rows of the jobs and  *)
(* failed_jobs tables, and any number of workers, threads or processes on  *)
(* one database, each making passes of DbQueue::work().                    *)
(*                                                                         *)
(* A pass reads the clock once, reads the jobs table once, and then walks  *)
(* that copy; every decision of the pass uses those two old readings.  The *)
(* only synchronisation is Connection::update_if, a compare-and-set of the *)
(* row's reserved_at.  Every call on the Connection is one atomic step     *)
(* (MemoryConnection holds its mutex, SQLite runs one statement); anything *)
(* may happen between two calls.                                           *)
(***************************************************************************)
EXTENDS Naturals

CONSTANTS
  Worker,        \* the threads or processes that call work()
  MaxJobs,       \* bound: how many jobs are ever pushed
  JobName,       \* values of the job column
  Handlers,      \* the names a handler is registered for
  Delays,        \* the delays push() is called with, in seconds
  MaxAttempts,   \* DbQueue::max_attempts_
  RetryBackoff,  \* DbQueue::retry_backoff_
  RetryAfter,    \* DbQueue::retry_after_
  MaxPass,       \* bound: the longest a pass of work() may last, in seconds
  MaxClock,      \* bound: the last second that is modelled
  MaxFaults,     \* bound: how many workers die and how many writes are refused
  NoRow          \* "there is no such row"

ASSUME QueueAssumption ==
  /\ MaxJobs \in Nat /\ Handlers \subseteq JobName /\ Delays \subseteq Nat
  /\ MaxAttempts \in Nat \ {0} /\ RetryBackoff \in Nat
  /\ RetryAfter \in Nat \ {0}
  /\ MaxPass \in Nat /\ MaxClock \in Nat \ {0} /\ MaxFaults \in Nat

Job == 1..MaxJobs

Row == [job : JobName, attempts : Nat, available_at : Nat, reserved_at : Nat]

ASSUME NoRowAssumption == NoRow \notin Row

VARIABLES
  clock,      \* the wall clock
  jobs,       \* the jobs table, by id
  failed_jobs,\* the failed_jobs table: how many records each job has there
  pushed,     \* ids handed out so far (the table's next_id)
  pc,         \* where each worker is in work()
  now,        \* work()'s local `now`
  snap,       \* the rows of the pass that are still to be walked
  cur,        \* the id of the row being walked (0: none)
  faults,    \* workers that died and writes that were refused so far
  failures,   \* history: how many times each job's handler has thrown
  ended       \* history: the ways each job has been seen to end

table   == <<jobs, failed_jobs, pushed>>
pass    == <<pc, now, snap, cur>>
history == <<failures, ended>>
vars    == <<clock, jobs, failed_jobs, pushed, pc, now, snap, cur, faults,
             failures, ended>>

PC == {"idle", "read", "scan", "run", "ack"}

TypeOK ==
  /\ clock \in Nat \ {0}
  /\ jobs \in [Job -> Row \union {NoRow}]
  /\ failed_jobs \in [Job -> Nat]
  /\ pushed \in 0..MaxJobs
  /\ pc \in [Worker -> PC]
  /\ now \in [Worker -> Nat]
  /\ snap \in [Worker -> [Job -> Row \union {NoRow}]]
  /\ cur \in [Worker -> 0..MaxJobs]
  /\ faults \in Nat
  /\ failures \in [Job -> Nat]
  /\ ended \in [Job -> SUBSET {"done", "buried", "dropped"}]

Empty == [j \in Job |-> NoRow]

Init ==
  /\ clock = 1
  /\ jobs = Empty /\ failed_jobs = [j \in Job |-> 0] /\ pushed = 0
  /\ pc = [w \in Worker |-> "idle"] /\ now = [w \in Worker |-> 0]
  /\ snap = [w \in Worker |-> Empty] /\ cur = [w \in Worker |-> 0]
  /\ faults = 0
  /\ failures = [j \in Job |-> 0] /\ ended = [j \in Job |-> {}]

-----------------------------------------------------------------------------
(* The clock.  A second passes only while no pass outlives MaxPass.        *)

Tick ==
  /\ clock < MaxClock
  /\ \A w \in Worker : pc[w] # "idle" => clock + 1 <= now[w] + MaxPass
  /\ clock' = clock + 1
  /\ UNCHANGED <<table, pass, faults, history>>

-----------------------------------------------------------------------------
(* Callers.                                                                *)

push(name, delay) ==
  /\ pushed < MaxJobs
  /\ delay > 0 => clock + delay <= MaxClock
  /\ pushed' = pushed + 1
  /\ jobs' = [jobs EXCEPT ![pushed + 1] =
       [job |-> name, attempts |-> 0,
        available_at |-> IF delay > 0 THEN clock + delay ELSE 0,
        reserved_at |-> 0]]
  /\ UNCHANGED <<clock, failed_jobs, pass, faults, history>>

-----------------------------------------------------------------------------
(* A worker's pass.                                                        *)

(* work() reads the clock ... *)
Begin(w) ==
  /\ pc[w] = "idle"
  /\ pc' = [pc EXCEPT ![w] = "read"]
  /\ now' = [now EXCEPT ![w] = clock]
  /\ UNCHANGED <<clock, table, snap, cur, faults, history>>

(* ... and then the whole table. *)
Fetch(w) ==
  /\ pc[w] = "read"
  /\ pc' = [pc EXCEPT ![w] = "scan"]
  /\ snap' = [snap EXCEPT ![w] = jobs]
  /\ UNCHANGED <<clock, table, now, cur, faults, history>>

(* j is the row the loop of worker w is at: rows come in id order. *)
IsNext(w, j) ==
  /\ snap[w][j] # NoRow
  /\ \A k \in Job : k < j => snap[w][k] = NoRow

(* Mutant: the claim of a worker that died is never taken over. *)
MutDueNeverReclaims(row, t) == row.available_at <= t /\ row.reserved_at = 0

(* The two early `continue`s, on the pass's own copy of the row. *)
Due(row, t) ==
  /\ row.available_at <= t
  /\ row.reserved_at = 0 \/ t >= row.reserved_at + RetryAfter

(* Mutant: a plain update, no compare. *)
MutClaimUnchecked(w, j) == jobs[j] # NoRow

(* Connection::update_if finds the row with the reserved_at observed. *)
ClaimWins(w, j) ==
  /\ jobs[j] # NoRow
  /\ jobs[j].reserved_at = snap[w][j].reserved_at

(* The loop is done with row j. *)
Advance(w, j) ==
  /\ pc' = [pc EXCEPT ![w] = "scan"]
  /\ snap' = [snap EXCEPT ![w][j] = NoRow]
  /\ cur' = [cur EXCEPT ![w] = 0]
  /\ UNCHANGED now

(* A row that is delayed, held by another worker, or lost to one. *)
Skip(w) ==
  /\ pc[w] = "scan"
  /\ \E j \in Job :
       /\ IsNext(w, j)
       /\ ~Due(snap[w][j], now[w]) \/ ~ClaimWins(w, j)
       /\ Advance(w, j)
  /\ UNCHANGED <<clock, table, faults, history>>

(* The stamp a claim leaves: the time the pass began. *)
Stamp(w) == now[w]

(* The claim writes the pass's copy of the row back, stamped with `now`. *)
Claim(w) ==
  /\ pc[w] = "scan"
  /\ \E j \in Job :
       /\ IsNext(w, j)
       /\ Due(snap[w][j], now[w])
       /\ ClaimWins(w, j)
       /\ jobs' = [jobs EXCEPT ![j] = [snap[w][j] EXCEPT !.reserved_at = Stamp(w)]]
       /\ cur' = [cur EXCEPT ![w] = j]
  /\ pc' = [pc EXCEPT ![w] = "run"]
  /\ UNCHANGED <<clock, failed_jobs, pushed, now, snap, faults, history>>

(* No handler has that name: the row is removed. *)
Drop(w) ==
  /\ pc[w] = "run"
  /\ snap[w][cur[w]].job \notin Handlers
  /\ jobs' = [jobs EXCEPT ![cur[w]] = NoRow]
  /\ ended' = [ended EXCEPT ![cur[w]] = @ \union {"dropped"}]
  /\ Advance(w, cur[w])
  /\ UNCHANGED <<clock, failed_jobs, pushed, faults, failures>>

(* The handler returns; the row is still there. *)
HandlerReturns(w) ==
  /\ pc[w] = "run"
  /\ snap[w][cur[w]].job \in Handlers
  /\ pc' = [pc EXCEPT ![w] = "ack"]
  /\ ended' = [ended EXCEPT ![cur[w]] = @ \union {"done"}]
  /\ UNCHANGED <<clock, table, now, snap, cur, faults, failures>>

(* The attempts of a row whose handler threw.  Mutant: not counted. *)
MutAttemptsUncounted(row) == row.attempts
AttemptsAfter(row) == row.attempts + 1

(* The handler throws with attempts left: the pass's copy of the row goes  *)
(* back with one more attempt and no claim.  The update finds no row, and  *)
(* does nothing, when somebody removed it.                                 *)
Release(w) ==
  LET j == cur[w]
      attempts == AttemptsAfter(snap[w][j])
      available == IF RetryBackoff > 0 THEN now[w] + RetryBackoff * attempts ELSE 0
  IN /\ pc[w] = "run"
     /\ snap[w][j].job \in Handlers
     /\ attempts < MaxAttempts
     /\ available <= MaxClock
     /\ jobs' = [jobs EXCEPT ![j] =
          IF @ = NoRow THEN NoRow
          ELSE [snap[w][j] EXCEPT !.attempts = attempts, !.reserved_at = 0,
                                  !.available_at = available]]
     /\ failures' = [failures EXCEPT ![j] = @ + 1]
     /\ Advance(w, j)
     /\ UNCHANGED <<clock, failed_jobs, pushed, faults, ended>>

(* Mutant: the row is removed before the failed_jobs record is written. *)
MutBuryRemovesFirst(w) ==
  /\ pc[w] = "run"
  /\ snap[w][cur[w]].job \in Handlers
  /\ AttemptsAfter(snap[w][cur[w]]) >= MaxAttempts
  /\ jobs' = [jobs EXCEPT ![cur[w]] = NoRow]
  /\ failures' = [failures EXCEPT ![cur[w]] = @ + 1]
  /\ pc' = [pc EXCEPT ![w] = "ack"]
  /\ UNCHANGED <<clock, failed_jobs, pushed, now, snap, cur, faults, ended>>

(* The handler throws on the last attempt: first the failed_jobs record. *)
Bury(w) ==
  LET j == cur[w]
  IN /\ pc[w] = "run"
     /\ snap[w][j].job \in Handlers
     /\ AttemptsAfter(snap[w][j]) >= MaxAttempts
     /\ failed_jobs' = [failed_jobs EXCEPT ![j] = @ + 1]
     /\ failures' = [failures EXCEPT ![j] = @ + 1]
     /\ ended' = [ended EXCEPT ![j] = @ \union {"buried"}]
     /\ pc' = [pc EXCEPT ![w] = "ack"]
     /\ UNCHANGED <<clock, jobs, pushed, now, snap, cur, faults>>

(* The row is removed once the handler returned or the failure is on record. *)
Remove(w) ==
  /\ pc[w] = "ack"
  /\ jobs' = [jobs EXCEPT ![cur[w]] = NoRow]
  /\ Advance(w, cur[w])
  /\ UNCHANGED <<clock, failed_jobs, pushed, faults, history>>

(* The copy is exhausted: work() returns. *)
EndPass(w) ==
  /\ pc[w] = "scan"
  /\ snap[w] = Empty
  /\ pc' = [pc EXCEPT ![w] = "idle"]
  /\ UNCHANGED <<clock, table, now, snap, cur, faults, history>>

(* The worker dies, or the handler throws something that is not a          *)
(* std::exception and unwinds out of work(): the row keeps its claim.      *)
Crash(w) ==
  /\ pc[w] # "idle"
  /\ faults < MaxFaults
  /\ clock + RetryAfter <= MaxClock
  /\ faults' = faults + 1
  /\ pc' = [pc EXCEPT ![w] = "idle"]
  /\ snap' = [snap EXCEPT ![w] = Empty]
  /\ cur' = [cur EXCEPT ![w] = 0]
  /\ UNCHANGED <<clock, table, now, history>>

(* The database refuses a write (SQLite: it is locked by another process). *)
Fault ==
  /\ faults < MaxFaults
  /\ clock + RetryAfter <= MaxClock
  /\ faults' = faults + 1
  /\ UNCHANGED <<clock, table>>

(* update_if(), remove() and update() do not throw and work() does not     *)
(* look at what the last two return: it goes on to the next row.           *)
WriteLost(w) ==
  /\ Fault
  /\ \/ /\ pc[w] = "scan"
        /\ \E j \in Job : IsNext(w, j) /\ Due(snap[w][j], now[w]) /\ Advance(w, j)
        /\ UNCHANGED history
     \/ /\ pc[w] = "ack" \/ (pc[w] = "run" /\ snap[w][cur[w]].job \notin Handlers)
        /\ Advance(w, cur[w])
        /\ UNCHANGED history
     \/ /\ pc[w] = "run"
        /\ snap[w][cur[w]].job \in Handlers
        /\ AttemptsAfter(snap[w][cur[w]]) < MaxAttempts
        /\ failures' = [failures EXCEPT ![cur[w]] = @ + 1]
        /\ Advance(w, cur[w])
        /\ UNCHANGED ended

(* insert() throws, from inside work()'s catch clause: the pass is over. *)
RecordThrows(w) ==
  /\ Fault
  /\ pc[w] = "run"
  /\ snap[w][cur[w]].job \in Handlers
  /\ AttemptsAfter(snap[w][cur[w]]) >= MaxAttempts
  /\ failures' = [failures EXCEPT ![cur[w]] = @ + 1]
  /\ pc' = [pc EXCEPT ![w] = "idle"]
  /\ snap' = [snap EXCEPT ![w] = Empty]
  /\ cur' = [cur EXCEPT ![w] = 0]
  /\ UNCHANGED <<now, ended>>

Step(w) ==
  \/ Fetch(w) \/ Skip(w) \/ Claim(w) \/ Drop(w) \/ HandlerReturns(w)
  \/ Release(w) \/ Bury(w) \/ Remove(w) \/ EndPass(w)

Next ==
  \/ Tick
  \/ \E n \in JobName, d \in Delays : push(n, d)
  \/ \E w \in Worker : Begin(w) \/ Step(w) \/ Crash(w) \/ WriteLost(w) \/ RecordThrows(w)

Spec == Init /\ [][Next]_vars

(* queue:work polls for ever, time passes, handlers come back one way or   *)
(* another, and only so many things go wrong.                              *)
Fairness ==
  /\ WF_vars(Tick)
  /\ \A w \in Worker : WF_vars(Begin(w)) /\ WF_vars(Step(w))

FairSpec == Spec /\ Fairness

-----------------------------------------------------------------------------
(* Correctness.                                                            *)

Processing(w, j) == pc[w] \in {"run", "ack"} /\ cur[w] = j

(* No job is in the hands of two workers at once: the claim on reserved_at *)
(* keeps every other worker out from the claim to the row's removal or     *)
(* release.                                                                *)
NoDoubleProcessing ==
  \A v, w \in Worker, j \in Job : Processing(v, j) /\ Processing(w, j) => v = w

(* Why: while a worker has a job the job's row carries that worker's stamp,*)
(* and the stamp is younger than a timely pass can last, so no other       *)
(* worker's copy of the row can be both due and current.                   *)
ClaimHeld ==
  \A w \in Worker :
    /\ pc[w] # "idle" => now[w] > 0 /\ now[w] <= clock /\ clock <= now[w] + MaxPass
    /\ pc[w] \in {"run", "ack"} =>
         /\ jobs[cur[w]] # NoRow
         /\ jobs[cur[w]].reserved_at = now[w]

(* The loop of a worker that has a job is at one of the rows it read. *)
CurOK ==
  \A w \in Worker : pc[w] \in {"run", "ack"} => cur[w] \in Job /\ snap[w][cur[w]] # NoRow

(* Ids that push() has not handed out yet have no row. *)
UnusedIds == \A j \in Job : j > pushed => jobs[j] = NoRow

(* The inductive form of NoDoubleProcessing, for passes shorter than       *)
(* retry_after.                                                            *)
ClaimInv == CurOK /\ UnusedIds /\ ClaimHeld /\ NoDoubleProcessing

(* The way the job ended is on record: its handler returned, nobody       *)
(* handles its name, or there is a failed_jobs record.                     *)
Recorded(j) == ended[j] \intersect {"done", "dropped"} # {} \/ failed_jobs[j] > 0

(* Delivery is at least once: a pushed job is still in the table or the    *)
(* way it ended is on record.  No interleaving of stale passes, removals   *)
(* and crashes may lose it.                                               *)
NoLostJob ==
  \A j \in 1..pushed :
    jobs[j] # NoRow \/ Recorded(j)

(* The inductive form of NoLostJob: a worker that is about to remove a row *)
(* has the job's outcome on record already.                                *)
DeliveryInv ==
  /\ CurOK
  /\ UnusedIds
  /\ \A w \in Worker : pc[w] = "ack" => Recorded(cur[w])
  /\ NoLostJob

(* The retry budget: a handler throws at most max_attempts times, and      *)
(* leaves at most one failed_jobs record, but for one more of each per     *)
(* worker that died and per write that was refused.                        *)
RetryBudget ==
  \A j \in Job :
    /\ failures[j] <= MaxAttempts + faults
    /\ failed_jobs[j] <= 1 + faults

(* Every pushed job eventually leaves the jobs table, whatever fails or    *)
(* dies on the way: a dead worker's claim expires, a failing job runs out  *)
(* of attempts.                                                            *)
EveryJobSettles ==
  \A j \in Job : pushed >= j ~> pushed >= j /\ jobs[j] = NoRow

(* The tables and the workers implement the abstract queue.                *)
phaseBar ==
  [j \in Job |-> IF j > pushed THEN "new"
                 ELSE IF jobs[j] = NoRow THEN "gone"
                 ELSE IF \E w \in Worker : Processing(w, j) THEN "running"
                 ELSE "queued"]

JQ == INSTANCE JobQueue WITH phase <- phaseBar, outcome <- ended

ImplementsJobQueue == JQ!JQSpec
=============================================================================
