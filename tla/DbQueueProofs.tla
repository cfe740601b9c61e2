---------------------------- MODULE DbQueueProofs ----------------------------
(***************************************************************************)
(* Proofs about DbQueue, for any number of workers, jobs and attempts and  *)
(* any clock: type correctness, at-least-once delivery; for passes shorter *)
(* than retry_after, that no job is ever in two workers' hands and that    *)
(* the driver implements JobQueue; and one worker's retry budget.          *)
(***************************************************************************)
EXTENDS DbQueue, TLAPS

-----------------------------------------------------------------------------
(* Type correctness.                                                       *)

(* A backoff is a natural number. *)
LEMMA BackoffType ==
  ASSUME NEW t \in Nat, NEW a \in Nat
  PROVE  (IF RetryBackoff > 0 THEN t + RetryBackoff * a ELSE 0) \in Nat
<1>1. RetryBackoff * a \in Nat
  BY QueueAssumption
<1>. QED  BY <1>1

(* What the end of a loop iteration does to the worker's local state. *)
LEMMA AdvanceType ==
  ASSUME TypeOK, NEW w \in Worker, NEW j \in Job, Advance(w, j)
  PROVE  /\ pc' \in [Worker -> PC]
         /\ now' \in [Worker -> Nat]
         /\ snap' \in [Worker -> [Job -> Row \union {NoRow}]]
         /\ cur' \in [Worker -> 0..MaxJobs]
         /\ pc'[w] = "scan"
         /\ \A v \in Worker \ {w} : pc'[v] = pc[v] /\ cur'[v] = cur[v] /\ snap'[v] = snap[v]
<1>1. pc' \in [Worker -> PC] /\ pc'[w] = "scan" /\ \A v \in Worker \ {w} : pc'[v] = pc[v]
  BY DEF TypeOK, Advance, PC
<1>2. now' \in [Worker -> Nat]
  BY DEF TypeOK, Advance
<1>3. snap' \in [Worker -> [Job -> Row \union {NoRow}]] /\ \A v \in Worker \ {w} : snap'[v] = snap[v]
  BY DEF TypeOK, Advance
<1>4. cur' \in [Worker -> 0..MaxJobs] /\ \A v \in Worker \ {w} : cur'[v] = cur[v]
  BY QueueAssumption DEF TypeOK, Advance
<1>. QED  BY <1>1, <1>2, <1>3, <1>4

(* The row a failed attempt writes back is a row. *)
LEMMA ReleaseRow ==
  ASSUME TypeOK, CurOK, NEW w \in Worker, Release(w)
  PROVE  /\ cur[w] \in Job
         /\ Advance(w, cur[w])
         /\ \E r \in Row :
              jobs' = [jobs EXCEPT ![cur[w]] = IF jobs[cur[w]] = NoRow THEN NoRow ELSE r]
<1> DEFINE j == cur[w]
           a == AttemptsAfter(snap[w][j])
           t == IF RetryBackoff > 0 THEN now[w] + RetryBackoff * a ELSE 0
           r == [snap[w][j] EXCEPT !.attempts = a, !.reserved_at = 0, !.available_at = t]
<1>1. j \in Job /\ snap[w][j] \in Row
  BY DEF Release, CurOK, TypeOK
<1>2. a \in Nat
  BY <1>1 DEF Row, AttemptsAfter
<1>3. t \in Nat
  <2>1. now[w] \in Nat
    BY DEF TypeOK
  <2>. QED  BY <1>2, <2>1, BackoffType
<1>4. r \in Row
  BY <1>1, <1>2, <1>3 DEF Row
<1>5. jobs' = [jobs EXCEPT ![j] = IF jobs[j] = NoRow THEN NoRow ELSE r]
  BY DEF Release
<1>6. Advance(w, j)
  BY DEF Release
<1>. QED  BY <1>1, <1>4, <1>5, <1>6

(* The row a claim writes is a row with the pass's stamp. *)
LEMMA ClaimRow ==
  ASSUME TypeOK, NEW w \in Worker, Claim(w)
  PROVE  \E j \in Job :
           /\ IsNext(w, j) /\ Due(snap[w][j], now[w]) /\ ClaimWins(w, j)
           /\ snap[w][j] \in Row
           /\ cur' = [cur EXCEPT ![w] = j]
           /\ \E r \in Row : r.reserved_at = now[w] /\ jobs' = [jobs EXCEPT ![j] = r]
<1>1. PICK j \in Job :
        /\ IsNext(w, j) /\ Due(snap[w][j], now[w]) /\ ClaimWins(w, j)
        /\ jobs' = [jobs EXCEPT ![j] = [snap[w][j] EXCEPT !.reserved_at = now[w]]]
        /\ cur' = [cur EXCEPT ![w] = j]
  BY DEF Claim, Stamp
<1>2. snap[w][j] \in Row
  BY <1>1 DEF TypeOK, IsNext
<1>3. [snap[w][j] EXCEPT !.reserved_at = now[w]] \in Row
  BY <1>2 DEF TypeOK, Row
<1>4. [snap[w][j] EXCEPT !.reserved_at = now[w]].reserved_at = now[w]
  BY <1>2 DEF Row
<1>. QED  BY <1>1, <1>2, <1>3, <1>4

(* An empty table, and idle workers. *)
LEMMA TypeInit == Init => TypeOK /\ CurOK
BY QueueAssumption DEF Init, TypeOK, CurOK, Empty, PC

(* Every step keeps the types. *)
LEMMA TypeStep == TypeOK /\ CurOK /\ [Next]_vars => TypeOK' /\ CurOK'
<1> SUFFICES ASSUME TypeOK, CurOK, [Next]_vars PROVE TypeOK' /\ CurOK'
  OBVIOUS
<1> USE QueueAssumption
<1>1. CASE Tick
  BY <1>1 DEF Tick, TypeOK, CurOK, table, pass, history
<1>2. ASSUME NEW n \in JobName, NEW d \in Delays, push(n, d) PROVE TypeOK' /\ CurOK'
  <2>1. [job |-> n, attempts |-> 0,
         available_at |-> IF d > 0 THEN clock + d ELSE 0, reserved_at |-> 0] \in Row
    BY DEF TypeOK, Row
  <2>2. jobs' \in [Job -> Row \union {NoRow}]
    BY <1>2, <2>1 DEF push, TypeOK
  <2>. QED  BY <1>2, <2>2 DEF push, TypeOK, CurOK, pass, history
<1>3. ASSUME NEW w \in Worker, Begin(w) PROVE TypeOK' /\ CurOK'
  BY <1>3 DEF Begin, TypeOK, CurOK, table, history, PC
<1>4. ASSUME NEW w \in Worker, Fetch(w) PROVE TypeOK' /\ CurOK'
  BY <1>4 DEF Fetch, TypeOK, CurOK, table, history, PC
<1>5. ASSUME NEW w \in Worker, Skip(w) PROVE TypeOK' /\ CurOK'
  <2>1. PICK j \in Job : Advance(w, j)
    BY <1>5 DEF Skip
  <2>. QED  BY <1>5, <2>1, AdvanceType DEF Skip, TypeOK, CurOK, table, history
<1>6. ASSUME NEW w \in Worker, Claim(w) PROVE TypeOK' /\ CurOK'
  <2>1. PICK j \in Job :
          /\ snap[w][j] \in Row
          /\ cur' = [cur EXCEPT ![w] = j]
          /\ \E r \in Row : jobs' = [jobs EXCEPT ![j] = r]
    BY <1>6, ClaimRow
  <2>2. jobs' \in [Job -> Row \union {NoRow}]
    BY <2>1 DEF TypeOK
  <2>3. j \in 0..MaxJobs
    BY DEF Job
  <2>. QED  BY <1>6, <2>1, <2>2, <2>3, NoRowAssumption DEF Claim, TypeOK, CurOK, history, PC
<1>7. ASSUME NEW w \in Worker, Drop(w) PROVE TypeOK' /\ CurOK'
  <2>1. cur[w] \in Job
    BY <1>7 DEF Drop, CurOK
  <2>. QED  BY <1>7, <2>1, AdvanceType DEF Drop, TypeOK, CurOK
<1>8. ASSUME NEW w \in Worker, HandlerReturns(w) PROVE TypeOK' /\ CurOK'
  BY <1>8 DEF HandlerReturns, TypeOK, CurOK, table, PC
<1>9. ASSUME NEW w \in Worker, Release(w) PROVE TypeOK' /\ CurOK'
  <2>1. cur[w] \in Job /\ Advance(w, cur[w])
    BY <1>9, ReleaseRow
  <2>2. jobs' \in [Job -> Row \union {NoRow}]
    BY <1>9, ReleaseRow DEF TypeOK
  <2>. QED  BY <1>9, <2>1, <2>2, AdvanceType DEF Release, TypeOK, CurOK
<1>10. ASSUME NEW w \in Worker, Bury(w) PROVE TypeOK' /\ CurOK'
  BY <1>10 DEF Bury, TypeOK, CurOK, PC
<1>11. ASSUME NEW w \in Worker, Remove(w) PROVE TypeOK' /\ CurOK'
  <2>1. cur[w] \in Job
    BY <1>11 DEF Remove, CurOK
  <2>. QED  BY <1>11, <2>1, AdvanceType DEF Remove, TypeOK, CurOK, history
<1>12. ASSUME NEW w \in Worker, EndPass(w) PROVE TypeOK' /\ CurOK'
  BY <1>12 DEF EndPass, TypeOK, CurOK, table, history, PC
<1>13. ASSUME NEW w \in Worker, Crash(w) PROVE TypeOK' /\ CurOK'
  BY <1>13 DEF Crash, TypeOK, CurOK, table, history, PC, Empty
<1>14. ASSUME NEW w \in Worker, WriteLost(w) PROVE TypeOK' /\ CurOK'
  <2>1. \E j \in Job : Advance(w, j)
    BY <1>14 DEF WriteLost, CurOK
  <2>2. failures' \in [Job -> Nat]
    BY <1>14 DEF WriteLost, TypeOK, history
  <2>3. UNCHANGED <<clock, jobs, failed_jobs, pushed, ended>> /\ faults' \in Nat
    BY <1>14 DEF WriteLost, Fault, TypeOK, table, history
  <2>. QED  BY <2>1, <2>2, <2>3, AdvanceType DEF TypeOK, CurOK
<1>15. ASSUME NEW w \in Worker, RecordThrows(w) PROVE TypeOK' /\ CurOK'
  BY <1>15 DEF RecordThrows, Fault, TypeOK, CurOK, table, PC, Empty
<1>16. CASE UNCHANGED vars
  BY <1>16 DEF vars, TypeOK, CurOK
<1>. QED
  BY <1>1, <1>2, <1>3, <1>4, <1>5, <1>6, <1>7, <1>8, <1>9, <1>10, <1>11, <1>12,
     <1>13, <1>14, <1>15, <1>16 DEF Next, Step

(* Every variable of the queue stays in its type: in particular no pass,   *)
(* however stale, writes back a malformed row.                             *)
THEOREM TypeCorrect == Spec => [](TypeOK /\ CurOK)
<1>. QED  BY TypeInit, TypeStep, PTL DEF Spec

-----------------------------------------------------------------------------
(* At-least-once delivery.                                                 *)

(* Every step keeps each job in the table or on record. *)
LEMMA DeliveryStep ==
  TypeOK /\ DeliveryInv /\ CurOK' /\ [Next]_vars => DeliveryInv'
<1> SUFFICES ASSUME TypeOK, DeliveryInv, CurOK', [Next]_vars PROVE DeliveryInv'
  OBVIOUS
<1> DEFINE AckInv == \A w \in Worker : pc[w] = "ack" => Recorded(cur[w])
<1> USE QueueAssumption, NoRowAssumption
<1>0. /\ CurOK /\ UnusedIds /\ NoLostJob /\ AckInv
      /\ 1..pushed \subseteq Job
  BY DEF DeliveryInv, TypeOK, Job
<1> SUFFICES UnusedIds' /\ NoLostJob' /\ AckInv'
  BY DEF DeliveryInv
<1>1. CASE Tick
  BY <1>0, <1>1 DEF Tick, UnusedIds, NoLostJob, Recorded, table, pass, history
<1>2. ASSUME NEW n \in JobName, NEW d \in Delays, push(n, d)
      PROVE  UnusedIds' /\ NoLostJob' /\ AckInv'
  <2> DEFINE r == [job |-> n, attempts |-> 0,
                   available_at |-> IF d > 0 THEN clock + d ELSE 0, reserved_at |-> 0]
  <2>1. r \in Row
    BY DEF TypeOK, Row
  <2>2. jobs' = [jobs EXCEPT ![pushed + 1] = r] /\ pushed' = pushed + 1 /\ pushed + 1 \in Job
    BY <1>2 DEF push, TypeOK, Job
  <2>3. AckInv'
    BY <1>0, <1>2 DEF push, Recorded, pass, history
  <2>4. NoLostJob'
    <3> SUFFICES ASSUME NEW j \in 1..pushed', jobs'[j] = NoRow PROVE Recorded(j)'
      BY DEF NoLostJob
    <3>1. j # pushed + 1
      BY <2>1, <2>2 DEF TypeOK
    <3>2. j \in 1..pushed /\ jobs[j] = NoRow
      BY <2>2, <3>1 DEF TypeOK, Job
    <3>. QED  BY <1>0, <1>2, <3>2 DEF NoLostJob, Recorded, push, history
  <2>5. UnusedIds'
    BY <1>0, <2>2 DEF UnusedIds, TypeOK, Job
  <2>. QED  BY <2>3, <2>4, <2>5
(* The steps that leave both tables and the outcomes alone. *)
<1>3. ASSUME UNCHANGED <<table, ended>>,
             \A w \in Worker : pc'[w] = "ack" => pc[w] = "ack" /\ cur'[w] = cur[w]
      PROVE  UnusedIds' /\ NoLostJob' /\ AckInv'
  BY <1>0, <1>3 DEF UnusedIds, NoLostJob, Recorded, table
<1>4. ASSUME NEW w \in Worker,
             Begin(w) \/ Fetch(w) \/ EndPass(w) \/ Crash(w) \/ RecordThrows(w)
      PROVE  UnusedIds' /\ NoLostJob' /\ AckInv'
  BY <1>3, <1>4 DEF Begin, Fetch, EndPass, Crash, RecordThrows, Fault, TypeOK, history
<1>5. ASSUME NEW w \in Worker, Skip(w) \/ WriteLost(w)
      PROVE  UnusedIds' /\ NoLostJob' /\ AckInv'
  <2>1. PICK j \in Job : Advance(w, j)
    BY <1>0, <1>5 DEF Skip, WriteLost, CurOK
  <2>2. UNCHANGED <<table, ended>>
    BY <1>5 DEF Skip, WriteLost, Fault, history
  <2>. QED  BY <1>3, <2>1, <2>2, AdvanceType
<1>6. ASSUME NEW w \in Worker, Claim(w) PROVE UnusedIds' /\ NoLostJob' /\ AckInv'
  <2>1. PICK j \in Job, r \in Row :
          /\ ClaimWins(w, j)
          /\ cur' = [cur EXCEPT ![w] = j]
          /\ jobs' = [jobs EXCEPT ![j] = r]
    BY <1>6, ClaimRow
  <2>2. AckInv'
    BY <1>0, <1>6, <2>1 DEF Claim, Recorded, history, TypeOK
  <2>3. NoLostJob'
    BY <1>0, <1>6, <2>1 DEF Claim, NoLostJob, Recorded, history, TypeOK
  <2>4. UnusedIds'
    BY <1>0, <1>6, <2>1 DEF Claim, ClaimWins, UnusedIds, TypeOK
  <2>. QED  BY <2>2, <2>3, <2>4
(* The steps that add an outcome. *)
<1>7. ASSUME NEW w \in Worker, HandlerReturns(w) PROVE UnusedIds' /\ NoLostJob' /\ AckInv'
  <2>1. cur[w] \in Job
    BY <1>0, <1>7 DEF HandlerReturns, CurOK
  <2>2. \A j \in Job : Recorded(j) => Recorded(j)'
    BY <1>7, <2>1 DEF HandlerReturns, Recorded, TypeOK, table
  <2>3. Recorded(cur[w])'
    BY <1>7, <2>1 DEF HandlerReturns, Recorded, TypeOK
  <2>4. AckInv'
    BY <1>0, <1>7, <2>2, <2>3 DEF HandlerReturns, TypeOK, CurOK, Recorded
  <2>. QED  BY <1>0, <1>7, <2>2, <2>4 DEF HandlerReturns, UnusedIds, NoLostJob, table
<1>8. ASSUME NEW w \in Worker, Bury(w) PROVE UnusedIds' /\ NoLostJob' /\ AckInv'
  <2>1. cur[w] \in Job
    BY <1>0, <1>8 DEF Bury, CurOK
  <2>2. \A j \in Job : Recorded(j) => Recorded(j)'
    BY <1>8, <2>1 DEF Bury, Recorded, TypeOK
  <2>3. Recorded(cur[w])'
    BY <1>8, <2>1 DEF Bury, Recorded, TypeOK
  <2>4. AckInv'
    BY <1>0, <1>8, <2>2, <2>3 DEF Bury, TypeOK, CurOK, Recorded
  <2>. QED  BY <1>0, <1>8, <2>2, <2>4 DEF Bury, UnusedIds, NoLostJob
(* The steps that remove or rewrite the worker's row. *)
<1>9. ASSUME NEW w \in Worker, Drop(w) PROVE UnusedIds' /\ NoLostJob' /\ AckInv'
  <2>1. cur[w] \in Job /\ Advance(w, cur[w])
    BY <1>0, <1>9 DEF Drop, CurOK
  <2>2. \A j \in Job : Recorded(j) => Recorded(j)'
    BY <1>9, <2>1 DEF Drop, Recorded, TypeOK
  <2>3. \A j \in Job : j = cur[w] => Recorded(j)'
    BY <1>9, <2>1 DEF Drop, Recorded, TypeOK
  <2>4. AckInv'
    BY <1>0, <2>1, <2>2, AdvanceType DEF CurOK, Recorded
  <2>5. NoLostJob'
    BY <1>0, <1>9, <2>1, <2>2, <2>3 DEF Drop, NoLostJob, TypeOK
  <2>6. UnusedIds'
    BY <1>0, <1>9, <2>1 DEF Drop, UnusedIds, TypeOK
  <2>. QED  BY <2>4, <2>5, <2>6
<1>10. ASSUME NEW w \in Worker, Remove(w) PROVE UnusedIds' /\ NoLostJob' /\ AckInv'
  <2>1. cur[w] \in Job /\ Advance(w, cur[w]) /\ Recorded(cur[w])
    BY <1>0, <1>10 DEF Remove, CurOK
  <2>2. \A j \in Job : Recorded(j) => Recorded(j)'
    BY <1>10 DEF Remove, Recorded, history
  <2>4. AckInv'
    BY <1>0, <2>1, <2>2, AdvanceType DEF CurOK, Recorded
  <2>5. NoLostJob'
    BY <1>0, <1>10, <2>1, <2>2 DEF Remove, NoLostJob, TypeOK
  <2>6. UnusedIds'
    BY <1>0, <1>10, <2>1 DEF Remove, UnusedIds, TypeOK
  <2>. QED  BY <2>4, <2>5, <2>6
<1>11. ASSUME NEW w \in Worker, Release(w) PROVE UnusedIds' /\ NoLostJob' /\ AckInv'
  <2>1. cur[w] \in Job /\ Advance(w, cur[w])
    BY <1>0, <1>11, ReleaseRow
  <2>2. PICK r \in Row :
          jobs' = [jobs EXCEPT ![cur[w]] = IF jobs[cur[w]] = NoRow THEN NoRow ELSE r]
    BY <1>0, <1>11, ReleaseRow
  <2>3. \A j \in Job : Recorded(j) => Recorded(j)'
    BY <1>11 DEF Release, Recorded
  <2>4. AckInv'
    BY <1>0, <2>1, <2>3, AdvanceType DEF CurOK, Recorded
  <2>5. \A j \in Job : jobs'[j] = NoRow <=> jobs[j] = NoRow
    BY <2>1, <2>2 DEF TypeOK
  <2>6. pushed' = pushed
    BY <1>11 DEF Release
  <2>. QED  BY <1>0, <2>3, <2>4, <2>5, <2>6 DEF NoLostJob, UnusedIds
<1>12. CASE UNCHANGED vars
  BY <1>0, <1>12 DEF vars, UnusedIds, NoLostJob, Recorded
<1>. QED
  BY <1>1, <1>2, <1>4, <1>5, <1>6, <1>7, <1>8, <1>9, <1>10, <1>11, <1>12 DEF Next, Step

(* At-least-once delivery: however many workers race over stale copies of  *)
(* the table, and whenever they die, a pushed job stays in the jobs table  *)
(* until its handler returned, its failure was recorded or its name turned *)
(* out to be unknown.                                                      *)
THEOREM AtLeastOnce == Spec => []NoLostJob
<1>1. Init => DeliveryInv
  BY TypeInit DEF Init, DeliveryInv, UnusedIds, NoLostJob, Empty
<1>2. DeliveryInv => NoLostJob
  BY DEF DeliveryInv
<1>. QED  BY <1>1, <1>2, TypeCorrect, DeliveryStep, PTL DEF Spec

-----------------------------------------------------------------------------
(* Mutual exclusion.                                                       *)

(* A worker whose copy of the row is due and current found the row free:   *)
(* a live worker's stamp is too young for the copy to be due.              *)
LEMMA ClaimFree ==
  ASSUME MaxPass < RetryAfter, TypeOK, CurOK, ClaimHeld,
         NEW w \in Worker, NEW j \in Job, pc[w] = "scan", snap[w][j] \in Row,
         Due(snap[w][j], now[w]), ClaimWins(w, j),
         NEW v \in Worker
  PROVE  ~Processing(v, j)
<1> USE QueueAssumption, NoRowAssumption
<1> SUFFICES ASSUME Processing(v, j) PROVE FALSE
  OBVIOUS
<1>1. snap[w][j].reserved_at = now[v] /\ now[v] > 0 /\ clock <= now[v] + MaxPass
  BY DEF Processing, ClaimHeld, ClaimWins, TypeOK
<1>2. now[w] >= now[v] + RetryAfter /\ now[w] <= clock
  BY <1>1 DEF Due, ClaimHeld, TypeOK
<1>. QED  BY <1>1, <1>2 DEF TypeOK

(* Every step keeps the claims apart. *)
LEMMA ClaimStep ==
  ASSUME MaxPass < RetryAfter
  PROVE  TypeOK /\ ClaimInv /\ CurOK' /\ [Next]_vars => ClaimInv'
<1> SUFFICES ASSUME TypeOK, ClaimInv, CurOK', [Next]_vars PROVE ClaimInv'
  OBVIOUS
<1> USE QueueAssumption, NoRowAssumption
<1>0. CurOK /\ UnusedIds /\ ClaimHeld /\ NoDoubleProcessing
  BY DEF ClaimInv
<1> SUFFICES UnusedIds' /\ ClaimHeld' /\ NoDoubleProcessing'
  BY DEF ClaimInv
<1>1. CASE Tick
  BY <1>0, <1>1 DEF Tick, UnusedIds, ClaimHeld, NoDoubleProcessing, Processing, TypeOK,
                    table, pass
<1>2. ASSUME NEW n \in JobName, NEW d \in Delays, push(n, d)
      PROVE  UnusedIds' /\ ClaimHeld' /\ NoDoubleProcessing'
  <2>1. /\ pushed' = pushed + 1
        /\ \A j \in Job : j # pushed + 1 => jobs'[j] = jobs[j]
    BY <1>2 DEF push, TypeOK, Job
  <2>2. UnusedIds'
    BY <1>0, <2>1 DEF UnusedIds, TypeOK, Job
  <2>3. \A j \in Job : jobs[j] # NoRow => jobs'[j] = jobs[j]
    BY <1>0, <2>1 DEF UnusedIds, TypeOK, Job
  <2>4. UNCHANGED <<clock, pc, now, cur>>
    BY <1>2 DEF push, pass
  <2>5. ClaimHeld'
    BY <1>0, <2>3, <2>4 DEF ClaimHeld, CurOK
  <2>. QED  BY <1>0, <2>2, <2>4, <2>5 DEF NoDoubleProcessing, Processing
<1>3. ASSUME NEW w \in Worker, Begin(w) PROVE UnusedIds' /\ ClaimHeld' /\ NoDoubleProcessing'
  BY <1>0, <1>3 DEF Begin, UnusedIds, ClaimHeld, NoDoubleProcessing, Processing, TypeOK, table
<1>4. ASSUME NEW w \in Worker, Fetch(w) \/ EndPass(w) \/ HandlerReturns(w) \/ Bury(w)
      PROVE  UnusedIds' /\ ClaimHeld' /\ NoDoubleProcessing'
  BY <1>0, <1>4 DEF Fetch, EndPass, HandlerReturns, Bury, UnusedIds, ClaimHeld,
                    NoDoubleProcessing, Processing, TypeOK, table
<1>5. ASSUME NEW w \in Worker, Crash(w) \/ RecordThrows(w)
      PROVE  UnusedIds' /\ ClaimHeld' /\ NoDoubleProcessing'
  <2>1. /\ UNCHANGED <<clock, jobs, pushed, now>>
        /\ pc' = [pc EXCEPT ![w] = "idle"] /\ cur' = [cur EXCEPT ![w] = 0]
    BY <1>5 DEF Crash, RecordThrows, Fault, table
  <2>2. pc'[w] = "idle" /\ \A v \in Worker \ {w} : pc'[v] = pc[v] /\ cur'[v] = cur[v]
    BY <2>1 DEF TypeOK
  <2>. QED  BY <1>0, <2>1, <2>2 DEF UnusedIds, ClaimHeld, NoDoubleProcessing, Processing
<1>6. ASSUME NEW w \in Worker, Skip(w) \/ WriteLost(w)
      PROVE  UnusedIds' /\ ClaimHeld' /\ NoDoubleProcessing'
  <2>1. PICK j \in Job : Advance(w, j)
    BY <1>0, <1>6 DEF Skip, WriteLost, CurOK
  <2>2. UNCHANGED <<clock, jobs, pushed, now>>
    BY <1>6, <2>1 DEF Skip, WriteLost, Fault, table, Advance
  <2>3. pc[w] # "idle" /\ pc'[w] = "scan"
    BY <1>6, <2>1, AdvanceType DEF Skip, WriteLost
  <2>4. \A v \in Worker \ {w} : pc'[v] = pc[v] /\ cur'[v] = cur[v]
    BY <2>1, AdvanceType
  <2>. QED  BY <1>0, <2>2, <2>3, <2>4 DEF UnusedIds, ClaimHeld, NoDoubleProcessing, Processing
<1>7. ASSUME NEW w \in Worker, Claim(w) PROVE UnusedIds' /\ ClaimHeld' /\ NoDoubleProcessing'
  <2>1. PICK j \in Job, r \in Row :
          /\ Due(snap[w][j], now[w]) /\ ClaimWins(w, j)
          /\ cur' = [cur EXCEPT ![w] = j]
          /\ r.reserved_at = now[w]
          /\ jobs' = [jobs EXCEPT ![j] = r]
          /\ snap[w][j] \in Row
    BY <1>7, ClaimRow
  <2>2. pc[w] = "scan" /\ pc' = [pc EXCEPT ![w] = "run"] /\ UNCHANGED <<clock, pushed, now>>
    BY <1>7 DEF Claim
  <2>3. \A v \in Worker : ~Processing(v, j)
    BY <1>0, <2>1, <2>2, ClaimFree
  <2>4. NoDoubleProcessing'
    BY <1>0, <2>1, <2>2, <2>3 DEF NoDoubleProcessing, Processing, TypeOK
  <2>5. UnusedIds'
    BY <1>0, <2>1, <2>2 DEF UnusedIds, ClaimWins, TypeOK
  <2>6. ClaimHeld'
    <3> SUFFICES ASSUME NEW v \in Worker
                 PROVE  /\ pc'[v] # "idle" => now'[v] > 0 /\ now'[v] <= clock'
                                              /\ clock' <= now'[v] + MaxPass
                        /\ pc'[v] \in {"run", "ack"} =>
                             jobs'[cur'[v]] # NoRow /\ jobs'[cur'[v]].reserved_at = now'[v]
      BY DEF ClaimHeld
    <3>1. CASE v = w
      BY <1>0, <2>1, <2>2, <3>1 DEF ClaimHeld, TypeOK
    <3>2. CASE v # w
      BY <1>0, <2>1, <2>2, <2>3, <3>2 DEF ClaimHeld, TypeOK, Processing
    <3>. QED  BY <3>1, <3>2
  <2>. QED  BY <2>4, <2>5, <2>6
(* A worker that lets its row go is the only one that has it. *)
<1>8. ASSUME NEW w \in Worker, Drop(w) \/ Remove(w) \/ Release(w)
      PROVE  UnusedIds' /\ ClaimHeld' /\ NoDoubleProcessing'
  <2>1. /\ cur[w] \in Job /\ Advance(w, cur[w]) /\ Processing(w, cur[w])
        /\ UNCHANGED <<clock, pushed, now>>
    BY <1>0, <1>8 DEF Drop, Remove, Release, CurOK, Advance, Processing
  <2>2. \E x \in Row \union {NoRow} :
          /\ jobs' = [jobs EXCEPT ![cur[w]] = x]
          /\ jobs[cur[w]] = NoRow => x = NoRow
    <3>1. CASE Drop(w) \/ Remove(w)
      BY <3>1 DEF Drop, Remove
    <3>2. CASE Release(w)
      BY <1>0, <3>2, ReleaseRow
    <3>. QED  BY <1>8, <3>1, <3>2
  <2>3. UnusedIds'
    BY <1>0, <2>1, <2>2 DEF UnusedIds, TypeOK
  <2>4. \A j \in Job \ {cur[w]} : jobs'[j] = jobs[j]
    BY <2>2 DEF TypeOK
  <2>5. \A v \in Worker \ {w} : pc[v] \in {"run", "ack"} => cur[v] \in Job \ {cur[w]}
    BY <1>0, <2>1 DEF NoDoubleProcessing, Processing, CurOK
  <2>6. ClaimHeld'
    <3> SUFFICES ASSUME NEW v \in Worker
                 PROVE  /\ pc'[v] # "idle" => now'[v] > 0 /\ now'[v] <= clock'
                                              /\ clock' <= now'[v] + MaxPass
                        /\ pc'[v] \in {"run", "ack"} =>
                             jobs'[cur'[v]] # NoRow /\ jobs'[cur'[v]].reserved_at = now'[v]
      BY DEF ClaimHeld
    <3>1. CASE v = w
      BY <1>0, <2>1, <3>1, AdvanceType DEF ClaimHeld, Processing
    <3>2. CASE v # w
      BY <1>0, <2>1, <2>4, <2>5, <3>2, AdvanceType DEF ClaimHeld
    <3>. QED  BY <3>1, <3>2
  <2>7. NoDoubleProcessing'
    BY <1>0, <2>1, AdvanceType DEF NoDoubleProcessing, Processing
  <2>. QED  BY <2>3, <2>6, <2>7
<1>9. CASE UNCHANGED vars
  BY <1>0, <1>9 DEF vars, UnusedIds, ClaimHeld, NoDoubleProcessing, Processing
<1>. QED
  BY <1>1, <1>2, <1>3, <1>4, <1>5, <1>6, <1>7, <1>8, <1>9 DEF Next, Step

(* If no pass of work() lasts as long as retry_after, no job is ever in    *)
(* the hands of two workers: the compare-and-set on reserved_at is enough, *)
(* although each pass decides on an old copy of the table and an old clock.*)
THEOREM TimelyMutualExclusion ==
  ASSUME MaxPass < RetryAfter
  PROVE  Spec => []NoDoubleProcessing
<1>1. Init => ClaimInv
  BY TypeInit DEF Init, ClaimInv, UnusedIds, ClaimHeld, NoDoubleProcessing, Processing, Empty
<1>2. ClaimInv => NoDoubleProcessing
  BY DEF ClaimInv
<1>3. TypeOK /\ ClaimInv /\ CurOK' /\ [Next]_vars => ClaimInv'
  BY ClaimStep
<1>. QED  BY <1>1, <1>2, <1>3, TypeCorrect, PTL DEF Spec

-----------------------------------------------------------------------------
(* The tables and the workers implement the abstract queue.                *)

(* A worker about to remove a row has seen the job end. *)
EndedInv == \A w \in Worker : pc[w] = "ack" => ended[cur[w]] # {}

(* Every step keeps what ended jobs have. *)
LEMMA EndedStep ==
  TypeOK /\ CurOK /\ EndedInv /\ [Next]_vars => EndedInv'
<1> SUFFICES ASSUME TypeOK, CurOK, EndedInv, [Next]_vars PROVE EndedInv'
  OBVIOUS
<1> USE QueueAssumption
<1>1. ASSUME ended' = ended,
             \A w \in Worker : pc'[w] = "ack" => pc[w] = "ack" /\ cur'[w] = cur[w]
      PROVE  EndedInv'
  BY <1>1 DEF EndedInv
<1>2. CASE Tick \/ UNCHANGED vars \/ \E n \in JobName, d \in Delays : push(n, d)
  BY <1>1, <1>2 DEF Tick, vars, push, pass, history
<1>3. ASSUME NEW w \in Worker,
             Begin(w) \/ Fetch(w) \/ EndPass(w) \/ Crash(w) \/ RecordThrows(w) \/ Claim(w)
      PROVE  EndedInv'
  BY <1>1, <1>3 DEF Begin, Fetch, EndPass, Crash, RecordThrows, Claim, TypeOK, history
<1>4. ASSUME NEW w \in Worker, Skip(w) \/ WriteLost(w) \/ Release(w) \/ Remove(w)
      PROVE  EndedInv'
  <2>1. PICK j \in Job : Advance(w, j)
    BY <1>4 DEF Skip, WriteLost, Release, Remove, CurOK
  <2>2. ended' = ended
    BY <1>4 DEF Skip, WriteLost, Release, Remove, history
  <2>. QED  BY <1>1, <2>1, <2>2, AdvanceType
<1>5. ASSUME NEW w \in Worker, HandlerReturns(w) \/ Bury(w) PROVE EndedInv'
  <2>1. cur[w] \in Job /\ cur' = cur /\ \A v \in Worker \ {w} : pc'[v] = pc[v]
    BY <1>5 DEF HandlerReturns, Bury, CurOK, TypeOK
  <2>2. \A j \in Job : ended[j] \subseteq ended'[j]
    BY <1>5, <2>1 DEF HandlerReturns, Bury, TypeOK
  <2>3. ended'[cur[w]] # {}
    <3>1. PICK o \in {"done", "buried"} : ended' = [ended EXCEPT ![cur[w]] = @ \union {o}]
      BY <1>5 DEF HandlerReturns, Bury
    <3>2. o \in ended'[cur[w]]
      BY <2>1, <3>1 DEF TypeOK
    <3>. QED  BY <3>2
  <2>. QED  BY <2>1, <2>2, <2>3 DEF EndedInv, CurOK
<1>6. ASSUME NEW w \in Worker, Drop(w) PROVE EndedInv'
  <2>1. cur[w] \in Job /\ Advance(w, cur[w])
    BY <1>6 DEF Drop, CurOK
  <2>2. \A j \in Job : ended[j] \subseteq ended'[j]
    BY <1>6, <2>1 DEF Drop, TypeOK
  <2>. QED  BY <2>1, <2>2, AdvanceType DEF EndedInv, CurOK
<1>. QED  BY <1>2, <1>3, <1>4, <1>5, <1>6 DEF Next, Step

(* Where a job is, by its row and the workers that have it. *)
LEMMA PhaseAt ==
  ASSUME NEW j \in Job
  PROVE  phaseBar[j] = IF j > pushed THEN "new"
                       ELSE IF jobs[j] = NoRow THEN "gone"
                       ELSE IF \E w \in Worker : Processing(w, j) THEN "running"
                       ELSE "queued"
BY DEF phaseBar

(* A step that touches the row and the holder of one job moves only that   *)
(* job.                                                                    *)
LEMMA PhaseElsewhere ==
  ASSUME NEW j \in Job,
         \A k \in Job \ {j} :
           /\ k > pushed' <=> k > pushed
           /\ jobs'[k] = NoRow <=> jobs[k] = NoRow
           /\ (\E v \in Worker : Processing(v, k)') <=> (\E v \in Worker : Processing(v, k))
  PROVE  phaseBar' = [phaseBar EXCEPT ![j] = phaseBar'[j]]
BY DEF phaseBar

(* A worker that has a job has one that was pushed, whose row is there. *)
LEMMA HeldIsRunning ==
  ASSUME TypeOK, ClaimInv, NEW w \in Worker, pc[w] \in {"run", "ack"}
  PROVE  /\ cur[w] \in Job /\ cur[w] <= pushed /\ jobs[cur[w]] # NoRow
         /\ Processing(w, cur[w])
         /\ \A v \in Worker \ {w} : ~Processing(v, cur[w])
         /\ phaseBar[cur[w]] = "running"
<1>1. cur[w] \in Job /\ jobs[cur[w]] # NoRow
  BY DEF ClaimInv, CurOK, ClaimHeld
<1>2. cur[w] <= pushed
  BY <1>1, QueueAssumption DEF ClaimInv, UnusedIds, TypeOK, Job
<1>3. Processing(w, cur[w]) /\ \A v \in Worker \ {w} : ~Processing(v, cur[w])
  BY <1>1 DEF ClaimInv, NoDoubleProcessing, Processing
<1>4. ~(cur[w] > pushed)
  BY <1>1, <1>2, QueueAssumption DEF Job, TypeOK
<1>. QED  BY <1>1, <1>2, <1>3, <1>4, PhaseAt

(* A worker that lets go of its job and leaves the row in the table gives  *)
(* the job back.                                                           *)
LEMMA LetGoGivesBack ==
  ASSUME TypeOK, ClaimInv, NEW w \in Worker, pc[w] \in {"run", "ack"},
         NEW j \in Job, j = cur[w],
         pc'[w] \notin {"run", "ack"},
         \A v \in Worker \ {w} : pc'[v] = pc[v] /\ cur'[v] = cur[v],
         UNCHANGED <<pushed, ended>>,
         \A k \in Job : jobs'[k] = NoRow <=> jobs[k] = NoRow
  PROVE  JQ!GiveBack(j)
<1>1. /\ j <= pushed /\ jobs[j] # NoRow
      /\ \A v \in Worker \ {w} : ~Processing(v, j)
      /\ phaseBar[j] = "running"
  BY HeldIsRunning
<1>2. \A k \in Job \ {j} :
        (\E v \in Worker : Processing(v, k)') <=> (\E v \in Worker : Processing(v, k))
  BY DEF Processing
<1>3. phaseBar' = [phaseBar EXCEPT ![j] = phaseBar'[j]]
  BY <1>2, PhaseElsewhere
<1>4. phaseBar'[j] = "queued"
  <2>1. ~\E v \in Worker : Processing(v, j)'
    BY <1>1 DEF Processing
  <2>2. ~(j > pushed') /\ jobs'[j] # NoRow
    BY <1>1, QueueAssumption DEF Job, TypeOK
  <2>. QED  BY <2>1, <2>2 DEF phaseBar
<1>. QED  BY <1>1, <1>3, <1>4 DEF JQ!GiveBack, JQ!Move

(* A worker that removes its row, the way the job ended on record, settles *)
(* the job.                                                                *)
LEMMA RemovalSettles ==
  ASSUME TypeOK, ClaimInv, NEW w \in Worker, pc[w] \in {"run", "ack"},
         NEW j \in Job, j = cur[w], Advance(w, j),
         jobs' = [jobs EXCEPT ![j] = NoRow], pushed' = pushed,
         NEW last \in SUBSET {"done", "buried", "dropped"},
         ended[j] \union last # {},
         ended' = [ended EXCEPT ![j] = @ \union last]
  PROVE  JQ!Settle(j)
<1>1. j <= pushed /\ phaseBar[j] = "running"
  BY HeldIsRunning
<1>2. pc'[w] = "scan" /\ \A v \in Worker \ {w} : pc'[v] = pc[v] /\ cur'[v] = cur[v]
  BY AdvanceType
<1>3. \A k \in Job \ {j} :
        /\ jobs'[k] = NoRow <=> jobs[k] = NoRow
        /\ (\E v \in Worker : Processing(v, k)') <=> (\E v \in Worker : Processing(v, k))
  BY <1>2 DEF Processing, TypeOK
<1>4. phaseBar' = [phaseBar EXCEPT ![j] = phaseBar'[j]]
  BY <1>3, PhaseElsewhere
<1>5. phaseBar'[j] = "gone"
  BY <1>1, QueueAssumption DEF phaseBar, Job, TypeOK
<1>. QED  BY <1>1, <1>4, <1>5 DEF JQ!Settle, JQ!Move, JQ!Outcome

(* Every step of the tables and the workers is a step of the abstract      *)
(* queue, or leaves it as it is.                                           *)
LEMMA RefinementStep ==
  ASSUME MaxPass < RetryAfter
  PROVE  TypeOK /\ ClaimInv /\ EndedInv /\ [Next]_vars => [JQ!JQNext]_(JQ!jqvars)
<1> SUFFICES ASSUME TypeOK, ClaimInv, EndedInv, [Next]_vars
             PROVE  JQ!JQNext \/ UNCHANGED <<phaseBar, ended>>
  BY DEF JQ!jqvars
<1> DEFINE Done == JQ!JQNext \/ UNCHANGED <<phaseBar, ended>>
<1> USE QueueAssumption, NoRowAssumption
<1>0. CurOK /\ UnusedIds /\ ClaimHeld /\ NoDoubleProcessing
  BY DEF ClaimInv
(* The steps of a worker that has no job, which take none. *)
<1>1. ASSUME UNCHANGED <<jobs, pushed, ended>>,
             \A v \in Worker : \/ pc'[v] = pc[v] /\ cur'[v] = cur[v]
                               \/ pc'[v] \notin {"run", "ack"} /\ pc[v] \notin {"run", "ack"}
      PROVE  UNCHANGED <<phaseBar, ended>>
  <2>1. \A k \in Job, v \in Worker : Processing(v, k)' <=> Processing(v, k)
    BY <1>1 DEF Processing
  <2>. QED  BY <1>1, <2>1 DEF phaseBar
<1>2. CASE Tick \/ UNCHANGED vars
  BY <1>1, <1>2 DEF Tick, vars, table, pass, history
<1>3. ASSUME NEW n \in JobName, NEW d \in Delays, push(n, d) PROVE JQ!JQNext
  <2> DEFINE j == pushed + 1
             r == [job |-> n, attempts |-> 0,
                   available_at |-> IF d > 0 THEN clock + d ELSE 0, reserved_at |-> 0]
  <2>1. PICK i \in Job : i = j
    BY <1>3 DEF push, TypeOK, Job
  <2>2. r \in Row
    BY DEF TypeOK, Row
  <2>3. /\ jobs' = [jobs EXCEPT ![i] = r] /\ pushed' = i /\ pushed = i - 1
        /\ UNCHANGED <<pc, cur, ended>>
    BY <1>3, <2>1 DEF push, TypeOK, pass, history
  <2>4. \A v \in Worker : ~Processing(v, i)
    BY <1>0, <2>3 DEF Processing, ClaimHeld, UnusedIds, CurOK, Job
  <2>5. \A k \in Job, v \in Worker : Processing(v, k)' <=> Processing(v, k)
    BY <2>3 DEF Processing
  <2>6. \A k \in Job \ {i} : /\ k > pushed' <=> k > pushed
                             /\ jobs'[k] = NoRow <=> jobs[k] = NoRow
    BY <2>3 DEF TypeOK, Job
  <2>7. phaseBar' = [phaseBar EXCEPT ![i] = phaseBar'[i]]
    BY <2>5, <2>6, PhaseElsewhere
  <2>8. phaseBar[i] = "new"
    BY <2>3 DEF phaseBar, Job
  <2>9. phaseBar'[i] = "queued"
    <3>1. ~(i > pushed') /\ jobs'[i] # NoRow
      BY <2>2, <2>3 DEF TypeOK, Job
    <3>. QED  BY <3>1, <2>4, <2>5 DEF phaseBar
  <2>10. JQ!Accept(i)
    BY <2>3, <2>7, <2>8, <2>9 DEF JQ!Accept, JQ!Move
  <2>. QED  BY <2>10 DEF JQ!JQNext
<1>4. ASSUME NEW w \in Worker, Begin(w) \/ Fetch(w) \/ EndPass(w) PROVE Done
  BY <1>1, <1>4 DEF Begin, Fetch, EndPass, table, history, TypeOK
<1>5. ASSUME NEW w \in Worker, Skip(w) PROVE Done
  <2>1. PICK j \in Job : Advance(w, j)
    BY <1>5 DEF Skip
  <2>. QED  BY <1>1, <1>5, <2>1, AdvanceType DEF Skip, table, history
<1>6. ASSUME NEW w \in Worker, Claim(w) PROVE JQ!JQNext
  <2>1. PICK j \in Job, r \in Row :
          /\ Due(snap[w][j], now[w]) /\ ClaimWins(w, j) /\ snap[w][j] \in Row
          /\ cur' = [cur EXCEPT ![w] = j]
          /\ jobs' = [jobs EXCEPT ![j] = r]
    BY <1>6, ClaimRow
  <2>2. pc[w] = "scan" /\ pc' = [pc EXCEPT ![w] = "run"] /\ UNCHANGED <<pushed, ended>>
    BY <1>6 DEF Claim, history
  <2>3. \A v \in Worker : ~Processing(v, j)
    BY <1>0, <2>1, <2>2, ClaimFree
  <2>4. /\ pc'[w] = "run" /\ cur'[w] = j
        /\ \A v \in Worker \ {w} : pc'[v] = pc[v] /\ cur'[v] = cur[v]
    BY <2>1, <2>2 DEF TypeOK
  <2>5. \A k \in Job \ {j} :
          /\ jobs'[k] = NoRow <=> jobs[k] = NoRow
          /\ (\E v \in Worker : Processing(v, k)') <=> (\E v \in Worker : Processing(v, k))
    BY <2>1, <2>2, <2>4 DEF Processing, TypeOK
  <2>6. phaseBar' = [phaseBar EXCEPT ![j] = phaseBar'[j]]
    BY <2>2, <2>5, PhaseElsewhere
  <2>7. jobs[j] # NoRow /\ jobs'[j] # NoRow /\ ~(j > pushed)
    BY <1>0, <2>1 DEF ClaimWins, UnusedIds, TypeOK
  <2>8. phaseBar[j] = "queued"
    BY <2>3, <2>7 DEF phaseBar
  <2>9. phaseBar'[j] = "running"
    <3>1. Processing(w, j)'
      BY <2>4 DEF Processing
    <3>. QED  BY <2>2, <2>7, <3>1 DEF phaseBar
  <2>10. JQ!Take(j)
    BY <2>2, <2>6, <2>8, <2>9 DEF JQ!Take, JQ!Move
  <2>. QED  BY <2>10 DEF JQ!JQNext
<1>7. ASSUME NEW w \in Worker, HandlerReturns(w) \/ Bury(w) PROVE JQ!JQNext
  <2>1. PICK j \in Job : j = cur[w]
    BY <1>0, <1>7 DEF HandlerReturns, Bury, CurOK
  <2>2. phaseBar[j] = "running"
    BY <1>7, <2>1, HeldIsRunning DEF HandlerReturns, Bury
  <2>3. PICK o \in {"done", "buried"} : ended' = [ended EXCEPT ![j] = @ \union {o}]
    BY <1>7, <2>1 DEF HandlerReturns, Bury
  <2>4. /\ UNCHANGED <<jobs, pushed, cur>>
        /\ pc[w] = "run" /\ pc' = [pc EXCEPT ![w] = "ack"]
    BY <1>7 DEF HandlerReturns, Bury, table
  <2>5. \A k \in Job, v \in Worker : Processing(v, k)' <=> Processing(v, k)
    BY <2>4 DEF Processing, TypeOK
  <2>6. phaseBar' = phaseBar
    BY <2>4, <2>5 DEF phaseBar
  <2>7. JQ!Record(j, o)
    BY <2>2, <2>3, <2>6 DEF JQ!Record
  <2>. QED  BY <2>7 DEF JQ!JQNext, JQ!Outcome
<1>8. ASSUME NEW w \in Worker, Drop(w) PROVE JQ!JQNext
  <2>1. PICK j \in Job : j = cur[w]
    BY <1>0, <1>8 DEF Drop, CurOK
  <2>2. JQ!Settle(j)
    BY <1>8, <2>1, RemovalSettles DEF Drop
  <2>. QED  BY <2>2 DEF JQ!JQNext
<1>9. ASSUME NEW w \in Worker, Remove(w) PROVE JQ!JQNext
  <2>1. PICK j \in Job : j = cur[w]
    BY <1>0, <1>9 DEF Remove, CurOK
  <2>2. ended[j] # {} /\ ended' = [ended EXCEPT ![j] = @ \union {}]
    BY <1>9, <2>1 DEF Remove, EndedInv, history, TypeOK
  <2>3. JQ!Settle(j)
    BY <1>9, <2>1, <2>2, RemovalSettles DEF Remove
  <2>. QED  BY <2>3 DEF JQ!JQNext
<1>10. ASSUME NEW w \in Worker, Release(w) PROVE JQ!JQNext
  <2>1. PICK j \in Job : j = cur[w]
    BY <1>0, <1>10 DEF Release, CurOK
  <2>2. Advance(w, j) /\ \A k \in Job : jobs'[k] = NoRow <=> jobs[k] = NoRow
    BY <1>0, <1>10, <2>1, ReleaseRow DEF TypeOK
  <2>3. JQ!GiveBack(j)
    BY <1>10, <2>1, <2>2, AdvanceType, LetGoGivesBack DEF Release
  <2>. QED  BY <2>3 DEF JQ!JQNext
<1>11. ASSUME NEW w \in Worker, Crash(w) \/ WriteLost(w) \/ RecordThrows(w) PROVE Done
  <2>1. /\ pc'[w] \notin {"run", "ack"}
        /\ \A v \in Worker \ {w} : pc'[v] = pc[v] /\ cur'[v] = cur[v]
    <3>1. CASE Crash(w) \/ RecordThrows(w)
      BY <3>1 DEF Crash, RecordThrows, TypeOK
    <3>2. CASE WriteLost(w)
      <4>1. PICK j \in Job : Advance(w, j)
        BY <1>0, <3>2 DEF WriteLost, CurOK
      <4>. QED  BY <4>1, AdvanceType
    <3>. QED  BY <1>11, <3>1, <3>2
  <2>2. UNCHANGED <<jobs, pushed, ended>>
    BY <1>11 DEF Crash, WriteLost, RecordThrows, Fault, table, history
  <2>3. CASE pc[w] \in {"run", "ack"}
    <3>1. PICK j \in Job : j = cur[w]
      BY <1>0, <2>3 DEF CurOK
    <3>2. JQ!GiveBack(j)
      BY <2>1, <2>2, <2>3, <3>1, LetGoGivesBack
    <3>. QED  BY <3>2 DEF JQ!JQNext
  <2>4. CASE pc[w] \notin {"run", "ack"}
    BY <1>1, <2>1, <2>2, <2>4
  <2>. QED  BY <2>3, <2>4
<1>. QED
  BY <1>2, <1>3, <1>4, <1>5, <1>6, <1>7, <1>8, <1>9, <1>10, <1>11 DEF Next, Step

(* The driver implements the abstract queue if no pass of work() lasts as  *)
(* long as retry_after: a job is taken by one worker at a time, comes back *)
(* only when that worker gives up or dies, and leaves the table only from  *)
(* that worker's hands with its outcome on record.                         *)
THEOREM RefinesJobQueue ==
  ASSUME MaxPass < RetryAfter
  PROVE  Spec => ImplementsJobQueue
<1>1. Init => ClaimInv /\ EndedInv
  BY TypeInit DEF Init, ClaimInv, UnusedIds, ClaimHeld, NoDoubleProcessing, Processing,
                  Empty, EndedInv
<1>2. Init => JQ!JQInit
  BY QueueAssumption DEF Init, JQ!JQInit, phaseBar, Job
<1>3. TypeOK /\ ClaimInv /\ CurOK' /\ [Next]_vars => ClaimInv'
  BY ClaimStep
<1>4. TypeOK /\ ClaimInv /\ EndedInv /\ [Next]_vars => [JQ!JQNext]_(JQ!jqvars)
  BY RefinementStep
<1>. QED
  BY <1>1, <1>2, <1>3, <1>4, EndedStep, TypeCorrect, PTL DEF Spec, ImplementsJobQueue, JQ!JQSpec

-----------------------------------------------------------------------------
(* The retry budget of a lone worker.                                      *)

(* A lone worker's copy of a row it has still to walk has the attempts of  *)
(* the row: nobody else writes them.                                       *)
CopyFresh ==
  \A w \in Worker, j \in Job :
    snap[w][j] # NoRow => jobs[j] # NoRow /\ jobs[j].attempts = snap[w][j].attempts

(* 1 while the outcome of the row's attempt is on record and the row is    *)
(* not yet removed.                                                        *)
Pending(j) == IF \E w \in Worker : pc[w] = "ack" /\ cur[w] = j THEN 1 ELSE 0

(* What a job has used up, by the attempts its row shows. *)
Spent(j) ==
  /\ j > pushed => failures[j] = 0 /\ failed_jobs[j] = 0
  /\ jobs[j] # NoRow =>
       /\ jobs[j].attempts < MaxAttempts
       /\ failures[j] <= jobs[j].attempts + Pending(j) + faults
       /\ failed_jobs[j] <= Pending(j) + faults
  /\ jobs[j] = NoRow =>
       /\ failures[j] <= MaxAttempts + faults
       /\ failed_jobs[j] <= 1 + faults

BudgetInv == CopyFresh /\ \A j \in Job : Spent(j)

(* A delivery pends or does not. *)
LEMMA PendingType == \A j \in Job : Pending(j) \in {0, 1}
BY DEF Pending

(* Who is pending, after a step of the only worker. *)
LEMMA PendingLone ==
  ASSUME NEW w \in Worker, \A v \in Worker : v = w, NEW j \in Job
  PROVE  /\ Pending(j) = IF pc[w] = "ack" /\ cur[w] = j THEN 1 ELSE 0
         /\ Pending(j)' = IF pc'[w] = "ack" /\ cur'[w] = j THEN 1 ELSE 0
BY DEF Pending

(* A step that changes no attempts, and no outcome but for the removal it  *)
(* gives up against a fault, spends nothing.                               *)
LEMMA SpentKept ==
  ASSUME TypeOK, \A j \in Job : Spent(j),
         UNCHANGED <<pushed, failed_jobs, failures>>,
         faults' \in Nat, faults' >= faults,
         NEW j \in Job,
         jobs'[j] = NoRow <=> jobs[j] = NoRow,
         jobs[j] # NoRow => jobs[j] \in Row /\ jobs'[j].attempts = jobs[j].attempts,
         Pending(j)' + faults' >= Pending(j) + faults
  PROVE  Spent(j)'
<1>1. Pending(j) \in Nat /\ Pending(j)' \in Nat
  BY DEF Pending
<1>2. failures[j] \in Nat /\ failed_jobs[j] \in Nat /\ faults \in Nat
  BY DEF TypeOK
<1>3. jobs[j] # NoRow => jobs[j].attempts \in Nat
  BY DEF Row
<1>. QED  BY <1>1, <1>2, <1>3, QueueAssumption DEF Spent

(* Every step keeps the budget. *)
LEMMA BudgetStep ==
  ASSUME \A v, w \in Worker : v = w
  PROVE  TypeOK /\ TypeOK' /\ CurOK /\ UnusedIds /\ BudgetInv /\ [Next]_vars => BudgetInv'
<1> SUFFICES ASSUME TypeOK, TypeOK', CurOK, UnusedIds, BudgetInv, [Next]_vars PROVE BudgetInv'
  OBVIOUS
<1> USE QueueAssumption, NoRowAssumption
<1>0. CopyFresh /\ \A j \in Job : Spent(j)
  BY DEF BudgetInv
<1>a. /\ \A j \in Job : jobs[j] # NoRow => jobs[j] \in Row
      /\ \A w \in Worker, j \in Job : snap[w][j] # NoRow => snap[w][j] \in Row
  BY DEF TypeOK
<1> DEFINE Keeps == /\ UNCHANGED <<jobs, pushed, failed_jobs, failures>>
                    /\ faults' \in Nat /\ faults' >= faults
           NoMore == \A w \in Worker, j \in Job : snap'[w][j] \in {snap[w][j], NoRow}
(* The steps that write nothing. *)
<1>1. ASSUME Keeps, NoMore, \A j \in Job : Pending(j)' + faults' >= Pending(j) + faults
      PROVE  BudgetInv'
  <2>1. CopyFresh'
    BY <1>0, <1>1 DEF CopyFresh
  <2>2. \A j \in Job : Spent(j)'
    BY <1>0, <1>1, <1>a, SpentKept
  <2>. QED  BY <2>1, <2>2 DEF BudgetInv
<1>2. CASE Tick \/ UNCHANGED vars
  <2>1. Keeps /\ NoMore /\ UNCHANGED <<pc, cur>>
    BY <1>2 DEF Tick, vars, table, pass, history, TypeOK
  <2>2. \A j \in Job : Pending(j)' = Pending(j) /\ Pending(j) \in Nat
    BY <2>1, PendingType DEF Pending
  <2>3. \A j \in Job : Pending(j)' + faults' >= Pending(j) + faults
    BY <2>1, <2>2 DEF TypeOK
  <2>. QED  BY <1>1, <2>1, <2>3
<1>3. ASSUME NEW n \in JobName, NEW d \in Delays, push(n, d) PROVE BudgetInv'
  <2> DEFINE r == [job |-> n, attempts |-> 0,
                   available_at |-> IF d > 0 THEN clock + d ELSE 0, reserved_at |-> 0]
  <2>1. PICK i \in Job : i = pushed + 1
    BY <1>3 DEF push, TypeOK, Job
  <2>2. r \in Row /\ r.attempts = 0
    BY DEF TypeOK, Row
  <2>3. /\ jobs' = [jobs EXCEPT ![i] = r] /\ pushed' = pushed + 1
        /\ UNCHANGED <<pc, cur, snap, failed_jobs, faults, failures>>
    BY <1>3, <2>1 DEF push, pass, history
  <2> HIDE DEF r
  <2>4. jobs'[i] = r /\ \A k \in Job \ {i} : jobs'[k] = jobs[k]
    BY <2>3 DEF TypeOK
  <2>5. jobs[i] = NoRow
    BY <2>1 DEF UnusedIds, TypeOK, Job
  <2>6. CopyFresh'
    BY <1>0, <2>3, <2>4, <2>5 DEF CopyFresh
  <2>7. ASSUME NEW k \in Job PROVE Spent(k)'
    <3>1. Pending(k)' = Pending(k) /\ Pending(k) \in Nat
      BY <2>3, PendingType DEF Pending
    <3>2. Spent(k)
      BY <1>0
    <3>3. CASE k = i
      BY <3>1, <3>2, <3>3, <2>1, <2>2, <2>3, <2>4 DEF Spent, TypeOK, Job
    <3>4. CASE k # i
      BY <3>1, <3>2, <3>4, <2>1, <2>3, <2>4 DEF Spent, TypeOK, Job
    <3>. QED  BY <3>3, <3>4
  <2>. QED  BY <2>6, <2>7 DEF BudgetInv
<1>4. ASSUME NEW w \in Worker, Begin(w) \/ EndPass(w) \/ HandlerReturns(w) \/ Crash(w)
      PROVE  BudgetInv'
  <2>1. Keeps /\ NoMore
    BY <1>4 DEF Begin, EndPass, HandlerReturns, Crash, Empty, table, history, TypeOK
  <2>2. \/ pc[w] # "ack" /\ faults' = faults
        \/ faults' = faults + 1
    BY <1>4 DEF Begin, EndPass, HandlerReturns, Crash
  <2>3. ASSUME NEW j \in Job PROVE Pending(j)' + faults' >= Pending(j) + faults
    <3>1. /\ Pending(j) \in {0, 1} /\ Pending(j)' \in {0, 1} /\ faults \in Nat
          /\ pc[w] # "ack" => Pending(j) = 0
      BY PendingLone DEF TypeOK
    <3>. QED  BY <2>2, <3>1
  <2>. QED  BY <1>1, <2>1, <2>3
<1>5. ASSUME NEW w \in Worker, Fetch(w) PROVE BudgetInv'
  <2>1. /\ UNCHANGED <<jobs, pushed, failed_jobs, failures, faults>> /\ pc[w] # "ack"
        /\ snap' = [snap EXCEPT ![w] = jobs]
    BY <1>5 DEF Fetch, table, history
  <2>2. CopyFresh'
    BY <2>1 DEF CopyFresh, TypeOK
  <2>3. \A j \in Job : Pending(j)' + faults' >= Pending(j) + faults
    BY <2>1, PendingLone, SMTT(30) DEF TypeOK
  <2>4. \A j \in Job : Spent(j)'
    BY <1>0, <1>a, <2>1, <2>3, SpentKept DEF TypeOK
  <2>. QED  BY <2>2, <2>4 DEF BudgetInv
<1>6. ASSUME NEW w \in Worker, NEW j \in Job, Advance(w, j)
      PROVE  /\ pc'[w] = "scan" /\ snap'[w][j] = NoRow /\ NoMore
             /\ \A k \in Job \ {j} : snap'[w][k] = snap[w][k]
  BY <1>6 DEF Advance, TypeOK
<1>7. ASSUME NEW w \in Worker, Skip(w) PROVE BudgetInv'
  <2>1. PICK j \in Job : Advance(w, j)
    BY <1>7 DEF Skip
  <2>2. Keeps /\ pc[w] # "ack" /\ faults' = faults
    BY <1>7 DEF Skip, table, history, TypeOK
  <2>3. \A k \in Job : Pending(k)' + faults' >= Pending(k) + faults
    BY <2>2, PendingLone DEF TypeOK
  <2>. QED  BY <1>1, <1>6, <2>1, <2>2, <2>3
<1>8. ASSUME NEW w \in Worker, Claim(w) PROVE BudgetInv'
  <2>1. PICK j \in Job :
          /\ IsNext(w, j) /\ jobs[j] # NoRow
          /\ jobs' = [jobs EXCEPT ![j] = [snap[w][j] EXCEPT !.reserved_at = Stamp(w)]]
    BY <1>8 DEF Claim, ClaimWins
  <2>2. snap[w][j] \in Row /\ jobs[j].attempts = snap[w][j].attempts
    BY <1>0, <1>a, <2>1 DEF IsNext, CopyFresh
  <2>3. PICK r : r = [snap[w][j] EXCEPT !.reserved_at = Stamp(w)]
    OBVIOUS
  <2>4. r \in Row /\ r.attempts = snap[w][j].attempts
    BY <2>2, <2>3 DEF Row, Stamp, TypeOK
  <2>5. jobs'[j] = r /\ \A k \in Job \ {j} : jobs'[k] = jobs[k]
    BY <2>1, <2>3 DEF TypeOK
  <2>6. UNCHANGED <<pushed, failed_jobs, failures, faults, snap>> /\ pc[w] # "ack"
    BY <1>8 DEF Claim, history
  <2>7. \A k \in Job : /\ jobs'[k] = NoRow <=> jobs[k] = NoRow
                       /\ jobs[k] # NoRow => jobs'[k].attempts = jobs[k].attempts
    BY <2>1, <2>2, <2>4, <2>5
  <2>8. \A k \in Job : Pending(k)' + faults' >= Pending(k) + faults
    BY <2>6, PendingLone, SMTT(60) DEF TypeOK
  <2>9. \A k \in Job : Spent(k)'
    BY <1>0, <1>a, <2>6, <2>7, <2>8, SpentKept DEF TypeOK
  <2>10. CopyFresh'
    BY <1>0, <2>6, <2>7 DEF CopyFresh
  <2>. QED  BY <2>9, <2>10 DEF BudgetInv
(* The row goes, from the hands of the worker: what the last attempt spent *)
(* is within the budget.                                                   *)
<1>9. ASSUME NEW w \in Worker, Drop(w) \/ Remove(w) PROVE BudgetInv'
  <2>1. PICK j \in Job : j = cur[w] /\ snap[w][j] # NoRow
    BY <1>9 DEF Drop, Remove, CurOK
  <2>2. /\ jobs' = [jobs EXCEPT ![j] = NoRow] /\ Advance(w, j)
        /\ UNCHANGED <<pushed, failed_jobs, failures, faults>>
    BY <1>9, <2>1 DEF Drop, Remove, history
  <2>3. jobs'[j] = NoRow /\ \A k \in Job \ {j} : jobs'[k] = jobs[k]
    BY <2>2 DEF TypeOK
  <2>4. /\ snap'[w][j] = NoRow /\ \A k \in Job \ {j} : snap'[w][k] = snap[w][k]
        /\ pc'[w] = "scan"
    BY <1>6, <2>2
  <2>5. CopyFresh'
    BY <1>0, <2>3, <2>4 DEF CopyFresh
  <2>6. ASSUME NEW k \in Job PROVE Spent(k)'
    <3>1. Spent(k) /\ Pending(k) \in {0, 1} /\ failures[k] \in Nat /\ failed_jobs[k] \in Nat
          /\ faults \in Nat
      BY <1>0, PendingType DEF TypeOK
    <3>2. CASE k = j
      <4>1. jobs[j] # NoRow /\ jobs[j].attempts \in Nat
        BY <1>0, <1>a, <2>1 DEF CopyFresh, Row
      <4>. QED  BY <3>1, <3>2, <4>1, <2>2, <2>3 DEF Spent
    <3>3. CASE k # j
      <4>1. Pending(k)' = Pending(k)
        BY <3>3, <2>1, <2>4, PendingLone
      <4>. QED  BY <3>1, <3>3, <4>1, <2>2, <2>3 DEF Spent
    <3>. QED  BY <3>2, <3>3
  <2>. QED  BY <2>5, <2>6 DEF BudgetInv
(* A failed attempt: counted in the row, against the last attempt or       *)
(* against a fault.                                                        *)
<1>10. ASSUME NEW w \in Worker, NEW j \in Job, pc[w] = "run", j = cur[w],
              failures' = [failures EXCEPT ![j] = @ + 1], pushed' = pushed,
              failed_jobs' = failed_jobs \/ failed_jobs' = [failed_jobs EXCEPT ![j] = @ + 1],
              faults' \in Nat, faults' >= faults
       PROVE  \A k \in Job \ {j} : jobs'[k] = jobs[k] /\ Pending(k)' = Pending(k) => Spent(k)'
  <2> SUFFICES ASSUME NEW k \in Job, k # j, jobs'[k] = jobs[k], Pending(k)' = Pending(k)
               PROVE  Spent(k)'
    OBVIOUS
  <2>1. Spent(k) /\ failures'[k] = failures[k] /\ failed_jobs'[k] = failed_jobs[k]
    BY <1>0, <1>10 DEF TypeOK
  <2>2. Pending(k) \in {0, 1} /\ failures[k] \in Nat /\ failed_jobs[k] \in Nat /\ faults \in Nat
    BY PendingType DEF TypeOK
  <2>3. jobs[k] # NoRow => jobs[k].attempts \in Nat
    BY <1>a DEF Row
  <2>. QED  BY <1>10, <2>1, <2>2, <2>3 DEF Spent
<1>11. ASSUME NEW w \in Worker, pc[w] = "run"
       PROVE  \E j \in Job : /\ j = cur[w] /\ snap[w][j] # NoRow /\ snap[w][j] \in Row
                             /\ jobs[j] # NoRow /\ jobs[j].attempts = snap[w][j].attempts
                             /\ jobs[j].attempts \in Nat /\ jobs[j].attempts < MaxAttempts
                             /\ failures[j] <= jobs[j].attempts + faults
                             /\ failed_jobs[j] <= faults
                             /\ j <= pushed
                             /\ failures[j] \in Nat /\ failed_jobs[j] \in Nat
  <2>1. PICK j \in Job : j = cur[w] /\ snap[w][j] # NoRow
    BY <1>11 DEF CurOK
  <2>2. snap[w][j] \in Row /\ jobs[j] # NoRow /\ jobs[j].attempts = snap[w][j].attempts
    BY <1>0, <1>a, <2>1 DEF CopyFresh
  <2>3. jobs[j].attempts \in Nat
    BY <2>2 DEF Row
  <2>4. Pending(j) = 0
    BY <1>11, PendingLone
  <2>5. Spent(j) /\ failures[j] \in Nat /\ failed_jobs[j] \in Nat /\ faults \in Nat
    BY <1>0 DEF TypeOK
  <2>6. j <= pushed
    BY <2>2 DEF UnusedIds, TypeOK, Job
  <2>. QED  BY <2>1, <2>2, <2>3, <2>4, <2>5, <2>6 DEF Spent
<1>12. ASSUME NEW w \in Worker, Release(w) PROVE BudgetInv'
  <2>0. pc[w] = "run"
    BY <1>12 DEF Release
  <2>1. PICK j \in Job :
          /\ j = cur[w] /\ snap[w][j] # NoRow /\ snap[w][j] \in Row
          /\ jobs[j] # NoRow /\ jobs[j].attempts = snap[w][j].attempts
          /\ jobs[j].attempts \in Nat /\ jobs[j].attempts < MaxAttempts
          /\ failures[j] <= jobs[j].attempts + faults
          /\ failed_jobs[j] <= faults /\ j <= pushed
          /\ failures[j] \in Nat /\ failed_jobs[j] \in Nat
    BY <1>11, <2>0
  <2> DEFINE a == snap[w][j].attempts + 1
             t == IF RetryBackoff > 0 THEN now[w] + RetryBackoff * a ELSE 0
             r == [snap[w][j] EXCEPT !.attempts = a, !.reserved_at = 0, !.available_at = t]
  <2>2. a < MaxAttempts /\ jobs' = [jobs EXCEPT ![j] = r]
    BY <1>12, <2>1 DEF Release, AttemptsAfter, TypeOK
  <2>3. r.attempts = a
    BY <2>1 DEF Row
  <2> HIDE DEF r
  <2>4. jobs'[j] = r /\ \A k \in Job \ {j} : jobs'[k] = jobs[k]
    BY <2>2 DEF TypeOK
  <2>5. /\ failures' = [failures EXCEPT ![j] = @ + 1] /\ Advance(w, j)
        /\ UNCHANGED <<pushed, failed_jobs, faults>>
    BY <1>12, <2>1 DEF Release
  <2>6. /\ snap'[w][j] = NoRow /\ \A k \in Job \ {j} : snap'[w][k] = snap[w][k]
        /\ pc'[w] = "scan"
    BY <1>6, <2>5
  <2>7. CopyFresh'
    BY <1>0, <2>4, <2>6 DEF CopyFresh
  <2>8. \A k \in Job : Pending(k) = 0 /\ Pending(k)' = 0
    BY <2>0, <2>6, PendingLone
  <2>9. \A k \in Job \ {j} : Spent(k)'
    <3>1. \A k \in Job \ {j} : jobs'[k] = jobs[k] /\ Pending(k)' = Pending(k)
      BY <2>4, <2>8
    <3>2. faults' \in Nat /\ faults' >= faults
      BY <2>5 DEF TypeOK
    <3>. QED  BY <1>10, <2>0, <2>1, <2>5, <3>1, <3>2
  <2>10. Spent(j)'
    <3>1. failures'[j] = failures[j] + 1 /\ faults \in Nat /\ pushed \in Nat
      BY <2>5 DEF TypeOK
    <3>2. jobs'[j].attempts = jobs[j].attempts + 1 /\ jobs'[j].attempts < MaxAttempts
      BY <2>1, <2>2, <2>3, <2>4
    <3>3. Pending(j)' = 0 /\ ~(j > pushed')
      BY <2>1, <2>5, <2>8, <3>1 DEF Job
    <3>4. /\ failures'[j] <= jobs'[j].attempts + Pending(j)' + faults'
          /\ failed_jobs'[j] <= Pending(j)' + faults'
      BY <2>1, <2>5, <3>1, <3>2, <3>3
    <3>5. /\ failures'[j] <= MaxAttempts + faults'
          /\ failed_jobs'[j] <= 1 + faults'
      BY <2>1, <2>5, <3>1
    <3>. QED  BY <3>2, <3>3, <3>4, <3>5 DEF Spent
  <2>. QED  BY <2>7, <2>9, <2>10 DEF BudgetInv
<1>13. ASSUME NEW w \in Worker, Bury(w) PROVE BudgetInv'
  <2>0. pc[w] = "run"
    BY <1>13 DEF Bury
  <2>1. PICK j \in Job :
          /\ j = cur[w] /\ jobs[j] # NoRow
          /\ jobs[j].attempts \in Nat /\ jobs[j].attempts < MaxAttempts
          /\ failures[j] <= jobs[j].attempts + faults
          /\ failed_jobs[j] <= faults /\ j <= pushed
          /\ failures[j] \in Nat /\ failed_jobs[j] \in Nat
    BY <1>11, <2>0
  <2>2. /\ failures' = [failures EXCEPT ![j] = @ + 1]
        /\ failed_jobs' = [failed_jobs EXCEPT ![j] = @ + 1]
        /\ pc' = [pc EXCEPT ![w] = "ack"]
        /\ UNCHANGED <<jobs, pushed, snap, cur, faults>>
    BY <1>13, <2>1 DEF Bury
  <2>3. CopyFresh'
    BY <1>0, <2>2 DEF CopyFresh
  <2>4. pc'[w] = "ack" /\ cur'[w] = j
    BY <2>1, <2>2 DEF TypeOK
  <2>5. Pending(j)' = 1 /\ \A k \in Job \ {j} : Pending(k)' = Pending(k)
    BY <2>0, <2>1, <2>4, PendingLone
  <2>6. \A k \in Job \ {j} : Spent(k)'
    <3>1. \A k \in Job \ {j} : jobs'[k] = jobs[k] /\ Pending(k)' = Pending(k)
      BY <2>2, <2>5
    <3>2. faults' \in Nat /\ faults' >= faults
      BY <2>2 DEF TypeOK
    <3>. QED  BY <1>10, <2>0, <2>1, <2>2, <3>1, <3>2
  <2>7. Spent(j)'
    <3>1. /\ failures'[j] = failures[j] + 1 /\ failed_jobs'[j] = failed_jobs[j] + 1
          /\ faults \in Nat /\ pushed \in Nat
      BY <2>2 DEF TypeOK
    <3>. QED  BY <2>1, <2>2, <2>5, <3>1 DEF Spent, Job
  <2>. QED  BY <2>3, <2>6, <2>7 DEF BudgetInv
<1>14. ASSUME NEW w \in Worker, WriteLost(w) \/ RecordThrows(w) PROVE BudgetInv'
  <2>1. /\ UNCHANGED <<jobs, pushed, failed_jobs>> /\ faults' = faults + 1
        /\ faults \in Nat /\ faults' \in Nat
    BY <1>14 DEF WriteLost, RecordThrows, Fault, table, TypeOK
  <2>2. NoMore /\ pc'[w] # "ack"
    <3>1. CASE WriteLost(w)
      <4>1. PICK j \in Job : Advance(w, j)
        BY <3>1 DEF WriteLost, CurOK
      <4>. QED  BY <1>6, <4>1
    <3>2. CASE RecordThrows(w)
      BY <3>2 DEF RecordThrows, Empty, TypeOK
    <3>. QED  BY <1>14, <3>1, <3>2
  <2>3. CopyFresh'
    BY <1>0, <2>1, <2>2 DEF CopyFresh
  <2>4. CASE failures' = failures
    <3>1. \A j \in Job : Pending(j)' + faults' >= Pending(j) + faults
      BY <2>1, PendingLone
    <3>. QED  BY <1>1, <2>1, <2>2, <2>4, <3>1
  <2>5. CASE failures' # failures
    <3>1. pc[w] = "run" /\ failures' = [failures EXCEPT ![cur[w]] = @ + 1]
      BY <1>14, <2>5 DEF WriteLost, RecordThrows, history
    <3>2. PICK j \in Job :
            /\ j = cur[w] /\ jobs[j] # NoRow
            /\ jobs[j].attempts \in Nat /\ jobs[j].attempts < MaxAttempts
            /\ failures[j] <= jobs[j].attempts + faults
            /\ failed_jobs[j] <= faults /\ j <= pushed
            /\ failures[j] \in Nat /\ failed_jobs[j] \in Nat
      BY <1>11, <3>1
    <3>3. \A k \in Job : Pending(k) = 0 /\ Pending(k)' = 0
      BY <2>2, <3>1, PendingLone
    <3>4. \A k \in Job \ {j} : Spent(k)'
      <4>1. \A k \in Job \ {j} : jobs'[k] = jobs[k] /\ Pending(k)' = Pending(k)
        BY <2>1, <3>3
      <4>2. faults' >= faults
        BY <2>1
      <4>. QED  BY <1>10, <2>1, <3>1, <3>2, <4>1, <4>2
    <3>5. Spent(j)'
      <4>1. failures'[j] = failures[j] + 1 /\ pushed \in Nat
        BY <3>1, <3>2 DEF TypeOK
      <4>2. Pending(j)' = 0
        BY <3>3
      <4>. QED  BY <2>1, <3>2, <4>1, <4>2 DEF Spent, Job
    <3>. QED  BY <2>3, <3>4, <3>5 DEF BudgetInv
  <2>. QED  BY <2>4, <2>5
<1>. QED
  BY <1>2, <1>3, <1>4, <1>5, <1>7, <1>8, <1>9, <1>12, <1>13, <1>14 DEF Next, Step

(* The retry budget of a deployment with one worker, whatever its clock:   *)
(* its handler throws at most max_attempts times for a job and leaves at   *)
(* most one failed_jobs record, but for one more of each per death or      *)
(* refused write.  (With two workers a stale copy of the row may put an    *)
(* old attempts count back, so the hypothesis is needed.)                  *)
THEOREM LoneRetryBudget ==
  ASSUME \A v, w \in Worker : v = w
  PROVE  Spec => []RetryBudget
<1>1. Init => DeliveryInv
  BY TypeInit DEF Init, DeliveryInv, UnusedIds, NoLostJob, Empty
<1>2. Init => BudgetInv
  BY QueueAssumption DEF Init, BudgetInv, CopyFresh, Spent, Empty
<1>3. TypeOK /\ TypeOK' /\ CurOK /\ UnusedIds /\ BudgetInv /\ [Next]_vars => BudgetInv'
  BY BudgetStep
<1>4. DeliveryInv => UnusedIds
  BY DEF DeliveryInv
<1>5. TypeOK /\ BudgetInv => RetryBudget
  <2> SUFFICES ASSUME TypeOK, BudgetInv, NEW j \in Job
               PROVE  failures[j] <= MaxAttempts + faults /\ failed_jobs[j] <= 1 + faults
    BY DEF RetryBudget
  <2>1. /\ Spent(j) /\ Pending(j) \in {0, 1} /\ faults \in Nat
        /\ failures[j] \in Nat /\ failed_jobs[j] \in Nat
    BY PendingType DEF BudgetInv, TypeOK
  <2>2. jobs[j] # NoRow => jobs[j].attempts \in Nat
    BY DEF TypeOK, Row
  <2>. QED  BY <2>1, <2>2, QueueAssumption DEF Spent
<1>. QED  BY <1>1, <1>2, <1>3, <1>4, <1>5, DeliveryStep, TypeCorrect, PTL DEF Spec
=============================================================================
