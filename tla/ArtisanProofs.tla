---------------------------- MODULE ArtisanProofs ----------------------------
(***************************************************************************)
(* Theorems about Artisan, for any migrations and tasks: the migrations    *)
(* table stays in order over any sequence of commands, and each death and  *)
(* each refused call costs its agreement with the schema one migration at  *)
(* most; and the cadences of the scheduled tasks are kept from one process *)
(* to the next, but for what a refused read or write of a stamp costs.     *)
(***************************************************************************)
EXTENDS Artisan, FiniteSetTheorems, TLAPS

(* The migrations that the table and the schema disagree on. *)
Torn == {m \in 1..Count : schema[m] # IF m \in applied THEN 1..Parts[m] ELSE {}}

(* The migration at hand is as its up() or down() has left it, and was in  *)
(* order before.                                                           *)
Clean ==
  /\ stage = "change"
  /\ IF op = "run" THEN place \notin applied /\ schema[place] = 1..done
                   ELSE place \in applied /\ schema[place] = (done + 1)..Parts[place]

(* What deaths and refusals have to answer for. *)
Bad == {m \in Torn : ~(m = place /\ Clean)}
Faults(r, f) == r + f

MigTypeOK ==
  /\ backend \in {"sqlite", "memory"}
  /\ applied \subseteq 1..Count /\ schema \in [1..Count -> SUBSET Nat]
  /\ \A m \in 1..Count : schema[m] \subseteq 1..Parts[m]
  /\ op \in {"idle", "run", "rollback"} /\ place \in 0..(Count + 1)
  /\ stage \in {"ensure", "look", "change"} /\ done \in Nat
  /\ restarts \in Nat /\ refusals \in Nat /\ blind \in BOOLEAN

(* Which part of a command the migrator runs in. *)
StepInv ==
  /\ step = "migrate" => op = "run"
  /\ step = "roll_back" => op = "rollback"
  /\ op # "idle" => step \in {"migrate", "roll_back"}
  /\ op = "idle" => stage = "ensure"
  /\ stage # "change" => done = 0
  /\ cmd = "none" => step = "none"

(* The table names the migrations in order, and the loop is where the      *)
(* prefix ends: run() has passed what is applied, rollback() what is not,  *)
(* or what it could not read.                                              *)
OrderInv ==
  /\ ~blind => \A m \in applied : \A l \in 1..Count : l < m => l \in applied
  /\ op = "run" => place >= 1 /\ \A l \in 1..Count : l < place => l \in applied
  /\ op = "rollback" /\ backend = "sqlite" /\ ~blind => \A l \in 1..Count : l > place => l \notin applied
  /\ step \in {"body", "tick"} => \A l \in 1..Count : l \in applied

(* What up() or down() has done so far; up() of a migration that is        *)
(* applied is entered only when the table could not be read.               *)
ChangeInv ==
  stage = "change" =>
    /\ place \in 1..Count /\ done <= Parts[place]
    /\ op = "run" /\ place \in applied => refusals > 0
    /\ op = "rollback" => place \in applied
    /\ backend = "sqlite" =>
         \A i \in 1..done : (op = "run") = (i \in schema[place])

DriftInv == backend = "sqlite" => Cardinality(Bad) <= Faults(restarts, refusals)

MigInv == MigTypeOK /\ StepInv /\ OrderInv /\ ChangeInv /\ DriftInv

-----------------------------------------------------------------------------
TickTypeOK ==
  /\ time \in Nat /\ time >= DayLen
  /\ last_run \in [Task -> Nat] /\ fired_at \in [Task -> Nat] /\ shaky \subseteq Task
  /\ pc \in [Ticker -> {"idle", "check", "record", "run"}]
  /\ now \in [Ticker -> Nat] /\ at \in [Ticker -> 1..(Len(Tasks) + 1)]

(* One process at a time is ticking, in its own schedule:run. *)
LoneTick ==
  /\ \A k \in Ticker : pc[k] # "idle" => step = "tick"
  /\ \A j, k \in Ticker : pc[j] # "idle" /\ pc[k] # "idle" => j = k

(* The stamp of a task that is not shaky is not older than its run, and    *)
(* neither is in the future of the tick that reads it; a daily run was not *)
(* before its time.                                                        *)
StampInv ==
  /\ \A t \in Task : fired_at[t] <= time /\ last_run[t] <= time
  /\ \A t \in Task : t \notin shaky => fired_at[t] <= last_run[t]
  /\ \A t \in Daily : fired_at[t] # 0 => fired_at[t] >= today_at(t, fired_at[t])
  /\ \A k \in Ticker : pc[k] # "idle" =>
       /\ now[k] >= DayLen /\ now[k] <= time
       /\ \A t \in Task : last_run[t] <= now[k] /\ fired_at[t] <= now[k]

(* A run of t at instant n keeps t's cadence. *)
Timely(t, n) ==
  /\ t \in Every => fired_at[t] = 0 \/ n >= fired_at[t] + Interval[t]
  /\ t \in Daily => DayOf(fired_at[t]) # DayOf(n)

(* What a tick knows of the task it is about to stamp, or has stamped. *)
DueInv ==
  \A k \in Ticker :
    /\ pc[k] \in {"record", "run"} =>
         /\ at[k] <= Len(Tasks)
         /\ TaskOf(k) \in Daily => now[k] >= today_at(TaskOf(k), now[k])
         /\ TaskOf(k) \notin shaky => Timely(TaskOf(k), now[k])
    /\ pc[k] = "run" => TaskOf(k) \in shaky \/ last_run[TaskOf(k)] = now[k]

(* As long as nothing has died, a stamp stands for a run, but for the one  *)
(* under way, and the daily tasks that a tick has passed have run today.   *)
Ran(t, n) == t \in Daily /\ n >= today_at(t, n) => DayOf(fired_at[t]) = DayOf(n)

RanInv ==
  restarts = 0 =>
    /\ \A t \in Task : last_run[t] <= fired_at[t] \/ \E k \in Ticker : pc[k] = "run" /\ TaskOf(k) = t
    /\ \A k \in Ticker : pc[k] # "idle" => \A i \in 1..(at[k] - 1) : Ran(Tasks[i], now[k])

TickInv == TickTypeOK /\ LoneTick /\ StampInv /\ DueInv /\ RanInv

-----------------------------------------------------------------------------
(* How the drift may change.                                               *)

(* Sets of migrations are finite. *)
LEMMA FiniteDrift ==
  ASSUME NEW D \in SUBSET (1..Count)
  PROVE  IsFiniteSet(D) /\ Cardinality(D) \in Nat
<1>1. IsFiniteSet(1..Count)
  BY FS_Interval, ArtisanAssumption
<1>2. IsFiniteSet(D)
  BY <1>1, FS_Subset
<1> QED
  BY <1>2, FS_CardinalityType

(* A migration more is at most one more. *)
LEMMA DriftGrows ==
  ASSUME NEW D \in SUBSET (1..Count), NEW x, NEW E \in SUBSET (1..Count), E \subseteq D \union {x}
  PROVE  Cardinality(E) <= Cardinality(D) + 1
<1>0. IsFiniteSet(D) /\ Cardinality(D) \in Nat /\ Cardinality(E) \in Nat
  BY FiniteDrift
<1>1. IsFiniteSet(D \union {x}) /\ Cardinality(D \union {x}) \in Nat
      /\ Cardinality(D \union {x}) <= Cardinality(D) + 1
  <2>1. IsFiniteSet(D \union {x}) /\ (Cardinality(D \union {x}) = Cardinality(D) \/ Cardinality(D \union {x}) = Cardinality(D) + 1)
    BY <1>0, FS_AddElement
  <2> QED
    BY <1>0, <2>1
<1>2. Cardinality(E) <= Cardinality(D \union {x})
  BY <1>1, FS_Subset
<1> QED
  BY <1>0, <1>1, <1>2

(* Faults are counted, and never fewer than before. *)
LEMMA FaultsGrow ==
  ASSUME NEW r \in Nat, NEW f \in Nat, NEW r1 \in Nat, NEW f1 \in Nat, r1 >= r, f1 >= f
  PROVE  Faults(r, f) \in Nat /\ Faults(r1, f1) \in Nat /\ Faults(r1, f1) >= Faults(r, f)
BY DEF Faults

(* They are a number. *)
LEMMA FaultsType ==
  ASSUME NEW r \in Nat, NEW f \in Nat
  PROVE  Faults(r, f) \in Nat
BY DEF Faults

(* A fault may cost one migration; any other step costs none. *)
LEMMA DriftStep ==
  ASSUME MigInv, MigTypeOK', backend' = backend,
         backend = "sqlite" =>
           \/ Bad' \subseteq Bad /\ Faults(restarts', refusals') >= Faults(restarts, refusals)
           \/ Bad' \subseteq Bad \union {place} /\ Faults(restarts', refusals') = Faults(restarts, refusals) + 1
  PROVE  DriftInv'
<1>0. Bad \in SUBSET (1..Count) /\ Bad' \in SUBSET (1..Count)
  BY DEF Bad, Torn
<1>1. Cardinality(Bad) \in Nat /\ Cardinality(Bad') \in Nat /\ IsFiniteSet(Bad)
  BY <1>0, FiniteDrift
<1>2. Faults(restarts, refusals) \in Nat /\ Faults(restarts', refusals') \in Nat
  <2>1. restarts \in Nat /\ refusals \in Nat /\ restarts' \in Nat /\ refusals' \in Nat
    BY DEF MigInv, MigTypeOK
  <2> QED
    BY <2>1, FaultsType
<1> SUFFICES ASSUME backend = "sqlite" PROVE Cardinality(Bad') <= Faults(restarts', refusals')
  BY DEF DriftInv
<1>3. Cardinality(Bad) <= Faults(restarts, refusals)
  BY DEF MigInv, DriftInv
<1>4. CASE Bad' \subseteq Bad /\ Faults(restarts', refusals') >= Faults(restarts, refusals)
  <2>1. Cardinality(Bad') <= Cardinality(Bad)
    BY <1>1, <1>4, FS_Subset
  <2> QED
    BY <1>1, <1>2, <1>3, <1>4, <2>1
<1>5. CASE Bad' \subseteq Bad \union {place} /\ Faults(restarts', refusals') = Faults(restarts, refusals) + 1
  <2>1. Cardinality(Bad') <= Cardinality(Bad) + 1
    BY <1>0, <1>5, DriftGrows
  <2> QED
    BY <1>1, <1>2, <1>3, <1>5, <2>1
<1> QED
  BY <1>4, <1>5

(* Without faults nothing but the migration under way disagrees. *)
LEMMA NoDrift ==
  ASSUME MigInv, backend = "sqlite", Faults(restarts, refusals) = 0
  PROVE  Bad = {}
<1>1. IsFiniteSet(Bad) /\ Cardinality(Bad) \in Nat
  <2>1. Bad \in SUBSET (1..Count)
    BY DEF Bad, Torn
  <2> QED
    BY <2>1, FiniteDrift
<1>2. Cardinality(Bad) <= 0
  BY DEF MigInv, DriftInv
<1> QED
  BY <1>1, <1>2, FS_EmptySet

-----------------------------------------------------------------------------
(* The inductive invariant, action by action.                              *)

(* A step that leaves the migrator where it is. *)
LEMMA MigQuiet ==
  ASSUME MigInv, UNCHANGED <<backend, applied, schema, op, place, stage, done, blind>>,
         restarts' \in Nat, restarts' >= restarts, refusals' \in Nat, refusals' >= refusals,
         StepInv', step' \in {"body", "tick"} => step \in {"body", "tick"}
  PROVE  MigInv'
<1>1. MigTypeOK'
  BY DEF MigInv, MigTypeOK
<1>2. OrderInv'
  BY DEF MigInv, OrderInv
<1>3. ChangeInv'
  BY <1>1 DEF MigInv, MigTypeOK, ChangeInv
<1>4. Bad' = Bad /\ Faults(restarts', refusals') >= Faults(restarts, refusals)
  <2>1. restarts \in Nat /\ refusals \in Nat
    BY DEF MigInv, MigTypeOK
  <2>2. Faults(restarts', refusals') >= Faults(restarts, refusals)
    BY <2>1, FaultsGrow
  <2>3. Torn' = Torn /\ Clean' = Clean
    BY DEF Torn, Clean
  <2> QED
    BY <2>2, <2>3 DEF Bad
<1>5. DriftInv'
  BY <1>1, <1>4, DriftStep
<1> QED
  BY <1>1, <1>2, <1>3, <1>5 DEF MigInv

(* An exception, or a death, ends the command: the migration at hand is    *)
(* left as it is.                                                          *)
LEMMA MigAbandoned ==
  ASSUME MigInv, M!Abandon, UNCHANGED <<backend, applied, schema, blind>>, Exit,
         restarts' \in Nat, refusals' \in Nat,
         \/ Faults(restarts', refusals') = Faults(restarts, refusals) + 1
         \/ Faults(restarts', refusals') = Faults(restarts, refusals) /\ (backend = "sqlite" => ~Clean)
  PROVE  MigInv'
<1>0. Count \in Nat
  BY ArtisanAssumption
<1>1. op' = "idle" /\ place' = 0 /\ stage' = "ensure" /\ done' = 0 /\ step' = "none" /\ cmd' = "none"
  BY DEF M!Abandon, Exit
<1>2. MigTypeOK'
  BY <1>0, <1>1 DEF MigInv, MigTypeOK
<1>3. StepInv' /\ ChangeInv'
  BY <1>1 DEF StepInv, ChangeInv
<1>4. OrderInv'
  BY <1>1 DEF MigInv, OrderInv
<1>5. Bad' \subseteq Bad \union {place} /\ (~Clean => Bad' \subseteq Bad)
  BY DEF Bad, Torn
<1>6. Faults(restarts, refusals) \in Nat /\ Faults(restarts', refusals') \in Nat
  <2>1. restarts \in Nat /\ refusals \in Nat
    BY DEF MigInv, MigTypeOK
  <2> QED
    BY <2>1, FaultsType
<1>7. DriftInv'
  BY <1>2, <1>5, <1>6, DriftStep
<1> QED
  BY <1>2, <1>3, <1>4, <1>7 DEF MigInv

(* applied() is asked: nothing changes but where the loop is. *)
LEMMA MigLook ==
  ASSUME MigInv, NEW seen \in BOOLEAN, M!Look(seen), UNCHANGED <<restarts, step, cmd>>,
         \/ seen = (place \in applied) /\ UNCHANGED <<refusals, blind>>
         \/ seen = FALSE /\ refusals' = refusals + 1 /\ blind' = (blind \/ op = "rollback")
  PROVE  MigInv'
<1>0. Count \in Nat /\ Parts \in [1..Count -> Nat \ {0}]
  BY ArtisanAssumption
<1>1. /\ op # "idle" /\ stage = "look" /\ place \in 1..Count /\ done = 0
      /\ UNCHANGED <<backend, applied, schema, op, done>>
  BY DEF M!Look, M!Migration, MigInv, StepInv
<1>2. \/ (op = "run") = seen /\ stage' = stage /\ place' = IF op = "run" THEN place + 1 ELSE place - 1
      \/ (op = "run") # seen /\ stage' = "change" /\ place' = place
  BY DEF M!Look, M!Following
<1>3. /\ restarts \in Nat /\ refusals \in Nat /\ refusals' \in Nat /\ refusals' >= refusals
      /\ blind' \in BOOLEAN /\ (blind => blind')
  <2>1. restarts \in Nat /\ refusals \in Nat /\ blind \in BOOLEAN
    BY DEF MigInv, MigTypeOK
  <2>2. refusals' = refusals \/ refusals' = refusals + 1
    OBVIOUS
  <2>3. blind' \in BOOLEAN /\ (blind => blind')
    BY <2>1
  <2> QED
    BY <2>1, <2>2, <2>3
<1>4. op \in {"run", "rollback"}
  BY <1>1 DEF MigInv, MigTypeOK
<1>5. MigTypeOK'
  <2>1. place' \in 0..(Count + 1) /\ stage' \in {"ensure", "look", "change"}
    BY <1>0, <1>1, <1>2
  <2> QED
    BY <1>1, <1>3, <2>1 DEF MigInv, MigTypeOK
<1>6. StepInv'
  BY <1>1, <1>2 DEF MigInv, StepInv
<1>7. OrderInv'
  <2>1. ~blind' => \A m \in applied' : \A l \in 1..Count : l < m => l \in applied'
    BY <1>1, <1>3 DEF MigInv, OrderInv
  <2>2. ASSUME op' = "run" PROVE place' >= 1 /\ \A l \in 1..Count : l < place' => l \in applied'
    <3>1. place >= 1 /\ \A l \in 1..Count : l < place => l \in applied
      BY <1>1, <2>2 DEF MigInv, OrderInv
    <3>2. place' = place \/ (place' = place + 1 /\ place \in applied)
      BY <1>1, <1>2, <2>2
    <3> QED
      BY <1>0, <1>1, <3>1, <3>2
  <2>3. ASSUME op' = "rollback", backend' = "sqlite", ~blind'
        PROVE  \A l \in 1..Count : l > place' => l \notin applied'
    <3>1. ~blind /\ seen = (place \in applied) /\ \A l \in 1..Count : l > place => l \notin applied
      BY <1>1, <1>3, <2>3 DEF MigInv, OrderInv
    <3>2. place' = place \/ (place' = place - 1 /\ place \notin applied)
      BY <1>1, <1>2, <2>3, <3>1
    <3> QED
      BY <1>0, <1>1, <3>1, <3>2
  <2>4. step' \notin {"body", "tick"}
    BY <1>1 DEF MigInv, StepInv
  <2> QED
    BY <2>1, <2>2, <2>3, <2>4 DEF OrderInv
<1>8. ChangeInv'
  <2> SUFFICES ASSUME stage' = "change" PROVE ChangeInv'
    BY DEF ChangeInv
  <2>1. place' = place /\ (op = "run") # seen
    BY <1>1, <1>2
  <2>2. Parts[place] \in Nat /\ 1..done' = {}
    BY <1>0, <1>1
  <2>3. op = "run" /\ place \in applied => refusals' > 0
    BY <1>3, <2>1 DEF MigInv, MigTypeOK
  <2>4. op = "rollback" => place \in applied
    BY <2>1
  <2> QED
    BY <1>1, <2>1, <2>2, <2>3, <2>4 DEF ChangeInv
<1>9. Bad' \subseteq Bad /\ Faults(restarts', refusals') >= Faults(restarts, refusals)
  <2>1. Bad' \subseteq Bad
    BY <1>1 DEF Bad, Torn, Clean
  <2>2. Faults(restarts', refusals') >= Faults(restarts, refusals)
    <3>1. restarts' >= restarts
      BY <1>3
    <3> QED
      BY <1>3, <3>1, FaultsGrow
  <2> QED
    BY <2>1, <2>2
<1>10. DriftInv'
  BY <1>1, <1>5, <1>9, DriftStep
<1> QED
  BY <1>5, <1>6, <1>7, <1>8, <1>10 DEF MigInv

(* A statement of up() or down(): a migration that was in order before is  *)
(* as its statements have left it, and one that was not stays out of it,   *)
(* or comes into it.                                                       *)
LEMMA MigStatement ==
  ASSUME MigInv, M!Statement, UNCHANGED <<step, cmd>>
  PROVE  MigInv'
<1>0. Count \in Nat /\ Parts \in [1..Count -> Nat \ {0}]
  BY ArtisanAssumption
<1>1. /\ op \in {"run", "rollback"} /\ stage = "change" /\ place \in 1..Count /\ done \in Nat
      /\ done < Parts[place] /\ Parts[place] \in Nat /\ done' = done + 1
      /\ UNCHANGED <<backend, applied, op, place, stage, restarts, refusals, blind>>
  <2>1. op # "idle" /\ stage = "change" /\ done < Parts[place] /\ done' = done + 1
    BY DEF M!Statement, M!Changing
  <2> QED
    BY <1>0, <2>1 DEF M!Statement, MigInv, MigTypeOK, ChangeInv
<1>2. schema \in [1..Count -> SUBSET Nat] /\ schema[place] \subseteq 1..Parts[place]
  BY <1>1 DEF MigInv, MigTypeOK
<1>3. CASE backend = "memory"
  <2>1. schema' = schema
    BY <1>3 DEF M!Statement
  <2>2. MigTypeOK'
    BY <1>0, <1>1, <2>1 DEF MigInv, MigTypeOK
  <2>3. StepInv'
    BY <1>1 DEF MigInv, StepInv
  <2>4. OrderInv'
    BY <1>1 DEF MigInv, OrderInv
  <2>5. ChangeInv' /\ DriftInv'
    BY <1>1, <1>3 DEF MigInv, ChangeInv, DriftInv
  <2> QED
    BY <2>2, <2>3, <2>4, <2>5 DEF MigInv
<1>4. CASE backend = "sqlite"
  <2>1. schema' = [schema EXCEPT ![place] =
                     IF op = "run" THEN @ \union {done + 1} ELSE @ \ {done + 1}]
    BY <1>4 DEF M!Statement
  <2>2. op = "run" => done + 1 \notin schema[place]
    BY <1>4 DEF M!Statement, M!Exists
  <2>3. /\ schema' \in [1..Count -> SUBSET Nat]
        /\ schema'[place] = IF op = "run" THEN schema[place] \union {done + 1}
                                          ELSE schema[place] \ {done + 1}
        /\ \A m \in 1..Count \ {place} : schema'[m] = schema[m]
    BY <1>1, <1>2, <2>1
  <2>4. schema'[place] \subseteq 1..Parts[place]
    <3>1. done + 1 \in 1..Parts[place]
      BY <1>1
    <3> QED
      BY <1>2, <2>3, <3>1
  <2>5. MigTypeOK'
    <3>1. \A m \in 1..Count : schema'[m] \subseteq 1..Parts[m]
      BY <2>3, <2>4 DEF MigInv, MigTypeOK
    <3> QED
      BY <1>1, <2>3, <3>1 DEF MigInv, MigTypeOK
  <2>6. StepInv'
    BY <1>1 DEF MigInv, StepInv
  <2>7. OrderInv'
    BY <1>1 DEF MigInv, OrderInv
  <2>8. \A i \in 1..done : (op = "run") = (i \in schema[place])
    BY <1>1, <1>4 DEF MigInv, ChangeInv
  <2>9. ChangeInv'
    <3>1. \A i \in 1..done' : (op = "run") = (i \in schema'[place])
      <4> SUFFICES ASSUME NEW i \in 1..done' PROVE (op = "run") = (i \in schema'[place])
        OBVIOUS
      <4>1. i = done + 1 \/ (i \in 1..done /\ i # done + 1)
        BY <1>1
      <4> QED
        BY <2>3, <2>8, <4>1
    <3>2. done' <= Parts[place]
      BY <1>1
    <3> QED
      BY <1>1, <3>1, <3>2 DEF MigInv, ChangeInv
  <2>10. Bad' \subseteq Bad
    <3> SUFFICES ASSUME NEW m \in Bad' PROVE m \in Bad
      OBVIOUS
    <3>1. m \in 1..Count /\ m \in Torn'
      BY DEF Bad, Torn
    <3>2. CASE m # place
      <4>1. m \in Torn
        BY <1>1, <2>3, <3>1, <3>2 DEF Torn
      <4> QED
        BY <3>2, <4>1 DEF Bad
    <3>3. CASE m = place
      <4>1. ~Clean'
        BY <1>1, <3>3 DEF Bad
      <4>2. ~Clean
        <5> SUFFICES ASSUME Clean PROVE Clean'
          BY <4>1
        <5>1. CASE op = "run"
          <6>1. schema[place] = 1..done /\ place \notin applied
            BY <5>1 DEF Clean
          <6>2. schema'[place] = 1..(done + 1)
            BY <1>1, <2>3, <5>1, <6>1
          <6> QED
            BY <1>1, <5>1, <6>1, <6>2 DEF Clean
        <5>2. CASE op = "rollback"
          <6>1. schema[place] = (done + 1)..Parts[place] /\ place \in applied
            BY <5>2 DEF Clean
          <6>2. schema'[place] = (done + 1 + 1)..Parts[place]
            BY <1>1, <2>3, <5>2, <6>1
          <6> QED
            BY <1>1, <5>2, <6>1, <6>2 DEF Clean
        <5> QED
          BY <1>1, <5>1, <5>2
      <4>3. m \in Torn
        <5> SUFFICES ASSUME m \notin Torn PROVE FALSE
          OBVIOUS
        <5>1. schema[place] = IF place \in applied THEN 1..Parts[place] ELSE {}
          BY <1>1, <3>3 DEF Torn
        <5>2. CASE op = "run" /\ place \in applied
          <6>1. done + 1 \in 1..Parts[place]
            BY <1>1
          <6> QED
            BY <2>2, <5>1, <5>2, <6>1
        <5>3. CASE op = "run" /\ place \notin applied
          <6>1. 1..done = {}
            BY <2>8, <5>1, <5>3
          <6> QED
            BY <1>1, <4>2, <5>1, <5>3, <6>1 DEF Clean
        <5>4. CASE op = "rollback"
          <6>1. place \in applied /\ schema[place] = 1..Parts[place]
            BY <1>1, <5>1, <5>4 DEF MigInv, ChangeInv
          <6>2. done = 0
            <7>1. done # 0 => 1 \in 1..done /\ 1 \in 1..Parts[place]
              BY <1>1
            <7> QED
              BY <2>8, <5>4, <6>1, <7>1
          <6> QED
            BY <1>1, <4>2, <5>4, <6>1, <6>2 DEF Clean
        <5> QED
          BY <1>1, <5>2, <5>3, <5>4
      <4> QED
        BY <4>2, <4>3 DEF Bad
    <3> QED
      BY <3>2, <3>3
  <2>11. Faults(restarts', refusals') >= Faults(restarts, refusals)
    BY <1>1 DEF Faults, MigInv, MigTypeOK
  <2>12. DriftInv'
    BY <1>1, <2>5, <2>10, <2>11, DriftStep
  <2> QED
    BY <2>5, <2>6, <2>7, <2>9, <2>12 DEF MigInv
<1> QED
  BY <1>3, <1>4 DEF MigInv, MigTypeOK

(* record() brings the migration at hand into order. *)
LEMMA MigRecord ==
  ASSUME MigInv, M!Record, UNCHANGED <<step, cmd>>
  PROVE  MigInv'
<1>0. Count \in Nat /\ Parts \in [1..Count -> Nat \ {0}]
  BY ArtisanAssumption
<1>1. /\ op = "run" /\ stage = "change" /\ done = Parts[place] /\ applied' = applied \union {place}
      /\ place' = place + 1 /\ stage' = "look" /\ done' = 0
      /\ UNCHANGED <<backend, schema, op, restarts, refusals, blind>>
  BY DEF M!Record, M!Changed, M!Onward, M!Following
<1>2. place \in 1..Count /\ Parts[place] \in Nat
  BY <1>0, <1>1 DEF MigInv, ChangeInv
<1>3. MigTypeOK'
  BY <1>0, <1>1, <1>2 DEF MigInv, MigTypeOK
<1>4. StepInv' /\ ChangeInv'
  BY <1>1 DEF MigInv, StepInv, ChangeInv
<1>5. OrderInv'
  <2>1. \A l \in 1..Count : l < place => l \in applied
    BY <1>1 DEF MigInv, OrderInv
  <2>2. \A l \in 1..Count : l < place' => l \in applied'
    BY <1>1, <1>2, <2>1
  <2>3. ~blind => \A m \in applied' : \A l \in 1..Count : l < m => l \in applied'
    BY <1>1, <2>1 DEF MigInv, OrderInv
  <2> QED
    BY <1>1, <1>2, <2>2, <2>3 DEF MigInv, StepInv, OrderInv
<1>6. ASSUME backend = "sqlite" PROVE Bad' \subseteq Bad
  <2>1. schema[place] = 1..Parts[place]
    BY <1>1, <1>2, <1>6 DEF MigInv, MigTypeOK, ChangeInv
  <2> SUFFICES ASSUME NEW m \in Bad' PROVE m \in Bad
    OBVIOUS
  <2>2. m \in 1..Count /\ m # place
    BY <1>1, <2>1 DEF Bad, Torn
  <2> QED
    BY <1>1, <2>2 DEF Bad, Torn
<1>7. DriftInv'
  <2>1. Faults(restarts', refusals') >= Faults(restarts, refusals)
    BY <1>1 DEF Faults, MigInv, MigTypeOK
  <2> QED
    BY <1>1, <1>3, <1>6, <2>1, DriftStep
<1> QED
  BY <1>3, <1>4, <1>5, <1>7 DEF MigInv

(* So does forget(). *)
LEMMA MigForget ==
  ASSUME MigInv, M!Forget, UNCHANGED <<step, cmd>>
  PROVE  MigInv'
<1>0. Count \in Nat /\ Parts \in [1..Count -> Nat \ {0}]
  BY ArtisanAssumption
<1>1. /\ op = "rollback" /\ stage = "change" /\ done = Parts[place]
      /\ applied' = IF backend = "sqlite" THEN applied \ {place} ELSE applied
      /\ place' = place - 1 /\ stage' = "look" /\ done' = 0
      /\ UNCHANGED <<backend, schema, op, restarts, refusals, blind>>
  BY DEF M!Forget, M!Changed, M!Onward, M!Following
<1>2. place \in 1..Count /\ Parts[place] \in Nat /\ place \in applied
  BY <1>0, <1>1 DEF MigInv, ChangeInv
<1>3. MigTypeOK'
  BY <1>0, <1>1, <1>2 DEF MigInv, MigTypeOK
<1>4. StepInv' /\ ChangeInv'
  BY <1>1 DEF MigInv, StepInv, ChangeInv
<1>5. OrderInv'
  <2>1. step' \notin {"body", "tick"}
    BY <1>1 DEF MigInv, StepInv
  <2>2. CASE backend = "sqlite" /\ ~blind
    <3>1. \A m \in applied' : m \in 1..Count /\ m < place /\ m \in applied
      BY <1>0, <1>1, <1>2, <2>2 DEF MigInv, MigTypeOK, OrderInv
    <3>2. \A m \in applied' : \A l \in 1..Count : l < m => l \in applied'
      BY <1>1, <1>2, <2>2, <3>1 DEF MigInv, OrderInv
    <3>3. \A l \in 1..Count : l > place' => l \notin applied'
      BY <1>1, <1>2, <3>1
    <3> QED
      BY <1>1, <2>1, <3>2, <3>3 DEF OrderInv
  <2>3. CASE backend # "sqlite" \/ blind
    BY <1>1, <2>1, <2>3 DEF MigInv, OrderInv
  <2> QED
    BY <2>2, <2>3
<1>6. ASSUME backend = "sqlite" PROVE Bad' \subseteq Bad
  <2>1. schema[place] = {}
    BY <1>1, <1>2, <1>6 DEF MigInv, MigTypeOK, ChangeInv
  <2> SUFFICES ASSUME NEW m \in Bad' PROVE m \in Bad
    OBVIOUS
  <2>2. m \in 1..Count /\ m # place
    BY <1>1, <1>6, <2>1 DEF Bad, Torn
  <2> QED
    BY <1>1, <1>6, <2>2 DEF Bad, Torn
<1>7. DriftInv'
  <2>1. Faults(restarts', refusals') >= Faults(restarts, refusals)
    BY <1>1 DEF Faults, MigInv, MigTypeOK
  <2> QED
    BY <1>1, <1>3, <1>6, <2>1, DriftStep
<1> QED
  BY <1>3, <1>4, <1>5, <1>7 DEF MigInv

(* Every step of the migrator keeps MigInv. *)
LEMMA MigratingKeeps ==
  ASSUME MigInv, Migrating
  PROVE  MigInv'
<1>0. Count \in Nat
  BY ArtisanAssumption
<1>1. op \in {"run", "rollback"} /\ cmd # "none" /\ restarts \in Nat /\ refusals \in Nat
  BY DEF Migrating, MigInv, StepInv, MigTypeOK
<1>2. CASE M!ensure_table /\ UNCHANGED <<step, cmd>>
  <2>1. /\ stage = "ensure" /\ stage' = "look"
        /\ UNCHANGED <<backend, applied, schema, op, place, done, restarts, refusals, blind>>
    BY <1>2 DEF M!ensure_table
  <2>2. MigTypeOK'
    BY <2>1 DEF MigInv, MigTypeOK
  <2>3. StepInv' /\ ChangeInv'
    BY <1>1, <1>2, <2>1 DEF MigInv, StepInv, ChangeInv
  <2>4. OrderInv'
    BY <1>2, <2>1 DEF MigInv, OrderInv
  <2>5. Bad' = Bad /\ Faults(restarts', refusals') >= Faults(restarts, refusals)
    BY <1>1, <2>1 DEF Bad, Torn, Clean, Faults
  <2>6. DriftInv'
    BY <2>1, <2>2, <2>5, DriftStep
  <2> QED
    BY <2>2, <2>3, <2>4, <2>6 DEF MigInv
<1>3. CASE M!LookRight /\ UNCHANGED <<step, cmd>>
  <2>1. (place \in applied) \in BOOLEAN /\ M!Look(place \in applied) /\ UNCHANGED <<restarts, refusals, blind>>
    BY <1>3 DEF M!LookRight, M!Look
  <2> QED
    BY <1>3, <2>1, MigLook
<1>4. CASE M!LookBlind /\ UNCHANGED <<step, cmd>>
  <2>1. /\ M!Look(FALSE) /\ restarts' = restarts /\ refusals' = refusals + 1
        /\ blind' = (blind \/ op = "rollback")
    BY <1>4 DEF M!LookBlind, M!Look
  <2> QED
    BY <1>4, <2>1, MigLook
<1>5. CASE M!Record /\ UNCHANGED <<step, cmd>>
  BY <1>5, MigRecord
<1>6. CASE M!Forget /\ UNCHANGED <<step, cmd>>
  BY <1>6, MigForget
<1>7. CASE M!Statement /\ UNCHANGED <<step, cmd>>
  BY <1>7, MigStatement
<1>8. CASE /\ M!Finish
           /\ IF step = "migrate" THEN step' = "body" /\ UNCHANGED cmd ELSE Exit
  <2>1. /\ place \notin 1..Count /\ stage = "look" /\ M!Abandon
        /\ UNCHANGED <<backend, applied, schema, restarts, refusals, blind>>
    BY <1>8 DEF M!Finish, M!Migration
  <2>2. Faults(restarts', refusals') = Faults(restarts, refusals) /\ ~Clean
    BY <2>1 DEF Faults, Clean
  <2>3. CASE step # "migrate"
    BY <1>1, <1>8, <2>1, <2>2, <2>3, MigAbandoned
  <2>4. CASE step = "migrate"
    <3>1. /\ step' = "body" /\ cmd' = cmd /\ op' = "idle" /\ place' = 0 /\ stage' = "ensure" /\ done' = 0
      BY <1>8, <2>1, <2>4 DEF M!Abandon
    <3>2. \A l \in 1..Count : l \in applied
      <4>1. op = "run" /\ place >= 1 /\ place \in 0..(Count + 1)
        BY <2>4 DEF MigInv, MigTypeOK, StepInv, OrderInv
      <4>2. \A l \in 1..Count : l < place
        BY <1>0, <2>1, <4>1
      <4> QED
        BY <4>1, <4>2 DEF MigInv, OrderInv
    <3>3. MigTypeOK'
      BY <1>0, <2>1, <3>1 DEF MigInv, MigTypeOK
    <3>4. StepInv' /\ ChangeInv'
      BY <1>1, <3>1 DEF StepInv, ChangeInv
    <3>5. OrderInv'
      BY <2>1, <3>1, <3>2 DEF MigInv, OrderInv
    <3>6. Bad' \subseteq Bad
      BY <2>1, <2>2 DEF Bad, Torn
    <3>7. Faults(restarts', refusals') >= Faults(restarts, refusals)
      BY <1>1, <2>2 DEF Faults
    <3>8. DriftInv'
      BY <2>1, <3>3, <3>6, <3>7, DriftStep
    <3> QED
      BY <3>3, <3>4, <3>5, <3>8 DEF MigInv
  <2> QED
    BY <2>3, <2>4
<1>9. CASE M!Throws /\ Exit
  <2>1. /\ M!Abandon /\ op = "run" /\ backend = "sqlite" /\ done + 1 \in schema[place]
        /\ UNCHANGED <<backend, applied, schema, restarts, refusals, blind>>
    BY <1>9 DEF M!Throws, M!Exists
  <2>2. ~Clean
    <3>1. done \in Nat
      BY DEF MigInv, MigTypeOK
    <3>2. done + 1 \notin 1..done
      BY <3>1
    <3> QED
      BY <2>1, <3>2 DEF Clean
  <2>3. Faults(restarts', refusals') = Faults(restarts, refusals)
    BY <2>1 DEF Faults
  <2> QED
    BY <1>1, <1>9, <2>1, <2>2, <2>3, MigAbandoned
<1>10. CASE M!Refused /\ Exit
  <2>1. M!Abandon /\ refusals' = refusals + 1 /\ UNCHANGED <<backend, applied, schema, restarts, blind>>
    BY <1>10 DEF M!Refused
  <2>2. Faults(restarts', refusals') = Faults(restarts, refusals) + 1 /\ refusals' \in Nat
    BY <1>1, <2>1 DEF Faults
  <2> QED
    BY <1>1, <1>10, <2>1, <2>2, MigAbandoned
<1> QED
  BY <1>2, <1>3, <1>4, <1>5, <1>6, <1>7, <1>8, <1>9, <1>10 DEF Migrating

(* Every step keeps MigInv. *)
LEMMA MigStep ==
  ASSUME MigInv, [ArtisanNext]_artisanvars
  PROVE  MigInv'
<1>0. Count \in Nat /\ restarts \in Nat /\ refusals \in Nat
  BY ArtisanAssumption DEF MigInv, MigTypeOK
<1> DEFINE kept == <<backend, applied, schema, op, place, stage, done, blind>>
<1>2. ASSUME NEW c \in {"migrate", "migrate:rollback", "schedule:run"}, Launch(c)
      PROVE  MigInv'
  <2>1. /\ op = "idle" /\ step' = "boot" /\ cmd' # "none" /\ stage = "ensure" /\ step = "none"
        /\ UNCHANGED <<restarts, refusals, backend, schema, op, place, stage, done, blind>>
    BY <1>2 DEF Launch, MigInv, StepInv
  <2>2. StepInv'
    BY <2>1 DEF MigInv, StepInv
  <2>3. CASE backend = "memory"
    <3>1. applied' = {}
      BY <1>2, <2>3 DEF Launch
    <3>2. MigTypeOK'
      BY <2>1, <3>1 DEF MigInv, MigTypeOK
    <3>3. OrderInv' /\ ChangeInv' /\ DriftInv'
      BY <2>1, <2>3, <3>1 DEF OrderInv, ChangeInv, DriftInv
    <3> QED
      BY <2>2, <3>2, <3>3 DEF MigInv
  <2>4. CASE backend = "sqlite"
    <3>1. applied' = applied
      BY <1>2, <2>4 DEF Launch
    <3> QED
      BY <1>0, <2>1, <2>2, <3>1, MigQuiet
  <2> QED
    BY <2>3, <2>4 DEF MigInv, MigTypeOK
<1>3. CASE Boot
  <2>1. /\ step' = "migrate" /\ op' = "run" /\ place' = 1 /\ op = "idle" /\ step = "boot"
        /\ UNCHANGED <<backend, applied, schema, stage, done, restarts, refusals, blind, cmd>>
    BY <1>3 DEF Boot, M!run, M!Start
  <2>2. stage = "ensure"
    BY <2>1 DEF MigInv, StepInv
  <2>3. MigTypeOK'
    BY <1>0, <2>1 DEF MigInv, MigTypeOK
  <2>4. StepInv' /\ ChangeInv'
    BY <2>1, <2>2 DEF MigInv, StepInv, ChangeInv
  <2>5. OrderInv'
    BY <1>0, <2>1 DEF MigInv, OrderInv
  <2>6. Bad' \subseteq Bad
    BY <2>1, <2>2 DEF Bad, Torn, Clean
  <2>7. Faults(restarts', refusals') >= Faults(restarts, refusals)
    BY <1>0, <2>1 DEF Faults
  <2>8. DriftInv'
    BY <2>1, <2>3, <2>6, <2>7, DriftStep
  <2> QED
    BY <2>3, <2>4, <2>5, <2>8 DEF MigInv
<1>4. CASE Body
  <2>0. op = "idle" /\ stage = "ensure" /\ step = "body" /\ cmd # "none"
    BY <1>4 DEF Body, MigInv, StepInv
  <2>1. CASE Exit /\ UNCHANGED <<vars, migration>>
    <3>1. cmd' = "none" /\ step' = "none" /\ UNCHANGED <<kept, restarts, refusals>>
      BY <2>1 DEF Exit, migration, vars
    <3>2. StepInv'
      BY <2>0, <3>1 DEF MigInv, StepInv
    <3> QED
      BY <1>0, <3>1, <3>2, MigQuiet
  <2>2. CASE M!rollback /\ step' = "roll_back" /\ UNCHANGED <<cmd, time, ticking>>
    <3>1. /\ op' = "rollback" /\ place' = Count /\ step' = "roll_back"
          /\ UNCHANGED <<backend, applied, schema, stage, done, restarts, refusals, blind, cmd>>
      BY <2>2 DEF M!rollback, M!Start
    <3>2. MigTypeOK'
      BY <1>0, <3>1 DEF MigInv, MigTypeOK
    <3>3. StepInv' /\ ChangeInv'
      BY <2>0, <3>1 DEF MigInv, StepInv, ChangeInv
    <3>4. OrderInv'
      <4>1. \A l \in 1..Count : ~(l > place')
        BY <1>0, <3>1
      <4> QED
        BY <3>1, <4>1 DEF MigInv, OrderInv
    <3>5. Bad' \subseteq Bad
      BY <2>0, <3>1 DEF Bad, Torn, Clean
    <3>6. Faults(restarts', refusals') >= Faults(restarts, refusals)
      BY <1>0, <3>1 DEF Faults
    <3>7. DriftInv'
      BY <3>1, <3>2, <3>5, <3>6, DriftStep
    <3> QED
      BY <3>2, <3>3, <3>4, <3>7 DEF MigInv
  <2>3. CASE step' = "tick" /\ (\E k \in Ticker : Tick(k)) /\ UNCHANGED <<cmd, migration>>
    <3>1. step' = "tick" /\ UNCHANGED <<kept, cmd, restarts, refusals>>
      BY <2>3 DEF Tick, migration
    <3>2. StepInv'
      BY <2>0, <3>1 DEF MigInv, StepInv
    <3> QED
      BY <1>0, <2>0, <3>1, <3>2, MigQuiet
  <2> QED
    BY <1>4, <2>1, <2>2, <2>3 DEF Body
<1>5. CASE Migrating
  BY <1>5, MigratingKeeps
<1>6. CASE Die
  <2>1. CASE M!Die /\ Exit
    <3>1. /\ restarts' = restarts + 1 /\ M!Abandon /\ UNCHANGED <<backend, applied, schema, refusals, blind>>
      BY <2>1 DEF M!Die
    <3>2. Faults(restarts', refusals') = Faults(restarts, refusals) + 1 /\ restarts' \in Nat
      BY <1>0, <3>1 DEF Faults
    <3> QED
      BY <1>0, <2>1, <3>1, <3>2, MigAbandoned
  <2>2. CASE step = "tick" /\ (\E k \in Ticker : Restart(k)) /\ UNCHANGED migration /\ Exit
    <3>1. /\ restarts' = restarts + 1 /\ step' = "none" /\ cmd' = "none" /\ UNCHANGED <<kept, refusals>>
      BY <2>2 DEF Restart, Exit, migration
    <3>2. StepInv'
      BY <2>2, <3>1 DEF MigInv, StepInv
    <3> QED
      BY <1>0, <3>1, <3>2, MigQuiet
  <2> QED
    BY <1>6, <2>1, <2>2 DEF Die
<1>7. ASSUME NEW k \in Ticker, Ticking(k)
      PROVE  MigInv'
  <2>1. UNCHANGED kept
    BY <1>7 DEF Ticking, migration
  <2>2. restarts' = restarts /\ (refusals' = refusals \/ refusals' = refusals + 1)
    BY <1>7 DEF Ticking, Check, Run, Finish, Record, CheckBlind, RecordLost, RecordThrows, Refusing
  <2>3. step = "tick"
    BY <1>7 DEF Ticking
  <2>4. (step' = "none" /\ cmd' = "none") \/ UNCHANGED <<cmd, step>>
    BY <1>7 DEF Ticking, Exit
  <2>5. StepInv'
    BY <2>1, <2>3, <2>4 DEF MigInv, StepInv
  <2> QED
    BY <1>0, <2>1, <2>2, <2>3, <2>4, <2>5, MigQuiet
<1>8. CASE UNCHANGED <<kept, restarts, refusals, cmd, step>>
  <2>1. StepInv'
    BY <1>8 DEF MigInv, StepInv
  <2> QED
    BY <1>0, <1>8, <2>1, MigQuiet
<1>9. CASE Pass /\ UNCHANGED <<migration, cmd, step>>
  <2>1. UNCHANGED <<kept, restarts, refusals, cmd, step>>
    BY <1>9 DEF Pass, migration
  <2> QED
    BY <1>8, <2>1
<1>10. CASE UNCHANGED artisanvars
  <2>1. UNCHANGED <<kept, restarts, refusals, cmd, step>>
    BY <1>10 DEF artisanvars, vars, migration
  <2> QED
    BY <1>8, <2>1
<1> QED
  BY <1>2, <1>3, <1>4, <1>5, <1>6, <1>7, <1>9, <1>10 DEF ArtisanNext

(* MigInv says all that MigrationsAgree says. *)
LEMMA MigInvAgrees ==
  ASSUME MigInv
  PROVE  MigrationsAgree
<1>0. M!Torn = Torn /\ restarts \in Nat /\ refusals \in Nat
  BY DEF M!Torn, M!Migration, M!Tables, Torn, MigInv, MigTypeOK
<1>1. ASSUME restarts + refusals = 0, M!Changing
      PROVE  ~M!Exists
  <2> SUFFICES ASSUME M!Exists PROVE FALSE
    OBVIOUS
  <2>1. op = "run" /\ backend = "sqlite" /\ stage = "change" /\ done + 1 \in schema[place]
    BY <1>1 DEF M!Changing, M!Exists
  <2>2. Bad = {} /\ done \in Nat /\ refusals = 0
    BY <1>0, <1>1, <2>1, NoDrift DEF Faults, MigInv, MigTypeOK
  <2>3. place \in 1..Count /\ place \notin applied
    BY <2>1, <2>2 DEF MigInv, ChangeInv
  <2>4. place \in Torn
    BY <2>1, <2>3 DEF Torn
  <2>5. schema[place] = 1..done
    BY <2>1, <2>2, <2>4 DEF Bad, Clean
  <2>6. done + 1 \notin 1..done
    BY <2>2
  <2> QED
    BY <2>1, <2>5, <2>6
<1>2. ASSUME restarts + refusals = 0, step \in {"body", "tick"}
      PROVE  ~TableMissing
  <2> SUFFICES ASSUME backend = "sqlite" PROVE Parts[QueueTables] \in schema[QueueTables]
    BY DEF TableMissing
  <2>1. QueueTables \in 1..Count /\ Parts[QueueTables] \in 1..Parts[QueueTables]
    BY ArtisanAssumption
  <2>2. QueueTables \in applied /\ stage = "ensure"
    BY <1>2, <2>1 DEF MigInv, OrderInv, StepInv
  <2>3. QueueTables \notin Torn
    BY <1>2, <2>2, NoDrift DEF Faults, Bad, Clean
  <2> QED
    BY <2>1, <2>2, <2>3 DEF Torn
<1>3. ~blind => \A m \in applied : \A l \in 1..Count : l < m => l \in applied
  BY DEF MigInv, OrderInv
<1>4. ASSUME backend = "sqlite"
      PROVE  Cardinality(M!Torn) <= restarts + refusals + (IF stage = "change" THEN 1 ELSE 0)
  <2>1. Torn \in SUBSET (1..Count) /\ Bad \in SUBSET (1..Count)
    BY DEF Torn, Bad
  <2>2. Cardinality(Torn) \in Nat /\ Cardinality(Bad) \in Nat
    BY <2>1, FiniteDrift
  <2>3. Cardinality(Bad) <= restarts + refusals
    BY <1>4 DEF MigInv, DriftInv, Faults
  <2>4. CASE stage = "change"
    <3>1. Torn \subseteq Bad \union {place}
      BY DEF Bad
    <3>2. Cardinality(Torn) <= Cardinality(Bad) + 1
      BY <2>1, <3>1, DriftGrows
    <3> QED
      BY <1>0, <2>2, <2>3, <2>4, <3>2
  <2>5. CASE stage # "change"
    <3>1. Torn = Bad
      BY <2>5 DEF Bad, Clean
    <3> QED
      BY <1>0, <2>2, <2>3, <2>5, <3>1
  <2> QED
    BY <2>4, <2>5
<1> QED
  BY <1>1, <1>2, <1>3, <1>4 DEF MigrationsAgree

(* The first process starts from an empty database. *)
LEMMA MigStarts ==
  ASSUME ArtisanInit
  PROVE  MigInv
<1>0. Count \in Nat /\ Parts \in [1..Count -> Nat \ {0}]
  BY ArtisanAssumption
<1>1. /\ backend \in {"sqlite", "memory"} /\ applied = {} /\ schema = [m \in 1..Count |-> {}]
      /\ op = "idle" /\ place = 0 /\ stage = "ensure" /\ done = 0 /\ blind = FALSE
      /\ restarts = 0 /\ refusals = 0 /\ cmd = "none" /\ step = "none"
  BY DEF ArtisanInit, M!Init, M!Migration
<1>2. MigTypeOK
  <2>1. schema \in [1..Count -> SUBSET Nat] /\ \A m \in 1..Count : schema[m] \subseteq 1..Parts[m]
    BY <1>1
  <2>2. place \in 0..(Count + 1)
    BY <1>0, <1>1
  <2> QED
    BY <1>1, <2>1, <2>2 DEF MigTypeOK
<1>3. StepInv /\ OrderInv /\ ChangeInv
  BY <1>1 DEF StepInv, OrderInv, ChangeInv
<1>4. DriftInv
  <2>1. Bad = {}
    BY <1>1 DEF Bad, Torn
  <2> QED
    BY <1>1, <2>1, FS_EmptySet DEF DriftInv, Faults
<1> QED
  BY <1>2, <1>3, <1>4 DEF MigInv

(* However operators and cron order their commands, whichever statements   *)
(* SQLite refuses and wherever processes die, for any migrations of any    *)
(* number of tables: the `migrations` table is a prefix of the list unless *)
(* a rollback could not read it, it differs from the schema by at most one *)
(* migration for each death and each refusal besides the one under way,    *)
(* and until the first of these Schema::create() never meets its own table *)
(* and a booted command has its tables.                                    *)
THEOREM MigrationsStayInStep == ArtisanSpec => []MigrationsAgree
<1>1. ArtisanInit => MigInv
  BY MigStarts
<1>2. MigInv /\ [ArtisanNext]_artisanvars => MigInv'
  BY MigStep
<1>3. MigInv => MigrationsAgree
  BY MigInvAgrees
<1> QED
  BY <1>1, <1>2, <1>3, PTL DEF ArtisanSpec

-----------------------------------------------------------------------------
(* Days.                                                                   *)

(* An instant after the first day is on a later day than 0, "no stamp". *)
LEMMA NotDayZero ==
  ASSUME NEW n \in Nat, n >= DayLen
  PROVE  DayOf(0) # DayOf(n)
<1>1. DayLen \in Nat \ {0}
  BY ScheduleAssumption
<1>2. 0 \div DayLen = 0
  BY <1>1
<1>3. n \div DayLen # 0
  BY <1>1
<1> QED
  BY <1>2, <1>3 DEF DayOf

(* A task's time today is a natural number, on no earlier day. *)
LEMMA TodayAtType ==
  ASSUME NEW t \in Daily, NEW n \in Nat
  PROVE  today_at(t, n) \in Nat /\ HourOf(t) \in Nat /\ (n \div DayLen) * DayLen <= today_at(t, n)
<1>1. DayLen \in Nat \ {0} /\ HourOf(t) \in Nat
  BY ScheduleAssumption DEF HourOf
<1>2. n \div DayLen \in Nat
  BY <1>1
<1>3. (n \div DayLen) * DayLen \in Nat
  BY <1>1, <1>2
<1> QED
  BY <1>1, <1>3 DEF today_at, DayOf

(* A stamp at or after the task's time today, and not later than now, is    *)
(* of today.                                                               *)
LEMMA StampOfToday ==
  ASSUME NEW t \in Daily, NEW n \in Nat, NEW m \in Nat, m <= n, m >= today_at(t, n)
  PROVE  DayOf(m) = DayOf(n)
<1>1. DayLen \in Nat \ {0}
  BY ScheduleAssumption
<1>2. m >= (n \div DayLen) * DayLen
  <2>1. (n \div DayLen) * DayLen \in Int
    BY <1>1
  <2> QED
    BY <2>1, TodayAtType
<1>3. m \div DayLen = n \div DayLen
  BY <1>1, <1>2
<1> QED
  BY <1>3 DEF DayOf

(* Times of one day are the same for instants of that day. *)
LEMMA SameDaySameTime ==
  ASSUME NEW t, NEW n, NEW m, DayOf(m) = DayOf(n)
  PROVE  today_at(t, m) = today_at(t, n)
BY DEF today_at

(* At or after the task's time today, by the clock. *)
LEMMA ClockTime ==
  ASSUME NEW t \in Daily, NEW n \in Nat, n >= today_at(t, n), Clock[t].colon
  PROVE  n % DayLen >= Clock[t].hour
<1>1. DayLen \in Nat \ {0} /\ Clock[t].hour \in Nat
  BY ScheduleAssumption
<1>2. n >= (n \div DayLen) * DayLen + Clock[t].hour
  BY DEF today_at, DayOf, HourOf
<1> QED
  BY <1>1, <1>2

(* The tasks the loop walks. *)
LEMMA TaskTypes ==
  /\ Len(Tasks) \in Nat /\ \A i \in 1..Len(Tasks) : Tasks[i] \in Task
  /\ Every \subseteq Task /\ Daily \subseteq Task /\ \A t \in Task : t \in Every \/ t \in Daily
  /\ \A t \in Every : Interval[t] \in Nat /\ t \notin Daily
  /\ DayLen \in Nat \ {0}
BY ScheduleAssumption

(* A task that its closure calls due may run, unless it is shaky: the      *)
(* stamp is not older than the run, so the run is as long past.            *)
LEMMA DueIsTimely ==
  ASSUME TickTypeOK, StampInv, NEW t \in Task, NEW n \in Nat, n >= DayLen, Due(t, n, last_run[t]),
         t \notin shaky
  PROVE  Timely(t, n)
<1>1. last_run[t] \in Nat /\ fired_at[t] \in Nat /\ fired_at[t] <= last_run[t]
  BY DEF TickTypeOK, StampInv
<1>2. CASE t \in Every
  <2>1. last_run[t] = 0 \/ n - last_run[t] >= Interval[t]
    BY <1>2 DEF Due
  <2>2. fired_at[t] = 0 \/ n >= fired_at[t] + Interval[t]
    BY <1>1, <1>2, <2>1, TaskTypes
  <2> QED
    BY <1>2, <2>2, TaskTypes DEF Timely
<1>3. CASE t \in Daily
  <2>1. n >= today_at(t, n) /\ last_run[t] < today_at(t, n)
    BY <1>3, TaskTypes DEF Due
  <2>2. today_at(t, n) \in Nat
    BY <1>3, TodayAtType
  <2>3. CASE fired_at[t] = 0
    BY <1>3, <2>3, NotDayZero, TaskTypes DEF Timely
  <2>4. CASE fired_at[t] # 0
    <3>1. fired_at[t] >= today_at(t, fired_at[t])
      BY <1>3, <2>4 DEF StampInv
    <3>2. ASSUME DayOf(fired_at[t]) = DayOf(n) PROVE FALSE
      <4>1. today_at(t, fired_at[t]) = today_at(t, n)
        BY <3>2, SameDaySameTime
      <4> QED
        BY <1>1, <2>1, <2>2, <3>1, <4>1
    <3> QED
      BY <1>3, <3>2, TaskTypes DEF Timely
  <2> QED
    BY <2>3, <2>4
<1> QED
  BY <1>2, <1>3, TaskTypes

-----------------------------------------------------------------------------
(* The schedule's invariant, action by action.                             *)

(* Time may pass and processes come, go and die around a tick. *)
LEMMA QuietTick ==
  ASSUME TickInv, UNCHANGED <<last_run, fired_at, shaky, pc, now, at>>, time' \in Nat, time' >= time,
         restarts' = 0 => restarts = 0,
         step' = step \/ \A k \in Ticker : pc[k] = "idle"
  PROVE  TickInv'
<1>0. DayLen \in Nat /\ time \in Nat
  BY TaskTypes DEF TickInv, TickTypeOK
<1>1. TickTypeOK'
  BY <1>0 DEF TickInv, TickTypeOK
<1>2. LoneTick'
  BY DEF TickInv, LoneTick
<1>3. StampInv'
  BY <1>0, TaskTypes DEF TickInv, StampInv, TickTypeOK
<1>4. DueInv'
  BY DEF TickInv, DueInv, Timely, TaskOf
<1>5. RanInv'
  BY DEF TickInv, RanInv, Ran, TaskOf
<1> QED
  BY <1>1, <1>2, <1>3, <1>4, <1>5 DEF TickInv

(* The stamps go, with their table or with the process, when no tick is on. *)
LEMMA ClearedTick ==
  ASSUME TickInv, NoStamps, UNCHANGED <<time, pc, now, at, restarts>>, \A k \in Ticker : pc[k] = "idle"
  PROVE  TickInv'
<1>0. DayLen \in Nat /\ time \in Nat
  BY TaskTypes DEF TickInv, TickTypeOK
<1>1. TickTypeOK'
  BY DEF TickInv, TickTypeOK, NoStamps
<1>2. LoneTick'
  BY DEF TickInv, LoneTick
<1>3. StampInv'
  BY <1>0, TaskTypes DEF TickInv, StampInv, TickTypeOK, NoStamps
<1>4. DueInv'
  BY DEF TickInv, DueInv
<1>5. RanInv'
  BY DEF TickInv, RanInv, NoStamps
<1> QED
  BY <1>1, <1>2, <1>3, <1>4, <1>5 DEF TickInv

(* run_pending() reads the clock. *)
LEMMA StartTick ==
  ASSUME TickInv, NEW k \in Ticker, Tick(k), step' = "tick", \A j \in Ticker : pc[j] = "idle"
  PROVE  TickInv'
<1>0. DayLen \in Nat /\ time \in Nat /\ time >= DayLen /\ Len(Tasks) \in Nat
  BY TaskTypes DEF TickInv, TickTypeOK
<1>1. /\ pc' = [pc EXCEPT ![k] = "check"] /\ now' = [now EXCEPT ![k] = time] /\ at' = [at EXCEPT ![k] = 1]
      /\ UNCHANGED <<time, last_run, restarts, fired_at, shaky>>
  BY DEF Tick
<1>2. TickTypeOK'
  BY <1>0, <1>1 DEF TickInv, TickTypeOK
<1>3. /\ pc'[k] = "check" /\ now'[k] = time /\ at'[k] = 1
      /\ \A j \in Ticker \ {k} : pc'[j] = "idle"
  BY <1>1 DEF TickInv, TickTypeOK
<1>4. LoneTick'
  BY <1>3 DEF LoneTick
<1>5. StampInv'
  BY <1>0, <1>1, <1>3, TaskTypes DEF TickInv, StampInv, TickTypeOK
<1>6. DueInv'
  BY <1>3 DEF DueInv
<1>7. RanInv'
  BY <1>0, <1>1, <1>3 DEF TickInv, RanInv
<1> QED
  BY <1>2, <1>4, <1>5, <1>6, <1>7 DEF TickInv

(* The process that ticks dies. *)
LEMMA DeadTick ==
  ASSUME TickInv, Persist, restarts \in Nat, NEW k \in Ticker, pc[k] # "idle", Restart(k)
  PROVE  TickInv'
<1>0. DayLen \in Nat /\ time \in Nat /\ Len(Tasks) \in Nat
  BY TaskTypes DEF TickInv, TickTypeOK
<1>1. /\ pc' = [pc EXCEPT ![k] = "idle"] /\ at' = [at EXCEPT ![k] = 1]
      /\ UNCHANGED <<time, now, last_run, fired_at, shaky>> /\ restarts' # 0
  BY DEF Restart, Goto
<1>2. TickTypeOK'
  BY <1>0, <1>1 DEF TickInv, TickTypeOK
<1>3. \A j \in Ticker : pc'[j] = "idle"
  BY <1>1 DEF TickInv, TickTypeOK, LoneTick
<1>4. LoneTick' /\ DueInv'
  BY <1>3 DEF LoneTick, DueInv
<1>5. StampInv'
  BY <1>1, <1>3 DEF TickInv, StampInv
<1>6. RanInv'
  BY <1>1 DEF RanInv
<1> QED
  BY <1>2, <1>4, <1>5, <1>6 DEF TickInv

(* A step of run_pending(). *)
LEMMA TickingKeeps ==
  ASSUME MigInv, TickInv, NEW k \in Ticker, Ticking(k)
  PROVE  TickInv'
<1> DEFINE t == TaskOf(k)
           n == now[k]
<1>0. /\ DayLen \in Nat /\ time \in Nat /\ Len(Tasks) \in Nat /\ n \in Nat /\ at[k] \in 1..(Len(Tasks) + 1)
      /\ \A u \in Task : last_run[u] \in Nat /\ fired_at[u] \in Nat
  BY TaskTypes DEF TickInv, TickTypeOK
<1>1. pc[k] # "idle" /\ step = "tick" /\ UNCHANGED <<time, now, restarts>>
  BY DEF Ticking, Check, Run, Finish, Record, CheckBlind, RecordLost, RecordThrows
<1>2. \A j \in Ticker \ {k} : pc[j] = "idle"
  BY <1>1 DEF TickInv, LoneTick
<1>3. n >= DayLen /\ n <= time /\ \A u \in Task : last_run[u] <= n /\ fired_at[u] <= n
  BY <1>1 DEF TickInv, StampInv
<1>4. ASSUME NEW to \in {"idle", "check", "record", "run"}, NEW place1 \in 1..(Len(Tasks) + 1),
             Goto(k, to, place1), last_run' \in [Task -> Nat], fired_at' \in [Task -> Nat],
             shaky' \subseteq Task
      PROVE  /\ TickTypeOK' /\ LoneTick'
             /\ pc'[k] = to /\ at'[k] = place1 /\ \A j \in Ticker \ {k} : pc'[j] = "idle"
  <2>1. pc' = [pc EXCEPT ![k] = to] /\ at' = [at EXCEPT ![k] = place1]
    BY <1>4 DEF Goto
  <2>2. TickTypeOK'
    BY <1>1, <1>4, <2>1 DEF TickInv, TickTypeOK
  <2>3. pc'[k] = to /\ at'[k] = place1 /\ \A j \in Ticker \ {k} : pc'[j] = "idle"
    BY <1>2, <2>1 DEF TickInv, TickTypeOK
  <2>4. to # "idle" => step' = step
    BY <2>3 DEF Ticking
  <2>5. LoneTick'
    BY <1>1, <2>3, <2>4 DEF LoneTick
  <2> QED
    BY <2>2, <2>3, <2>5
<1>5. ASSUME pc[k] = "check", at[k] \in 1..Len(Tasks), UNCHANGED <<last_run, fired_at>>,
             NEW last \in {0, last_run[t]}, NEW blindly \in BOOLEAN, ~blindly => last = last_run[t],
             shaky' = IF Due(t, n, last) /\ blindly THEN shaky \union {t} ELSE shaky,
             IF Due(t, n, last) THEN Goto(k, "record", at[k]) ELSE Goto(k, "check", at[k] + 1)
      PROVE  TickInv'
  <2>1. pc[k] = "check" /\ at[k] \in 1..Len(Tasks) /\ UNCHANGED <<last_run, fired_at>>
    BY <1>5
  <2>2. last_run' \in [Task -> Nat] /\ fired_at' \in [Task -> Nat] /\ t \in Task
    BY <2>1, TaskTypes DEF TickInv, TickTypeOK, TaskOf
  <2>6. shaky' \subseteq Task /\ shaky \subseteq shaky'
    BY <1>5, <2>2 DEF TickInv, TickTypeOK
  <2>3. ASSUME \A j \in Ticker \ {k} : pc'[j] = "idle" PROVE StampInv'
    BY <1>1, <1>3, <2>1, <2>3, <2>6 DEF TickInv, StampInv
  <2>4. CASE Due(t, n, last)
    <3>1. Goto(k, "record", at[k])
      BY <1>5, <2>4
    <3>2. /\ TickTypeOK' /\ LoneTick'
          /\ pc'[k] = "record" /\ at'[k] = at[k] /\ \A j \in Ticker \ {k} : pc'[j] = "idle"
      BY <1>0, <1>4, <2>2, <2>6, <3>1
    <3>3. t \notin shaky' => Timely(t, n)
      <4> SUFFICES ASSUME t \notin shaky' PROVE Timely(t, n)
        OBVIOUS
      <4>1. t \notin shaky /\ last = last_run[t]
        BY <1>5, <2>4
      <4> QED
        BY <1>0, <1>3, <2>2, <2>4, <4>1, DueIsTimely DEF TickInv
    <3>6. t \in Daily => n >= today_at(t, n)
      BY <2>4, TaskTypes DEF Due
    <3>4. DueInv'
      BY <1>1, <2>1, <3>2, <3>3, <3>6 DEF DueInv, TaskOf, Timely
    <3>5. RanInv'
      BY <1>1, <1>2, <2>1, <3>2 DEF TickInv, RanInv, Ran
    <3> QED
      BY <2>3, <3>2, <3>4, <3>5 DEF TickInv
  <2>5. CASE ~Due(t, n, last)
    <3>1. Goto(k, "check", at[k] + 1) /\ at[k] + 1 \in 1..(Len(Tasks) + 1)
      BY <1>0, <1>5, <2>1, <2>5
    <3>2. /\ TickTypeOK' /\ LoneTick'
          /\ pc'[k] = "check" /\ at'[k] = at[k] + 1 /\ \A j \in Ticker \ {k} : pc'[j] = "idle"
      BY <1>4, <2>2, <2>6, <3>1
    <3>3. DueInv'
      BY <3>2 DEF DueInv
    <3>4. ASSUME restarts = 0 PROVE Ran(t, n)
      <4>1. last_run[t] <= fired_at[t]
        BY <1>2, <2>1, <2>2, <3>4 DEF TickInv, RanInv
      <4>2. ASSUME t \in Daily, n >= today_at(t, n) PROVE DayOf(fired_at[t]) = DayOf(n)
        <5>1. fired_at[t] >= today_at(t, n)
          <6>1. t \notin Every /\ today_at(t, n) \in Nat
            BY <1>0, <4>2, TaskTypes, TodayAtType
          <6>2. ~(last < today_at(t, n))
            BY <2>5, <4>2, <6>1 DEF Due
          <6> QED
            BY <1>0, <1>5, <2>2, <4>1, <6>1, <6>2
        <5> QED
          BY <1>0, <1>3, <2>2, <4>2, <5>1, StampOfToday
      <4> QED
        BY <4>2 DEF Ran
    <3>5. RanInv'
      <4> SUFFICES ASSUME restarts = 0 PROVE RanInv'
        BY <1>1 DEF RanInv
      <4>1. \A u \in Task : last_run'[u] <= fired_at'[u]
        BY <1>2, <2>1 DEF TickInv, RanInv
      <4>2. \A i \in 1..(at[k] - 1) : Ran(Tasks[i], n)
        BY <1>1 DEF TickInv, RanInv
      <4>3. Ran(Tasks[at[k]], n)
        BY <3>4 DEF TaskOf
      <4>4. \A i \in 1..at[k] : Ran(Tasks[i], n)
        BY <1>0, <4>2, <4>3
      <4>5. \A i \in 1..at[k] : Ran(Tasks[i], n)'
        BY <1>1, <2>1, <4>4 DEF Ran
      <4> QED
        BY <1>0, <1>1, <3>2, <4>1, <4>5 DEF RanInv
    <3> QED
      BY <2>3, <3>2, <3>3, <3>5 DEF TickInv
  <2> QED
    BY <2>4, <2>5
<1>6. ASSUME pc[k] = "record", Goto(k, "run", at[k]), UNCHANGED fired_at,
             \/ last_run' = [last_run EXCEPT ![t] = n] /\ shaky' = shaky
             \/ last_run' = last_run /\ shaky' = shaky \union {t}
      PROVE  TickInv'
  <2>1. /\ pc[k] = "record" /\ at[k] \in 1..Len(Tasks) /\ fired_at' = fired_at
        /\ t \in Daily => n >= today_at(t, n)
        /\ t \notin shaky => Timely(t, n)
    BY <1>0, <1>6 DEF TickInv, DueInv
  <2>2. t \in Task /\ t = Tasks[at[k]]
    BY <2>1, TaskTypes DEF TaskOf
  <2>4. /\ last_run' \in [Task -> Nat] /\ fired_at' \in [Task -> Nat]
        /\ shaky' \subseteq Task /\ shaky \subseteq shaky'
        /\ last_run'[t] = n \/ (last_run'[t] = last_run[t] /\ t \in shaky')
        /\ \A u \in Task \ {t} : last_run'[u] = last_run[u]
    BY <1>0, <1>6, <2>1, <2>2 DEF TickInv, TickTypeOK
  <2>5. /\ TickTypeOK' /\ LoneTick'
        /\ pc'[k] = "run" /\ at'[k] = at[k] /\ \A j \in Ticker \ {k} : pc'[j] = "idle"
    BY <1>0, <1>4, <1>6, <2>4
  <2>6. StampInv'
    <3>1. \A u \in Task : last_run'[u] <= n /\ last_run'[u] \in Nat
      BY <1>0, <1>3, <2>2, <2>4
    <3>2. \A u \in Task : last_run'[u] <= time' /\ fired_at'[u] <= time'
      BY <1>0, <1>1, <1>3, <2>1, <3>1
    <3>3. \A u \in Task : u \notin shaky' => fired_at'[u] <= last_run'[u]
      BY <1>0, <1>3, <2>1, <2>2, <2>4 DEF TickInv, StampInv
    <3>4. \A u \in Daily : fired_at'[u] # 0 => fired_at'[u] >= today_at(u, fired_at'[u])
      BY <2>1 DEF TickInv, StampInv
    <3> QED
      BY <1>1, <1>3, <2>1, <2>5, <3>1, <3>2, <3>3, <3>4 DEF StampInv
  <2>7. DueInv'
    <3>1. TaskOf(k)' = t
      BY <2>2, <2>5 DEF TaskOf
    <3> QED
      BY <1>1, <2>1, <2>4, <2>5, <3>1 DEF DueInv, Timely
  <2>8. RanInv'
    <3> SUFFICES ASSUME restarts = 0 PROVE RanInv'
      BY <1>1 DEF RanInv
    <3>1. \A u \in Task \ {t} : last_run'[u] <= fired_at'[u]
      BY <1>2, <2>1, <2>4 DEF TickInv, RanInv
    <3>2. TaskOf(k)' = t
      BY <2>2, <2>5 DEF TaskOf
    <3>3. \A i \in 1..(at[k] - 1) : Ran(Tasks[i], n)
      BY <1>1 DEF TickInv, RanInv
    <3> QED
      BY <1>1, <2>1, <2>5, <3>1, <3>2, <3>3 DEF RanInv, Ran
  <2> QED
    BY <2>5, <2>6, <2>7, <2>8 DEF TickInv
<1>7. CASE Run(k)
  <2>1. /\ pc[k] = "run" /\ at[k] \in 1..Len(Tasks) /\ last_run' = last_run
        /\ t \in Daily => n >= today_at(t, n)
        /\ t \in shaky \/ last_run[t] = n
    BY <1>0, <1>7 DEF Run, TickInv, DueInv
  <2>2. t \in Task /\ t = Tasks[at[k]]
    BY <2>1, TaskTypes DEF TaskOf
  <2>3. fired_at' = [fired_at EXCEPT ![t] = n]
        /\ shaky' = IF last_run[t] = n THEN shaky \ {t} ELSE shaky
    BY <1>7 DEF Run
  <2>4. /\ last_run' \in [Task -> Nat] /\ fired_at' \in [Task -> Nat] /\ shaky' \subseteq Task
        /\ fired_at'[t] = n /\ \A u \in Task \ {t} : fired_at'[u] = fired_at[u]
    BY <1>0, <2>1, <2>2, <2>3 DEF TickInv, TickTypeOK
  <2>5. PICK to \in {"idle", "check"}, place1 \in {1, at[k] + 1} :
          Goto(k, to, place1) /\ (to = "check" => place1 = at[k] + 1)
    BY <1>7 DEF Run
  <2>6. /\ TickTypeOK' /\ LoneTick'
        /\ pc'[k] = to /\ at'[k] = place1 /\ \A j \in Ticker \ {k} : pc'[j] = "idle"
    <3>1. to \in {"idle", "check", "record", "run"} /\ place1 \in 1..(Len(Tasks) + 1)
      BY <1>0, <2>1, <2>5
    <3> QED
      BY <1>4, <2>4, <2>5, <3>1
  <2>7. StampInv'
    <3>1. \A u \in Task : fired_at'[u] <= n /\ fired_at'[u] <= time' /\ last_run'[u] <= time'
      BY <1>0, <1>1, <1>3, <2>1, <2>2, <2>4
    <3>2. \A u \in Daily : fired_at'[u] # 0 => fired_at'[u] >= today_at(u, fired_at'[u])
      BY <2>1, <2>2, <2>4, TaskTypes DEF TickInv, StampInv
    <3>3. \A u \in Task : u \notin shaky' => fired_at'[u] <= last_run'[u]
      <4> SUFFICES ASSUME NEW u \in Task, u \notin shaky' PROVE fired_at'[u] <= last_run'[u]
        OBVIOUS
      <4>1. CASE u = t
        <5>1. last_run[t] = n
          BY <2>1, <2>3, <4>1
        <5> QED
          BY <1>0, <2>1, <2>4, <4>1, <5>1
      <4>2. CASE u # t
        <5>1. u \notin shaky
          BY <2>3, <4>2
        <5> QED
          BY <2>1, <2>4, <4>2, <5>1 DEF TickInv, StampInv
      <4> QED
        BY <4>1, <4>2
    <3> QED
      BY <1>1, <1>3, <2>1, <2>6, <3>1, <3>2, <3>3 DEF StampInv
  <2>8. DueInv'
    BY <2>6 DEF DueInv
  <2>9. RanInv'
    <3> SUFFICES ASSUME restarts = 0 PROVE RanInv'
      BY <1>1 DEF RanInv
    <3>1. \A u \in Task : last_run'[u] <= fired_at'[u]
      <4> SUFFICES ASSUME NEW u \in Task PROVE last_run'[u] <= fired_at'[u]
        OBVIOUS
      <4>1. CASE u = t
        BY <1>3, <2>1, <2>4, <4>1
      <4>2. CASE u # t
        BY <1>2, <2>1, <2>4, <4>2 DEF TickInv, RanInv
      <4> QED
        BY <4>1, <4>2
    <3>2. \A i \in 1..(at[k] - 1) : Ran(Tasks[i], n)
      BY <1>1 DEF TickInv, RanInv
    <3>3. \A i \in 1..at[k] : (Ran(Tasks[i], n))'
      <4> SUFFICES ASSUME NEW i \in 1..at[k] PROVE (Ran(Tasks[i], n))'
        OBVIOUS
      <4>1. Tasks[i] \in Task
        BY <1>0, <2>1, TaskTypes
      <4>2. CASE Tasks[i] = t
        BY <1>1, <2>4, <4>2 DEF Ran
      <4>3. CASE Tasks[i] # t
        <5>1. i \in 1..(at[k] - 1)
          BY <1>0, <2>2, <4>3
        <5> QED
          BY <1>1, <2>4, <3>2, <4>1, <4>3, <5>1 DEF Ran
      <4> QED
        BY <4>2, <4>3
    <3>4. to = "check" => \A i \in 1..(at'[k] - 1) : (Ran(Tasks[i], n))'
      BY <1>0, <2>5, <2>6, <3>3
    <3> QED
      BY <1>1, <2>6, <3>1, <3>4 DEF RanInv
  <2> QED
    BY <2>6, <2>7, <2>8, <2>9 DEF TickInv
<1>8. CASE /\ Goto(k, "idle", 1) /\ UNCHANGED <<last_run, fired_at, shaky>>
           /\ pc[k] \in {"check", "record"}
  <2>1. /\ TickTypeOK' /\ LoneTick'
        /\ pc'[k] = "idle" /\ at'[k] = 1 /\ \A j \in Ticker \ {k} : pc'[j] = "idle"
    <3>1. last_run' \in [Task -> Nat] /\ fired_at' \in [Task -> Nat] /\ shaky' \subseteq Task
      BY <1>8 DEF TickInv, TickTypeOK
    <3> QED
      BY <1>0, <1>4, <1>8, <3>1
  <2>2. StampInv'
    BY <1>1, <1>8, <2>1 DEF TickInv, StampInv
  <2>3. DueInv'
    BY <2>1 DEF DueInv
  <2>4. RanInv'
    BY <1>1, <1>2, <1>8, <2>1 DEF TickInv, RanInv
  <2> QED
    BY <2>1, <2>2, <2>3, <2>4 DEF TickInv
<1>9. CASE Check(k)
  <2>1. /\ pc[k] = "check" /\ at[k] \in 1..Len(Tasks) /\ UNCHANGED <<last_run, fired_at, shaky>>
        /\ IF Due(t, n, last_run[t]) THEN Goto(k, "record", at[k]) ELSE Goto(k, "check", at[k] + 1)
    BY <1>0, <1>9 DEF Check, Decide
  <2> QED
    BY <1>5, <2>1
<1>10. CASE CheckBlind(k)
  <2>1. /\ pc[k] = "check" /\ at[k] \in 1..Len(Tasks) /\ UNCHANGED <<last_run, fired_at>>
        /\ shaky' = IF Due(t, n, 0) THEN shaky \union {t} ELSE shaky
        /\ IF Due(t, n, 0) THEN Goto(k, "record", at[k]) ELSE Goto(k, "check", at[k] + 1)
    BY <1>0, <1>10 DEF CheckBlind, Decide
  <2>2. shaky' = IF Due(t, n, 0) THEN shaky \union {t} ELSE shaky
    BY <2>1
  <2> QED
    BY <1>5, <2>1
<1>11. CASE Record(k)
  BY <1>6, <1>11 DEF Record
<1>12. CASE RecordLost(k)
  BY <1>6, <1>12 DEF RecordLost
<1> QED
  BY <1>7, <1>8, <1>9, <1>10, <1>11, <1>12 DEF Ticking, Finish, RecordThrows

(* Every step keeps TickInv: the commands that are not ticking are quiet,  *)
(* or clear the stamps.                                                    *)
LEMMA TickStep ==
  ASSUME MigInv, TickInv, Persist, [ArtisanNext]_artisanvars
  PROVE  TickInv'
<1>0. time \in Nat /\ restarts \in Nat
  BY DEF TickInv, TickTypeOK, MigInv, MigTypeOK
<1>1. ASSUME step # "tick" PROVE \A k \in Ticker : pc[k] = "idle"
  BY <1>1 DEF TickInv, LoneTick
<1>2. ASSUME NEW c \in {"migrate", "migrate:rollback", "schedule:run"}, Launch(c)
      PROVE  TickInv'
  <2>1. step # "tick" /\ UNCHANGED <<time, pc, now, at, restarts>>
    BY <1>2 DEF Launch, MigInv, StepInv
  <2>2. NoStamps \/ UNCHANGED <<last_run, fired_at, shaky>>
    BY <1>2 DEF Launch
  <2> QED
    BY <1>0, <1>1, <2>1, <2>2, QuietTick, ClearedTick
<1>3. CASE Boot
  <2>1. step = "boot" /\ UNCHANGED <<time, ticking, restarts>>
    BY <1>3 DEF Boot, M!run, M!Start
  <2> QED
    BY <1>0, <1>1, <2>1, QuietTick DEF ticking
<1>4. CASE Body
  <2>1. step = "body" /\ \A k \in Ticker : pc[k] = "idle"
    BY <1>1, <1>4 DEF Body
  <2>2. CASE UNCHANGED <<vars, migration>>
    <3>1. UNCHANGED <<time, restarts, last_run, fired_at, shaky, pc, now, at>>
      BY <2>2 DEF vars
    <3> QED
      BY <1>0, <2>1, <3>1, QuietTick
  <2>3. CASE M!rollback /\ UNCHANGED <<cmd, time, ticking>>
    <3>1. restarts' = restarts
      BY <2>3 DEF M!rollback, M!Start
    <3> QED
      BY <1>0, <2>1, <2>3, <3>1, QuietTick DEF ticking
  <2>4. CASE step' = "tick" /\ \E k \in Ticker : Tick(k)
    BY <2>1, <2>4, StartTick
  <2> QED
    BY <1>4, <2>2, <2>3, <2>4 DEF Body
<1>5. CASE Migrating
  <2>1. time' = time /\ \A k \in Ticker : pc[k] = "idle"
    BY <1>1, <1>5 DEF Migrating
  <2>2. restarts' = restarts
    BY <1>5 DEF Migrating, M!ensure_table, M!LookRight, M!LookBlind, M!Look, M!Record, M!Forget,
                M!Statement, M!Finish, M!Throws, M!Refused
  <2>3. (UNCHANGED ticking) \/ (NoStamps /\ UNCHANGED <<pc, now, at>>)
                            \/ UNCHANGED <<last_run, fired_at, shaky, pc, now, at>>
    BY <1>5 DEF Migrating
  <2> QED
    BY <1>0, <2>1, <2>2, <2>3, QuietTick, ClearedTick DEF ticking
<1>6. CASE Die
  <2>1. CASE M!Die /\ UNCHANGED <<time, ticking>>
    <3>1. restarts' # 0 /\ step # "tick"
      BY <1>0, <2>1 DEF M!Die, MigInv, StepInv
    <3> QED
      BY <1>0, <1>1, <2>1, <3>1, QuietTick DEF ticking
  <2>2. CASE \E k \in Ticker : pc[k] # "idle" /\ Restart(k)
    BY <1>0, <2>2, DeadTick
  <2> QED
    BY <1>6, <2>1, <2>2 DEF Die
<1>7. CASE Pass /\ UNCHANGED <<migration, cmd, step>>
  <2>1. time' \in Nat /\ time' >= time /\ UNCHANGED <<last_run, fired_at, shaky, pc, now, at, restarts, step>>
    BY <1>0, <1>7 DEF Pass
  <2> QED
    BY <2>1, QuietTick
<1>8. CASE UNCHANGED artisanvars
  <2>1. UNCHANGED <<time, last_run, fired_at, shaky, pc, now, at, restarts, step>>
    BY <1>8 DEF artisanvars, vars
  <2> QED
    BY <1>0, <2>1, QuietTick
<1> QED
  BY <1>2, <1>3, <1>4, <1>5, <1>6, <1>7, <1>8, TickingKeeps DEF ArtisanNext

(* A step at which a ticker leaves "run", or ends its tick, is one of       *)
(* run_pending() or a death.                                               *)
LEMMA TickMoves ==
  ASSUME MigInv, TickInv, [ArtisanNext]_artisanvars, NEW k \in Ticker, pc[k] # "idle", pc'[k] # pc[k]
  PROVE  Ticking(k) \/ (restarts' # restarts /\ restarts' # 0)
<1>0. step = "tick" /\ restarts \in Nat
  BY DEF TickInv, LoneTick, MigInv, MigTypeOK
<1>1. op = "idle"
  BY <1>0 DEF MigInv, StepInv
<1>2. \A j \in Ticker : pc[j] # "idle" => j = k
  BY DEF TickInv, LoneTick
<1>3. ASSUME NEW j \in Ticker, Ticking(j)
      PROVE  j = k
  BY <1>2, <1>3 DEF Ticking, Check, Run, Finish, Record, CheckBlind, RecordLost, RecordThrows
<1>4. CASE Die
  <2>1. PICK j \in Ticker : Restart(j)
    BY <1>1, <1>4 DEF Die, M!Die
  <2> QED
    BY <1>0, <2>1 DEF Restart
<1>5. CASE \E c \in {"migrate", "migrate:rollback", "schedule:run"} : Launch(c)
  BY <1>5 DEF Launch
<1>6. CASE Boot \/ Body \/ Migrating
  BY <1>0, <1>6 DEF Boot, Body, Migrating
<1>7. CASE Pass
  BY <1>7 DEF Pass
<1>8. CASE UNCHANGED artisanvars
  <2>1. pc' = pc
    BY <1>8 DEF artisanvars, vars
  <2> QED
    BY <2>1
<1> QED
  BY <1>3, <1>4, <1>5, <1>6, <1>7, <1>8 DEF ArtisanNext

(* A run of a task is timely. *)
LEMMA RunIsTimely ==
  ASSUME MigInv, TickInv, [ArtisanNext]_artisanvars, NEW k \in Ticker, NEW t \in Task, Fires(k, t)
  PROVE  /\ t \in Daily /\ Clock[t].colon => now[k] % DayLen >= Clock[t].hour
         /\ t \notin shaky /\ fired_at[t] # 0 =>
              /\ t \in Every => now[k] >= fired_at[t] + Interval[t]
              /\ t \in Daily => DayOf(fired_at[t]) # DayOf(now[k])
<1>1. /\ t \in Daily => now[k] >= today_at(t, now[k])
      /\ t \notin shaky => Timely(t, now[k])
      /\ now[k] \in Nat
  BY DEF Fires, TickInv, TickTypeOK, DueInv
<1>2. ASSUME t \in Daily, Clock[t].colon
      PROVE  now[k] % DayLen >= Clock[t].hour
  BY <1>1, <1>2, ClockTime
<1> QED
  BY <1>1, <1>2 DEF Timely

(* A tick that ends, nothing having died, has run what was due today. *)
LEMMA TickRanAll ==
  ASSUME MigInv, TickInv, [ArtisanNext]_artisanvars,
         NEW k \in Ticker, pc[k] \in {"check", "run"}, pc'[k] = "idle", restarts' = 0,
         NEW i \in 1..Len(Tasks), Tasks[i] \in Daily, now[k] >= today_at(Tasks[i], now[k]), i <= at[k]
  PROVE  DayOf(fired_at'[Tasks[i]]) = DayOf(now[k])
<1>0. /\ Len(Tasks) \in Nat /\ Tasks[i] \in Task /\ at[k] \in 1..(Len(Tasks) + 1)
      /\ \A j \in 1..Len(Tasks) : Tasks[j] \in Task
  BY TaskTypes DEF TickInv, TickTypeOK
<1>1. Ticking(k)
  <2>1. pc[k] # "idle" /\ pc'[k] # pc[k]
    OBVIOUS
  <2> QED
    BY <2>1, TickMoves
<1>2. restarts = 0 /\ step = "tick"
  BY <1>1 DEF Ticking, Check, Run, Finish, Record, CheckBlind, RecordLost, RecordThrows
<1>3. ASSUME i < at[k] PROVE DayOf(fired_at[Tasks[i]]) = DayOf(now[k])
  <2>1. i \in 1..(at[k] - 1)
    BY <1>0, <1>3
  <2> QED
    BY <1>2, <2>1 DEF TickInv, RanInv, Ran
<1>6. CASE Run(k)
  <2>1. at[k] \in 1..Len(Tasks) /\ TaskOf(k) \in Task /\ TaskOf(k) = Tasks[at[k]]
    BY <1>0, <1>6 DEF Run, TickInv, DueInv, TaskOf
  <2>2. fired_at' = [fired_at EXCEPT ![TaskOf(k)] = now[k]]
    BY <1>6 DEF Run
  <2>3. CASE Tasks[i] = TaskOf(k)
    BY <2>1, <2>2, <2>3 DEF TickInv, TickTypeOK
  <2>4. CASE Tasks[i] # TaskOf(k)
    <3>1. i < at[k]
      BY <1>0, <2>1, <2>4
    <3>2. fired_at'[Tasks[i]] = fired_at[Tasks[i]]
      BY <1>0, <2>2, <2>4 DEF TickInv, TickTypeOK
    <3> QED
      BY <1>3, <3>1, <3>2
  <2> QED
    BY <2>3, <2>4
<1>7. CASE Finish(k)
  <2>1. i < at[k] /\ fired_at' = fired_at
    BY <1>0, <1>7 DEF Finish
  <2> QED
    BY <1>3, <2>1
<1>8. ASSUME Check(k) \/ CheckBlind(k) PROVE FALSE
  BY <1>8 DEF Check, CheckBlind, Decide, Goto, TickInv, TickTypeOK
<1>9. ASSUME pc[k] = "record" PROVE FALSE
  BY <1>9
<1> QED
  BY <1>1, <1>6, <1>7, <1>8, <1>9 DEF Ticking, Record, RecordLost, RecordThrows

(* The cadences hold for any tasks, intervals and times of day, over any    *)
(* sequence of artisan processes that keep their stamps in a Connection,   *)
(* wherever these die and whichever calls SQLite refuses: no task runs     *)
(* sooner than its interval after its last run and no daily task twice in  *)
(* a day unless that task's stamp could not be read or written, none runs  *)
(* before its time, and a tick leaves none out.                            *)
THEOREM CadencesAreKept ==
  ASSUME Persist
  PROVE  ArtisanSpec => CadenceKept
<1> DEFINE A == \A k \in Ticker :
       /\ \A t \in Task : Fires(k, t) =>
            /\ t \in Daily /\ Clock[t].colon => now[k] % DayLen >= Clock[t].hour
            /\ t \notin shaky /\ fired_at[t] # 0 =>
                 /\ t \in Every => now[k] >= fired_at[t] + Interval[t]
                 /\ t \in Daily => DayOf(fired_at[t]) # DayOf(now[k])
       /\ pc[k] \in {"check", "run"} /\ pc'[k] = "idle" /\ restarts' = 0 =>
            \A i \in 1..Len(Tasks) : LET t == Tasks[i] IN
              t \in Daily /\ now[k] >= today_at(t, now[k]) /\ i <= at[k]
                => DayOf(fired_at'[t]) = DayOf(now[k])
<1>1. ArtisanInit => TickInv
  <2> SUFFICES ASSUME ArtisanInit PROVE TickInv
    OBVIOUS
  <2>1. /\ time = DayLen /\ last_run = [t \in Task |-> 0] /\ fired_at = [t \in Task |-> 0] /\ shaky = {}
        /\ pc = [k \in Ticker |-> "idle"] /\ now = [k \in Ticker |-> 0] /\ at = [k \in Ticker |-> 1]
    BY DEF ArtisanInit, Init
  <2>2. TickTypeOK
    BY <2>1, TaskTypes DEF TickTypeOK
  <2>3. LoneTick /\ DueInv
    BY <2>1 DEF LoneTick, DueInv
  <2>4. StampInv
    BY <2>1, TaskTypes DEF StampInv
  <2>5. RanInv
    BY <2>1 DEF RanInv
  <2> QED
    BY <2>2, <2>3, <2>4, <2>5 DEF TickInv
<1>2. ArtisanSpec => []MigInv
  <2>1. ArtisanInit => MigInv
    BY MigStarts
  <2>2. MigInv /\ [ArtisanNext]_artisanvars => MigInv'
    BY MigStep
  <2> QED
    BY <2>1, <2>2, PTL DEF ArtisanSpec
<1>3. MigInv /\ TickInv /\ [ArtisanNext]_artisanvars => TickInv'
  BY TickStep
<1>4. MigInv /\ TickInv /\ [ArtisanNext]_artisanvars => [A]_artisanvars
  BY RunIsTimely, TickRanAll
<1> HIDE DEF A
<1>5. ArtisanSpec => [][A]_artisanvars
  BY <1>1, <1>2, <1>3, <1>4, PTL DEF ArtisanSpec
<1> QED
  BY <1>5 DEF CadenceKept, A
===============================================================================
