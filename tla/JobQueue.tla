------------------------------ MODULE JobQueue ------------------------------
(***************************************************************************)
(* What the database queue promises its callers, without tables, clocks or *)
(* claim stamps: a pushed job is queued until exactly one worker is inside *)
(* its handler; it is queued again if the attempt is given up; and it      *)
(* leaves the queue only from that worker's hands, once the way it ended   *)
(* is on record.  A job may be run again after its outcome was recorded (a *)
(* worker may die before it deletes the row), so delivery is at least once.*)
(***************************************************************************)
EXTENDS Naturals

CONSTANT Job                       \* ids of the jobs that may be pushed

VARIABLES phase,                   \* where each job is in its life
          outcome                  \* the ways each job has been seen to end

jqvars == <<phase, outcome>>

Phase   == {"new", "queued", "running", "gone"}
Outcome == {"done", "buried", "dropped"}

JQTypeOK ==
  /\ phase \in [Job -> Phase]
  /\ outcome \in [Job -> SUBSET Outcome]

JQInit ==
  /\ phase = [j \in Job |-> "new"]
  /\ outcome = [j \in Job |-> {}]

Move(j, from, to) ==
  /\ phase[j] = from
  /\ phase' = [phase EXCEPT ![j] = to]

(* A caller hands the job over. *)
Accept(j) == Move(j, "new", "queued") /\ UNCHANGED outcome

(* One worker takes the job; nobody else can until it is queued again. *)
Take(j) == Move(j, "queued", "running") /\ UNCHANGED outcome

(* The attempt is given up: it failed with attempts left, or the worker died. *)
GiveBack(j) == Move(j, "running", "queued") /\ UNCHANGED outcome

(* The way a running job ended is recorded while its worker still holds it. *)
Record(j, o) ==
  /\ phase[j] = "running"
  /\ outcome' = [outcome EXCEPT ![j] = @ \union {o}]
  /\ UNCHANGED phase

(* A running job with a recorded outcome leaves the queue for good. *)
Settle(j) ==
  /\ Move(j, "running", "gone")
  /\ \E last \in SUBSET Outcome :
       /\ outcome[j] \union last # {}
       /\ outcome' = [outcome EXCEPT ![j] = @ \union last]

JQNext ==
  \E j \in Job :
    \/ Accept(j) \/ Take(j) \/ GiveBack(j) \/ Settle(j)
    \/ \E o \in Outcome : Record(j, o)

JQSpec == JQInit /\ [][JQNext]_jqvars
=============================================================================
