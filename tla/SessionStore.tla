---------------------------- MODULE SessionStore ----------------------------
(***************************************************************************)
(* ArraySessionStore (include/session.hpp): session data and last-seen     *)
(* stamps under one mutex, with lazy expiry.  Each operation is one atomic *)
(* step; every one that looks at a session first drops it if it expired.   *)
(***************************************************************************)
EXTENDS Naturals

CONSTANTS
  Sid,        \* session ids
  Key,        \* the keys sessions hold
  Value,      \* the values they hold
  Ttl,        \* ttl_ (0: sessions never expire)
  MaxTime,    \* bound: the last instant that is modelled
  NoSession,  \* the id has no entry in data_
  Nil         \* the key has no entry in the session

ASSUME StoreAssumption ==
  /\ Ttl \in Nat /\ MaxTime \in Nat \ {0}
  /\ Nil \notin Value
  /\ NoSession \notin [Key -> Value \union {Nil}]

VARIABLES
  time,       \* the steady clock
  data,       \* data_
  last_seen   \* last_seen_ (0: no entry)

store == <<time, data, last_seen>>

Contents == [Key -> Value \union {Nil}]

StoreTypeOK ==
  /\ time \in Nat \ {0}
  /\ data \in [Sid -> Contents \union {NoSession}]
  /\ last_seen \in [Sid -> Nat]

StoreInit ==
  /\ time = 1
  /\ data = [s \in Sid |-> NoSession]
  /\ last_seen = [s \in Sid |-> 0]

(* Mutant: stamps are never compared with the clock. *)
MutExpiredNever(s) == FALSE

(* drop_if_expired() and gc() agree on who is expired. *)
Expired(s) == Ttl # 0 /\ last_seen[s] # 0 /\ time > last_seen[s] + Ttl

(* What drop_if_expired(s) leaves behind. *)
DataAfterDrop(s) == IF Expired(s) THEN NoSession ELSE data[s]
SeenAfterDrop(s) == IF Expired(s) THEN 0 ELSE last_seen[s]

(* touch() *)
Touched(s) == IF Ttl = 0 THEN SeenAfterDrop(s) ELSE time

Value_(s, k) == IF DataAfterDrop(s) = NoSession THEN Nil ELSE DataAfterDrop(s)[k]

(* put() *)
Put(s, k, v) ==
  LET old == IF DataAfterDrop(s) = NoSession THEN [x \in Key |-> Nil] ELSE DataAfterDrop(s)
  IN /\ data' = [data EXCEPT ![s] = [old EXCEPT ![k] = v]]
     /\ last_seen' = [last_seen EXCEPT ![s] = Touched(s)]
     /\ UNCHANGED time

(* get() and has(): a hit touches the session, a miss does not. *)
Get(s, k) ==
  /\ data' = [data EXCEPT ![s] = DataAfterDrop(s)]
  /\ last_seen' = [last_seen EXCEPT ![s] =
                     IF Value_(s, k) # Nil THEN Touched(s) ELSE SeenAfterDrop(s)]
  /\ UNCHANGED time

(* forget() *)
Forget(s, k) ==
  /\ data' = [data EXCEPT ![s] = IF DataAfterDrop(s) = NoSession THEN NoSession
                                 ELSE [DataAfterDrop(s) EXCEPT ![k] = Nil]]
  /\ last_seen' = [last_seen EXCEPT ![s] = SeenAfterDrop(s)]
  /\ UNCHANGED time

(* flush() *)
Flush(s) ==
  /\ data' = [data EXCEPT ![s] = NoSession]
  /\ last_seen' = [last_seen EXCEPT ![s] = 0]
  /\ UNCHANGED time

(* rename(): only a session that exists can move. *)
CanRename(from) == DataAfterDrop(from) # NoSession

(* Mutant: the old id keeps its data. *)
MutRenameCopies(from, to) ==
  IF CanRename(from)
  THEN /\ data' = [data EXCEPT ![to] = DataAfterDrop(from)]
       /\ last_seen' = [last_seen EXCEPT ![to] = Touched(to)]
       /\ UNCHANGED time
  ELSE UNCHANGED store

Rename(from, to) ==
  IF CanRename(from)
  THEN /\ data' = [data EXCEPT ![to] = DataAfterDrop(from), ![from] = NoSession]
       /\ last_seen' = [last_seen EXCEPT ![to] = Touched(to), ![from] = 0]
       /\ UNCHANGED time
  ELSE /\ data' = [data EXCEPT ![from] = NoSession]
       /\ last_seen' = [last_seen EXCEPT ![from] = SeenAfterDrop(from)]
       /\ UNCHANGED time

(* gc(): every expired session at once. *)
Gc ==
  /\ Ttl # 0
  /\ data' = [s \in Sid |-> DataAfterDrop(s)]
  /\ last_seen' = [s \in Sid |-> SeenAfterDrop(s)]
  /\ UNCHANGED time

Tick ==
  /\ time < MaxTime
  /\ time' = time + 1
  /\ UNCHANGED <<data, last_seen>>
=============================================================================
