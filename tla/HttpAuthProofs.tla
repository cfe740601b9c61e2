---------------------------- MODULE HttpAuthProofs ----------------------------
(***************************************************************************)
(* Theorems about SessionStore and HttpAuth, for any browsers, requests,   *)
(* ids, tokens, users and ttl: only ids that regenerate_id() issued answer *)
(* as logged in, a login needs a token minted for its session, its         *)
(* response carries a new id, and require_auth lets no expired session     *)
(* through, whichever ids are planted in the browsers.                     *)
(***************************************************************************)
EXTENDS HttpAuth, TLAPS

(* With a ttl, every session has a stamp. *)
SeenInv == \A s \in Sid : Ttl # 0 /\ data[s] # NoSession => last_seen[s] # 0

StoreInv == StoreTypeOK /\ SeenInv

(* What a request knows by the step it is at. *)
RequestInv ==
  \A r \in Req :
    /\ req[r].pc = "unsent" => req[r] = Unsent
    /\ req[r].pc # "unsent" =>
         /\ req[r].from \in Browser /\ req[r].sid \in minted
         /\ req[r].kind = "login" => req[r].pc \in {"verify", "attempt", "regenerate", "respond", "done"}
    /\ req[r].ok => req[r].pc \in {"respond", "done"}
    /\ req[r].cookie # Nil => req[r].cookie \in minted

(* A jar's id is in use, and an id that nobody minted has no session. *)
HolderInv ==
  /\ \A b \in Browser : jar[b] # Nil => jar[b] \in minted
  /\ \A s \in Sid : data[s] # NoSession => s \in minted

(* A session's token was minted for it, and not before its last logout. *)
TokenInv ==
  \A s \in Sid : data[s] # NoSession =>
    LET t == data[s]["_csrf"] IN
    t = Nil \/ (t \in Token /\ tokens[t] = s /\ t \notin spent)

(* No token is spent that was not minted. *)
SpentInv == \A t \in spent : tokens[t] # Nil

(* A login that is still alone is its session's only request in flight,    *)
(* and the session it has put its user in is there to be renamed.          *)
AloneInv ==
  \A r \in Req : req[r].kind = "login" /\ req[r].alone =>
    /\ InFlight(r) => \A q \in Req \ {r} : InFlight(q) => req[q].sid # req[r].sid
    /\ req[r].pc = "regenerate" => data[req[r].sid] # NoSession /\ ~Expired(req[r].sid)

AuthInv == TypeOK /\ SeenInv /\ RequestInv /\ HolderInv /\ TokenInv /\ SpentInv
           /\ AloneInv /\ OnlyIssuedIdsAuthenticate /\ LoginRegenerates

-----------------------------------------------------------------------------
(* What the store's operations leave behind.                               *)

(* Session s is as it was, or has gone. *)
Dropped(s) == data'[s] \in {data[s], NoSession}

(* Only session s has been looked at. *)
OnlyAt(s) == \A x \in Sid \ {s} : data'[x] = data[x] /\ last_seen'[x] = last_seen[x]

(* drop_if_expired() and touch() *)
LEMMA DropFacts ==
  ASSUME StoreInv, NEW s \in Sid
  PROVE  /\ DataAfterDrop(s) \in Contents \union {NoSession} /\ DataAfterDrop(s) \in {data[s], NoSession}
         /\ SeenAfterDrop(s) \in Nat /\ Touched(s) \in Nat /\ (Ttl # 0 => Touched(s) # 0)
         /\ Ttl # 0 /\ DataAfterDrop(s) # NoSession => SeenAfterDrop(s) # 0
BY StoreAssumption DEF StoreInv, StoreTypeOK, SeenInv, DataAfterDrop, SeenAfterDrop, Touched

(* get() drops an expired session, and touches no other. *)
LEMMA GetFacts ==
  ASSUME StoreInv, NEW s \in Sid, NEW k, Get(s, k)
  PROVE  StoreInv' /\ OnlyAt(s) /\ data'[s] = DataAfterDrop(s) /\ Dropped(s)
<1>1. /\ data' = [data EXCEPT ![s] = DataAfterDrop(s)]
      /\ last_seen' = [last_seen EXCEPT ![s] = IF Value_(s, k) # Nil THEN Touched(s) ELSE SeenAfterDrop(s)]
      /\ time' = time
  BY DEF Get
<1>2. data'[s] = DataAfterDrop(s) /\ last_seen'[s] \in {Touched(s), SeenAfterDrop(s)} /\ OnlyAt(s)
  BY <1>1 DEF StoreInv, StoreTypeOK, OnlyAt
<1>3. StoreTypeOK'
  BY <1>1, DropFacts DEF StoreInv, StoreTypeOK
<1>4. SeenInv'
  BY <1>2, DropFacts DEF StoreInv, SeenInv, OnlyAt
<1> QED
  BY <1>2, <1>3, <1>4, DropFacts DEF StoreInv, Dropped

(* put() leaves a session that is there, stamped, with the value. *)
LEMMA PutFacts ==
  ASSUME StoreInv, NEW s \in Sid, NEW k \in Key, NEW v \in Value, Put(s, k, v)
  PROVE  /\ StoreInv' /\ OnlyAt(s) /\ data'[s] # NoSession /\ data'[s][k] = v
         /\ \A j \in Key \ {k} : data'[s][j] = Nil \/ (data[s] # NoSession /\ data'[s][j] = data[s][j])
         /\ Ttl # 0 => last_seen'[s] = time
<1> DEFINE old == IF DataAfterDrop(s) = NoSession THEN [x \in Key |-> Nil] ELSE DataAfterDrop(s)
<1>1. /\ data' = [data EXCEPT ![s] = [old EXCEPT ![k] = v]]
      /\ last_seen' = [last_seen EXCEPT ![s] = Touched(s)] /\ time' = time
  BY DEF Put
<1>2. old \in Contents
  BY DropFacts DEF Contents
<1>3. [old EXCEPT ![k] = v] \in Contents
  BY <1>2 DEF Contents
<1>4. [old EXCEPT ![k] = v] # NoSession
  BY <1>3, StoreAssumption DEF Contents
<1>5. data'[s] = [old EXCEPT ![k] = v] /\ last_seen'[s] = Touched(s) /\ OnlyAt(s)
  BY <1>1 DEF StoreInv, StoreTypeOK, OnlyAt
<1>6. data'[s][k] = v /\ \A j \in Key \ {k} : data'[s][j] = old[j]
  BY <1>2, <1>5 DEF Contents
<1>7. \A j \in Key : old[j] = Nil \/ (data[s] # NoSession /\ old[j] = data[s][j])
  BY DropFacts
<1>8. StoreTypeOK'
  BY <1>1, <1>3, DropFacts DEF StoreInv, StoreTypeOK
<1>9. SeenInv'
  BY <1>5, DropFacts DEF StoreInv, SeenInv, OnlyAt
<1>10. Ttl # 0 => last_seen'[s] = time
  BY <1>5 DEF Touched
<1> QED
  BY <1>4, <1>5, <1>6, <1>7, <1>8, <1>9, <1>10 DEF StoreInv

(* forget() takes the key out of a session that is there. *)
LEMMA ForgetFacts ==
  ASSUME StoreInv, NEW s \in Sid, NEW k \in Key, Forget(s, k)
  PROVE  /\ StoreInv' /\ OnlyAt(s)
         /\ data'[s] # NoSession =>
              data[s] # NoSession /\ data'[s][k] = Nil /\ \A j \in Key \ {k} : data'[s][j] = data[s][j]
<1> DEFINE new == IF DataAfterDrop(s) = NoSession THEN NoSession ELSE [DataAfterDrop(s) EXCEPT ![k] = Nil]
<1>1. /\ data' = [data EXCEPT ![s] = new]
      /\ last_seen' = [last_seen EXCEPT ![s] = SeenAfterDrop(s)] /\ time' = time
  BY DEF Forget
<1>2. data'[s] = new /\ last_seen'[s] = SeenAfterDrop(s) /\ OnlyAt(s)
  BY <1>1 DEF StoreInv, StoreTypeOK, OnlyAt
<1>3. new \in Contents \union {NoSession}
  BY DropFacts DEF Contents
<1>4. StoreTypeOK'
  BY <1>1, <1>3, DropFacts DEF StoreInv, StoreTypeOK
<1>5. SeenInv'
  BY <1>2, DropFacts DEF StoreInv, SeenInv, OnlyAt
<1>6. ASSUME data'[s] # NoSession
      PROVE  data[s] # NoSession /\ data'[s][k] = Nil /\ \A j \in Key \ {k} : data'[s][j] = data[s][j]
  <2>1. DataAfterDrop(s) # NoSession /\ DataAfterDrop(s) = data[s] /\ data[s] \in Contents
    BY <1>2, <1>6, DropFacts
  <2> QED
    BY <1>2, <2>1 DEF Contents
<1> QED
  BY <1>2, <1>4, <1>5, <1>6 DEF StoreInv

(* flush() drops the session. *)
LEMMA FlushFacts ==
  ASSUME StoreInv, NEW s \in Sid, Flush(s)
  PROVE  StoreInv' /\ OnlyAt(s) /\ data'[s] = NoSession
BY DEF Flush, StoreInv, StoreTypeOK, SeenInv, OnlyAt

(* rename() moves a session that is there, and its old id has none. *)
LEMMA RenameFacts ==
  ASSUME StoreInv, NEW s \in Sid, NEW new \in Sid \ {s}, Rename(s, new)
  PROVE  /\ StoreInv' /\ data'[s] = NoSession
         /\ \A x \in Sid \ {s, new} : data'[x] = data[x] /\ last_seen'[x] = last_seen[x]
         /\ CanRename(s) => data[s] # NoSession /\ data'[new] = data[s]
         /\ ~CanRename(s) => OnlyAt(s)
<1>1. CASE CanRename(s)
  <2>1. /\ data' = [data EXCEPT ![new] = DataAfterDrop(s), ![s] = NoSession]
        /\ last_seen' = [last_seen EXCEPT ![new] = Touched(new), ![s] = 0] /\ time' = time
    BY <1>1 DEF Rename
  <2>2. /\ data'[s] = NoSession /\ data'[new] = DataAfterDrop(s) /\ last_seen'[new] = Touched(new)
        /\ \A x \in Sid \ {s, new} : data'[x] = data[x] /\ last_seen'[x] = last_seen[x]
    BY <2>1 DEF StoreInv, StoreTypeOK
  <2>3. data[s] # NoSession /\ DataAfterDrop(s) = data[s]
    BY <1>1, DropFacts DEF CanRename
  <2>4. StoreTypeOK'
    BY <2>1, DropFacts DEF StoreInv, StoreTypeOK
  <2>5. SeenInv'
    BY <2>2, DropFacts DEF StoreInv, SeenInv
  <2> QED
    BY <1>1, <2>2, <2>3, <2>4, <2>5 DEF StoreInv
<1>2. CASE ~CanRename(s)
  <2>1. /\ data' = [data EXCEPT ![s] = NoSession]
        /\ last_seen' = [last_seen EXCEPT ![s] = SeenAfterDrop(s)] /\ time' = time
    BY <1>2 DEF Rename
  <2>2. data'[s] = NoSession /\ OnlyAt(s)
    BY <2>1 DEF StoreInv, StoreTypeOK, OnlyAt
  <2>3. StoreTypeOK'
    BY <2>1, DropFacts DEF StoreInv, StoreTypeOK
  <2>4. SeenInv'
    BY <2>2 DEF StoreInv, SeenInv, OnlyAt
  <2> QED
    BY <1>2, <2>2, <2>3, <2>4 DEF StoreInv, OnlyAt
<1> QED
  BY <1>1, <1>2

(* The clock and gc() change no session but to drop it. *)
LEMMA BackgroundFacts ==
  ASSUME StoreInv, Tick \/ Gc
  PROVE  StoreInv' /\ \A s \in Sid : Dropped(s)
<1>1. CASE Tick
  BY <1>1 DEF Tick, StoreInv, StoreTypeOK, SeenInv, Dropped
<1>2. CASE Gc
  <2>1. /\ data' = [s \in Sid |-> DataAfterDrop(s)] /\ last_seen' = [s \in Sid |-> SeenAfterDrop(s)]
        /\ time' = time
    BY <1>2 DEF Gc
  <2>2. StoreTypeOK'
    BY <2>1, DropFacts DEF StoreInv, StoreTypeOK
  <2>3. SeenInv' /\ \A s \in Sid : Dropped(s)
    BY <2>1, DropFacts DEF SeenInv, Dropped
  <2> QED
    BY <2>2, <2>3 DEF StoreInv
<1> QED
  BY <1>1, <1>2

-----------------------------------------------------------------------------
(* What a handler's step does to the requests.                             *)

(* Only request r moves, and it stays the same browser's, for the same id. *)
Moved(r) ==
  /\ \A q \in Req \ {r} : req'[q] = req[q]
  /\ req'[r].from = req[r].from /\ req'[r].kind = req[r].kind /\ req'[r].sid = req[r].sid
  /\ req'[r].alone = req[r].alone

(* A request's record with some of its fields set anew. *)
LEMMA MoveFacts ==
  ASSUME TypeOK, NEW r \in Req, NEW pc1 \in PC
  PROVE  /\ req' = [req EXCEPT ![r].pc = pc1] =>
              /\ req' \in [Req -> Request] /\ Moved(r) /\ req'[r].pc = pc1
              /\ req'[r].token = req[r].token /\ req'[r].cookie = req[r].cookie /\ req'[r].ok = req[r].ok
         /\ \A t \in Token \union {Nil} : req' = [req EXCEPT ![r].pc = pc1, ![r].token = t] =>
              /\ req' \in [Req -> Request] /\ Moved(r) /\ req'[r].pc = pc1
              /\ req'[r].token = t /\ req'[r].cookie = req[r].cookie /\ req'[r].ok = req[r].ok
         /\ \A ok1 \in BOOLEAN : req' = [req EXCEPT ![r].pc = pc1, ![r].ok = ok1] =>
              /\ req' \in [Req -> Request] /\ Moved(r) /\ req'[r].pc = pc1
              /\ req'[r].token = req[r].token /\ req'[r].cookie = req[r].cookie /\ req'[r].ok = ok1
         /\ \A c \in Sid \union {Nil}, ok1 \in BOOLEAN :
              req' = [req EXCEPT ![r].pc = pc1, ![r].ok = ok1, ![r].cookie = c] =>
              /\ req' \in [Req -> Request] /\ Moved(r) /\ req'[r].pc = pc1
              /\ req'[r].token = req[r].token /\ req'[r].cookie = c /\ req'[r].ok = ok1
<1>1. req \in [Req -> Request]
  BY DEF TypeOK
<1>2. ASSUME req' = [req EXCEPT ![r].pc = pc1]
      PROVE  /\ req' \in [Req -> Request] /\ Moved(r) /\ req'[r].pc = pc1
             /\ req'[r].token = req[r].token /\ req'[r].cookie = req[r].cookie /\ req'[r].ok = req[r].ok
  BY <1>1, <1>2 DEF Request, Moved
<1>3. ASSUME NEW t \in Token \union {Nil}, req' = [req EXCEPT ![r].pc = pc1, ![r].token = t]
      PROVE  /\ req' \in [Req -> Request] /\ Moved(r) /\ req'[r].pc = pc1
             /\ req'[r].token = t /\ req'[r].cookie = req[r].cookie /\ req'[r].ok = req[r].ok
  BY <1>1, <1>3, ZenonT(60) DEF Request, Moved
<1>4. ASSUME NEW ok1 \in BOOLEAN, req' = [req EXCEPT ![r].pc = pc1, ![r].ok = ok1]
      PROVE  /\ req' \in [Req -> Request] /\ Moved(r) /\ req'[r].pc = pc1
             /\ req'[r].token = req[r].token /\ req'[r].cookie = req[r].cookie /\ req'[r].ok = ok1
  BY <1>1, <1>4, ZenonT(60) DEF Request, Moved
<1>5. ASSUME NEW c \in Sid \union {Nil}, NEW ok1 \in BOOLEAN,
             req' = [req EXCEPT ![r].pc = pc1, ![r].ok = ok1, ![r].cookie = c]
      PROVE  /\ req' \in [Req -> Request] /\ Moved(r) /\ req'[r].pc = pc1
             /\ req'[r].token = req[r].token /\ req'[r].cookie = c /\ req'[r].ok = ok1
  <2> DEFINE mid == [req EXCEPT ![r].pc = pc1, ![r].ok = ok1]
  <2>1. /\ mid \in [Req -> Request] /\ mid[r].pc = pc1 /\ mid[r].ok = ok1 /\ mid[r].from = req[r].from
        /\ mid[r].kind = req[r].kind /\ mid[r].sid = req[r].sid /\ mid[r].alone = req[r].alone
        /\ mid[r].token = req[r].token /\ \A q \in Req \ {r} : mid[q] = req[q]
    BY <1>1, ZenonT(60) DEF Request
  <2>2. req' = [mid EXCEPT ![r].cookie = c]
    BY <1>5
  <2> HIDE DEF mid
  <2>3. /\ req' \in [Req -> Request] /\ req'[r].pc = mid[r].pc /\ req'[r].ok = mid[r].ok
        /\ req'[r].from = mid[r].from /\ req'[r].kind = mid[r].kind /\ req'[r].sid = mid[r].sid
        /\ req'[r].alone = mid[r].alone /\ req'[r].token = mid[r].token /\ req'[r].cookie = c
        /\ \A q \in Req \ {r} : req'[q] = mid[q]
    BY <2>1, <2>2 DEF Request
  <2> QED
    BY <2>1, <2>3 DEF Moved
<1> QED
  BY <1>2, <1>3, <1>4, <1>5

(* A request in flight. *)
LEMMA FlightFacts ==
  ASSUME AuthInv, NEW r \in Req, req[r].pc # "unsent"
  PROVE  /\ req[r].from \in Browser /\ req[r].sid \in Sid /\ req[r].sid \in minted
         /\ req[r].token \in Token \union {Nil} /\ req[r].cookie \in Sid \union {Nil} /\ req[r].ok \in BOOLEAN
<1>1. req[r] \in Request
  BY DEF AuthInv, TypeOK
<1>2. req[r].from \in Browser /\ req[r].sid \in minted
  BY DEF AuthInv, RequestInv
<1>3. req[r].sid \in Sid
  BY <1>2 DEF AuthInv, TypeOK
<1> QED
  BY <1>1, <1>2, <1>3 DEF Request

(* Most handlers: nothing is minted, the session is dropped, or changed    *)
(* without a token or a user that was not there; or the user is put in it. *)
LEMMA HandlerKeeps ==
  ASSUME AuthInv, NEW r \in Req, req[r].pc \notin {"unsent", "done"},
         Moved(r), req' \in [Req -> Request], req'[r].cookie = req[r].cookie,
         StoreInv', time' = time, OnlyAt(req[r].sid),
         UNCHANGED <<minted, plants, tokens, issued>>,
         jar' \in [Browser -> Sid \union {Nil}], page' \in [Browser -> Token \union {Nil}],
         \A b \in Browser : \/ jar'[b] = jar[b]
                            \/ b = req[r].from /\ jar'[b] \in {req[r].sid, req[r].cookie},
         req'[r].pc \in {"mint", "attempt", "regenerate", "respond", "done"},
         req[r].kind = "login" => req'[r].pc # "mint",
         req'[r].ok => req'[r].pc \in {"respond", "done"} /\ (req[r].ok \/ req[r].kind # "login"),
         data'[req[r].sid] # NoSession =>
           /\ \/ data'[req[r].sid]["_csrf"] = Nil
              \/ data[req[r].sid] # NoSession /\ data'[req[r].sid]["_csrf"] = data[req[r].sid]["_csrf"]
           /\ \/ data'[req[r].sid]["auth_id"] = Nil
              \/ data[req[r].sid] # NoSession /\ data'[req[r].sid]["auth_id"] = data[req[r].sid]["auth_id"]
              \/ req'[r].pc = "regenerate",
         \/ UNCHANGED <<retired, spent>>
         \/ /\ retired' = retired \union {req[r].sid} /\ data'[req[r].sid] = NoSession
            /\ spent' = spent \union {t \in Token : tokens[t] = req[r].sid},
         req[r].pc # "regenerate",
         req'[r].pc = "regenerate" => data'[req[r].sid] # NoSession /\ (Ttl # 0 => last_seen'[req[r].sid] = time)
  PROVE  AuthInv'
<1> DEFINE b0 == req[r].from
           s0 == req[r].sid
<1>0. b0 \in Browser /\ s0 \in Sid /\ s0 \in minted
  BY FlightFacts
<1>1. TypeOK' /\ SeenInv'
  <2>1. retired' \subseteq minted' /\ spent' \subseteq Token
    BY <1>0 DEF AuthInv, TypeOK
  <2> QED
    BY <2>1 DEF AuthInv, TypeOK, StoreInv
<1>2. RequestInv'
  <2> SUFFICES ASSUME NEW q \in Req
               PROVE  /\ req'[q].pc = "unsent" => req'[q] = Unsent
                      /\ req'[q].pc # "unsent" =>
                           /\ req'[q].from \in Browser /\ req'[q].sid \in minted
                           /\ req'[q].kind = "login" =>
                                req'[q].pc \in {"verify", "attempt", "regenerate", "respond", "done"}
                      /\ req'[q].ok => req'[q].pc \in {"respond", "done"}
                      /\ req'[q].cookie # Nil => req'[q].cookie \in minted
    BY DEF RequestInv
  <2>1. CASE q = r
    BY <1>0, <2>1 DEF Moved, AuthInv, RequestInv
  <2>2. CASE q # r
    BY <2>2 DEF Moved, AuthInv, RequestInv
  <2> QED
    BY <2>1, <2>2
<1>4. HolderInv'
  <2>1. \A b \in Browser : jar'[b] # Nil => jar'[b] \in minted
    BY <1>0 DEF AuthInv, HolderInv, RequestInv
  <2>2. \A s \in Sid : data'[s] # NoSession => s \in minted
    BY <1>0 DEF AuthInv, HolderInv, OnlyAt
  <2> QED
    BY <2>1, <2>2 DEF HolderInv
<1>5. TokenInv' /\ SpentInv'
  <2>1. ASSUME NEW s \in Sid, data'[s] # NoSession, data'[s]["_csrf"] # Nil
        PROVE  data[s] # NoSession /\ data'[s]["_csrf"] = data[s]["_csrf"]
    BY <2>1 DEF OnlyAt
  <2>2. ASSUME NEW s \in Sid, data'[s] # NoSession, data'[s]["_csrf"] # Nil
        PROVE  data'[s]["_csrf"] \in Token /\ tokens'[data'[s]["_csrf"]] = s /\ data'[s]["_csrf"] \notin spent'
    <3>1. /\ data'[s]["_csrf"] = data[s]["_csrf"] /\ data[s]["_csrf"] \in Token
          /\ tokens[data[s]["_csrf"]] = s /\ data[s]["_csrf"] \notin spent
      BY <2>1, <2>2 DEF AuthInv, TokenInv
    <3>2. spent' = spent \/ (s # s0 /\ spent' = spent \union {t \in Token : tokens[t] = s0})
      BY <2>2
    <3> QED
      BY <3>1, <3>2
  <2>3. SpentInv'
    BY <1>0, AuthAssumption DEF AuthInv, SpentInv
  <2> QED
    BY <2>2, <2>3 DEF TokenInv
<1>6. AloneInv'
  <2> SUFFICES ASSUME NEW q \in Req, req'[q].kind = "login", req'[q].alone
               PROVE  /\ InFlight(q)' => \A p \in Req \ {q} : InFlight(p)' => req'[p].sid # req'[q].sid
                      /\ req'[q].pc = "regenerate" => data'[req'[q].sid] # NoSession /\ ~Expired(req[q].sid)'
    BY DEF AloneInv
  <2>1. req[q].kind = "login" /\ req[q].alone
    BY DEF Moved
  <2>2. \A p \in Req : (InFlight(p)' => InFlight(p)) /\ req'[p].sid = req[p].sid
    BY DEF InFlight, Moved
  <2>3. InFlight(q)' => \A p \in Req \ {q} : InFlight(p)' => req'[p].sid # req'[q].sid
    BY <2>1, <2>2 DEF AuthInv, AloneInv
  <2>4. ASSUME req'[q].pc = "regenerate"
        PROVE  data'[req'[q].sid] # NoSession /\ ~Expired(req[q].sid)'
    <3>1. CASE q = r
      BY <1>0, <2>4, <3>1, StoreAssumption DEF Expired, Moved, AuthInv, TypeOK, StoreTypeOK
    <3>2. CASE q # r
      <4>1. req'[q] = req[q] /\ req[q].pc = "regenerate"
        BY <2>4, <3>2 DEF Moved
      <4>3. req[q].sid # s0 /\ req[q].sid \in Sid
        BY <2>1, <3>2, <4>1, FlightFacts DEF AuthInv, AloneInv, InFlight
      <4>4. data[req[q].sid] # NoSession /\ ~Expired(req[q].sid)
        BY <2>1, <4>1 DEF AuthInv, AloneInv
      <4> QED
        BY <4>1, <4>3, <4>4 DEF OnlyAt, Expired
    <3> QED
      BY <3>1, <3>2
  <2> QED
    BY <2>3, <2>4
<1>7. OnlyIssuedIdsAuthenticate'
  <2> SUFFICES ASSUME NEW s \in Sid, data'[s] # NoSession, data'[s]["auth_id"] # Nil
               PROVE  s \in issued' \ retired' \/ LoggingIn(s)'
    BY DEF OnlyIssuedIdsAuthenticate, Authenticated
  <2>1. CASE s = s0 /\ req'[r].pc = "regenerate"
    BY <2>1 DEF LoggingIn, Moved
  <2>2. CASE ~(s = s0 /\ req'[r].pc = "regenerate")
    <3>1. Authenticated(s)
      BY <2>2 DEF Authenticated, OnlyAt
    <3>2. s \in issued \ retired \/ LoggingIn(s)
      BY <3>1 DEF AuthInv, OnlyIssuedIdsAuthenticate
    <3>3. LoggingIn(s) => LoggingIn(s)'
      BY DEF LoggingIn, Moved
    <3> QED
      BY <3>2, <3>3
  <2> QED
    BY <2>1, <2>2
<1>8. LoginRegenerates'
  BY DEF AuthInv, LoginRegenerates, Moved
<1> QED
  BY <1>1, <1>2, <1>4, <1>5, <1>6, <1>7, <1>8 DEF AuthInv

-----------------------------------------------------------------------------
(* One lemma for each action.                                              *)

(* What get() of a session in flight finds. *)
LEMMA ValueFacts ==
  ASSUME AuthInv, NEW s \in Sid, NEW k \in Key, Value_(s, k) # Nil
  PROVE  /\ data[s] # NoSession /\ Value_(s, k) = data[s][k] /\ ~Expired(s)
         /\ k = "_csrf" => Value_(s, k) \in Token /\ tokens[Value_(s, k)] = s /\ Value_(s, k) \notin spent
BY DEF Value_, DataAfterDrop, AuthInv, TokenInv

(* The store is in order, and has the two keys of the kit. *)
LEMMA AuthIsStore ==
  ASSUME AuthInv
  PROVE  StoreInv /\ "auth_id" \in Key /\ "_csrf" \in Key
BY AuthAssumption DEF AuthInv, TypeOK, StoreInv

(* csrf_token() reads the session's token. *)
LEMMA TokenGetKeeps ==
  ASSUME AuthInv, NEW r \in Req, TokenGet(r)
  PROVE  AuthInv'
<1> DEFINE t == Value_(req[r].sid, "_csrf")
<1>1. req[r].pc = "token" /\ Get(req[r].sid, "_csrf") /\ UNCHANGED <<webvars, history>>
  BY DEF TokenGet
<1>2. /\ req[r].sid \in Sid /\ req[r].kind # "login" /\ ~req[r].ok
      /\ t \in Token \union {Nil}
  BY <1>1, FlightFacts, ValueFacts, AuthIsStore DEF AuthInv, RequestInv
<1>3. PICK pc1 \in {"mint", "respond"} : req' = [req EXCEPT ![r].pc = pc1, ![r].token = t]
  BY DEF TokenGet
<1>4. /\ req' \in [Req -> Request] /\ Moved(r) /\ req'[r].pc = pc1
      /\ req'[r].cookie = req[r].cookie /\ req'[r].ok = req[r].ok
  BY <1>2, <1>3, MoveFacts, ZenonT(60) DEF PC, AuthInv
<1>5. StoreInv' /\ OnlyAt(req[r].sid) /\ Dropped(req[r].sid) /\ time' = time
  BY <1>1, <1>2, GetFacts, AuthIsStore DEF Get
<1>6. UNCHANGED <<jar, page, minted, plants, tokens, spent, issued, retired>>
  BY <1>1 DEF webvars, history
<1>7. jar' \in [Browser -> Sid \union {Nil}] /\ page' \in [Browser -> Token \union {Nil}]
  BY <1>6 DEF AuthInv, TypeOK
<1> QED
  BY <1>1, <1>2, <1>3, <1>4, <1>5, <1>6, <1>7, HandlerKeeps DEF Dropped

(* verify_csrf lets the session's own token through. *)
LEMMA VerifyKeeps ==
  ASSUME AuthInv, NEW r \in Req, VerifyCsrf(r)
  PROVE  AuthInv'
<1>1. req[r].pc = "verify" /\ Get(req[r].sid, "_csrf") /\ UNCHANGED <<webvars, history>>
  BY DEF VerifyCsrf
<1>2. req[r].sid \in Sid /\ ~req[r].ok
  BY <1>1, FlightFacts DEF AuthInv, RequestInv
<1>3. PICK pc1 \in {"attempt", "respond"} :
        req' = [req EXCEPT ![r].pc = pc1]
  BY DEF VerifyCsrf, Goto
<1>4. /\ req' \in [Req -> Request] /\ Moved(r) /\ req'[r].pc = pc1 /\ req'[r].token = req[r].token
      /\ req'[r].cookie = req[r].cookie /\ req'[r].ok = req[r].ok
  BY <1>3, MoveFacts DEF PC, AuthInv
<1>5. StoreInv' /\ OnlyAt(req[r].sid) /\ Dropped(req[r].sid) /\ time' = time
  BY <1>1, <1>2, GetFacts, AuthIsStore DEF Get
<1>6. UNCHANGED <<jar, page, minted, plants, tokens, spent, issued, retired>>
  BY <1>1 DEF webvars, history
<1>7. jar' \in [Browser -> Sid \union {Nil}] /\ page' \in [Browser -> Token \union {Nil}]
  BY <1>6 DEF AuthInv, TypeOK
<1> QED
  BY <1>1, <1>2, <1>3, <1>4, <1>5, <1>6, <1>7, HandlerKeeps DEF Dropped

(* Guard::attempt() puts the user in the session. *)
LEMMA AttemptKeeps ==
  ASSUME AuthInv, NEW r \in Req, NEW u \in User, Attempt(r, u)
  PROVE  AuthInv'
<1>1. req[r].pc = "attempt" /\ Put(req[r].sid, "auth_id", u) /\ UNCHANGED <<webvars, history>>
  BY DEF Attempt
<1>2. req[r].sid \in Sid /\ ~req[r].ok /\ u \in Value
  BY <1>1, FlightFacts, AuthAssumption DEF AuthInv, RequestInv
<1>3. req' = [req EXCEPT ![r].pc = "regenerate"]
  BY DEF Attempt, Goto
<1>4. /\ req' \in [Req -> Request] /\ Moved(r) /\ req'[r].pc = "regenerate" /\ req'[r].token = req[r].token
      /\ req'[r].cookie = req[r].cookie /\ req'[r].ok = req[r].ok
  BY <1>3, MoveFacts DEF PC, AuthInv
<1>5. /\ StoreInv' /\ OnlyAt(req[r].sid) /\ time' = time /\ data'[req[r].sid] # NoSession
      /\ Ttl # 0 => last_seen'[req[r].sid] = time
      /\ \/ data'[req[r].sid]["_csrf"] = Nil
         \/ data[req[r].sid] # NoSession /\ data'[req[r].sid]["_csrf"] = data[req[r].sid]["_csrf"]
  <2>1. "_csrf" \in Key \ {"auth_id"} /\ time' = time
    BY <1>1, AuthIsStore DEF Put
  <2> QED
    BY <1>1, <1>2, <2>1, PutFacts, AuthIsStore
<1>6. UNCHANGED <<jar, page, minted, plants, tokens, spent, issued, retired>>
  BY <1>1 DEF webvars, history
<1>7. jar' \in [Browser -> Sid \union {Nil}] /\ page' \in [Browser -> Token \union {Nil}]
  BY <1>6 DEF AuthInv, TypeOK
<1> QED
  BY <1>1, <1>2, <1>4, <1>5, <1>6, <1>7, HandlerKeeps

(* Guard::attempt() fails. *)
LEMMA BadCredentialsKeeps ==
  ASSUME AuthInv, NEW r \in Req, BadCredentials(r)
  PROVE  AuthInv'
<1>1. req[r].pc = "attempt" /\ req' = [req EXCEPT ![r].pc = "respond"] /\ UNCHANGED <<store, webvars, history>>
  BY DEF BadCredentials, Goto
<1>2. ~req[r].ok
  BY <1>1 DEF AuthInv, RequestInv
<1>3. /\ req' \in [Req -> Request] /\ Moved(r) /\ req'[r].pc = "respond"
      /\ req'[r].cookie = req[r].cookie /\ req'[r].ok = req[r].ok
  BY <1>1, MoveFacts DEF PC, AuthInv
<1>4. UNCHANGED <<time, data, last_seen, jar, page, minted, plants, tokens, spent, issued, retired>>
  BY <1>1 DEF webvars, history, store
<1>5. StoreInv' /\ OnlyAt(req[r].sid)
  BY <1>4, AuthIsStore DEF StoreInv, StoreTypeOK, SeenInv, OnlyAt
<1>6. jar' \in [Browser -> Sid \union {Nil}] /\ page' \in [Browser -> Token \union {Nil}]
  BY <1>4 DEF AuthInv, TypeOK
<1> QED
  BY <1>1, <1>2, <1>3, <1>4, <1>5, <1>6, HandlerKeeps

(* logout() flushes the session. *)
LEMMA LogoutKeeps ==
  ASSUME AuthInv, NEW r \in Req, Logout(r)
  PROVE  AuthInv'
<1>1. /\ req[r].pc = "flush" /\ Flush(req[r].sid) /\ retired' = retired \union {req[r].sid}
      /\ req' = [req EXCEPT ![r].pc = "respond", ![r].ok = TRUE]
      /\ spent' = spent \union {t \in Token : tokens[t] = req[r].sid}
      /\ UNCHANGED <<jar, page, minted, plants, tokens, issued>>
  BY DEF Logout
<1>2. req[r].sid \in Sid /\ req[r].kind # "login"
  BY <1>1, FlightFacts DEF AuthInv, RequestInv
<1>3. /\ req' \in [Req -> Request] /\ Moved(r) /\ req'[r].pc = "respond" /\ req'[r].cookie = req[r].cookie
  BY <1>1, MoveFacts DEF PC, AuthInv
<1>4. StoreInv' /\ OnlyAt(req[r].sid) /\ data'[req[r].sid] = NoSession /\ time' = time
  BY <1>1, <1>2, FlushFacts, AuthIsStore DEF Flush
<1>5. jar' \in [Browser -> Sid \union {Nil}] /\ page' \in [Browser -> Token \union {Nil}]
  BY <1>1 DEF AuthInv, TypeOK
<1> QED
  BY <1>1, <1>2, <1>3, <1>4, <1>5, HandlerKeeps

(* Guard::logout() forgets the user. *)
LEMMA GuardLogoutKeeps ==
  ASSUME AuthInv, NEW r \in Req, GuardLogout(r)
  PROVE  AuthInv'
<1>1. /\ req[r].pc = "forget" /\ Forget(req[r].sid, "auth_id")
      /\ req' = [req EXCEPT ![r].pc = "respond", ![r].ok = TRUE] /\ UNCHANGED <<webvars, history>>
  BY DEF GuardLogout
<1>2. req[r].sid \in Sid /\ req[r].kind # "login"
  BY <1>1, FlightFacts DEF AuthInv, RequestInv
<1>3. /\ req' \in [Req -> Request] /\ Moved(r) /\ req'[r].pc = "respond" /\ req'[r].cookie = req[r].cookie
  BY <1>1, MoveFacts DEF PC, AuthInv
<1>4. /\ StoreInv' /\ OnlyAt(req[r].sid) /\ time' = time
      /\ data'[req[r].sid] # NoSession =>
           /\ data[req[r].sid] # NoSession /\ data'[req[r].sid]["auth_id"] = Nil
           /\ data'[req[r].sid]["_csrf"] = data[req[r].sid]["_csrf"]
  <2>1. "_csrf" \in Key \ {"auth_id"} /\ time' = time
    BY <1>1, AuthIsStore DEF Forget
  <2> QED
    BY <1>1, <1>2, <2>1, ForgetFacts, AuthIsStore
<1>5. UNCHANGED <<jar, page, minted, plants, tokens, spent, issued, retired>>
  BY <1>1 DEF webvars, history
<1>6. jar' \in [Browser -> Sid \union {Nil}] /\ page' \in [Browser -> Token \union {Nil}]
  BY <1>5 DEF AuthInv, TypeOK
<1> QED
  BY <1>1, <1>2, <1>3, <1>4, <1>5, <1>6, HandlerKeeps

(* require_auth reads the user. *)
LEMMA RequireAuthKeeps ==
  ASSUME AuthInv, NEW r \in Req, RequireAuth(r)
  PROVE  AuthInv'
<1>1. /\ req[r].pc = "check" /\ Get(req[r].sid, "auth_id") /\ UNCHANGED <<webvars, history>>
      /\ req' = [req EXCEPT ![r].pc = "respond", ![r].ok = Value_(req[r].sid, "auth_id") # Nil]
  BY DEF RequireAuth
<1>2. req[r].sid \in Sid /\ req[r].kind # "login"
  BY <1>1, FlightFacts DEF AuthInv, RequestInv
<1>3. /\ req' \in [Req -> Request] /\ Moved(r) /\ req'[r].pc = "respond" /\ req'[r].cookie = req[r].cookie
  BY <1>1, MoveFacts DEF PC, AuthInv
<1>4. StoreInv' /\ OnlyAt(req[r].sid) /\ Dropped(req[r].sid) /\ time' = time
  BY <1>1, <1>2, GetFacts, AuthIsStore DEF Get
<1>5. UNCHANGED <<jar, page, minted, plants, tokens, spent, issued, retired>>
  BY <1>1 DEF webvars, history
<1>6. jar' \in [Browser -> Sid \union {Nil}] /\ page' \in [Browser -> Token \union {Nil}]
  BY <1>5 DEF AuthInv, TypeOK
<1> QED
  BY <1>1, <1>2, <1>3, <1>4, <1>5, <1>6, HandlerKeeps DEF Dropped

(* The response reaches the browser, in whatever order. *)
LEMMA RespondKeeps ==
  ASSUME AuthInv, NEW r \in Req, Respond(r)
  PROVE  AuthInv'
<1> DEFINE set == IF req[r].cookie # Nil THEN req[r].cookie
                  ELSE IF req[r].fresh THEN req[r].sid ELSE jar[req[r].from]
<1>1. /\ req[r].pc = "respond" /\ jar' = [jar EXCEPT ![req[r].from] = set]
      /\ page' = IF req[r].kind = "form" THEN [page EXCEPT ![req[r].from] = req[r].token] ELSE page
      /\ req' = [req EXCEPT ![r].pc = "done"] /\ UNCHANGED <<store, minted, plants, tokens, spent, history>>
  BY DEF Respond, Goto
<1>2. /\ req[r].from \in Browser /\ req[r].sid \in Sid /\ req[r].token \in Token \union {Nil}
      /\ req[r].cookie \in Sid \union {Nil}
  BY <1>1, FlightFacts
<1>3. /\ req' \in [Req -> Request] /\ Moved(r) /\ req'[r].pc = "done"
      /\ req'[r].cookie = req[r].cookie /\ req'[r].ok = req[r].ok
  BY <1>1, MoveFacts DEF PC, AuthInv
<1>4. UNCHANGED <<time, data, last_seen, minted, plants, tokens, spent, issued, retired>>
  BY <1>1 DEF history, store
<1>5. StoreInv' /\ OnlyAt(req[r].sid)
  BY <1>4, AuthIsStore DEF StoreInv, StoreTypeOK, SeenInv, OnlyAt
<1>6. jar \in [Browser -> Sid \union {Nil}] /\ page \in [Browser -> Token \union {Nil}]
  BY DEF AuthInv, TypeOK
<1>7. jar' \in [Browser -> Sid \union {Nil}] /\ page' \in [Browser -> Token \union {Nil}]
  BY <1>1, <1>2, <1>6
<1>8. \A b \in Browser : jar'[b] = jar[b] \/ (b = req[r].from /\ jar'[b] \in {req[r].sid, req[r].cookie})
  BY <1>1, <1>2, <1>6
<1> HIDE DEF set
<1> QED
  BY <1>1, <1>3, <1>4, <1>5, <1>7, <1>8, HandlerKeeps

(* The other logins that are alone are of other sessions, which stay as    *)
(* they are.                                                               *)
LEMMA OthersAlone ==
  ASSUME AuthInv, NEW r \in Req, req[r].pc \notin {"unsent", "done"}, Moved(r), time' = time,
         req'[r].pc \notin {"unsent", "regenerate"},
         \A x \in minted \ {req[r].sid} : data'[x] = data[x] /\ last_seen'[x] = last_seen[x]
  PROVE  AloneInv'
<1> SUFFICES ASSUME NEW q \in Req, req'[q].kind = "login", req'[q].alone
             PROVE  /\ InFlight(q)' => \A p \in Req \ {q} : InFlight(p)' => req'[p].sid # req'[q].sid
                    /\ req'[q].pc = "regenerate" => data'[req'[q].sid] # NoSession /\ ~Expired(req[q].sid)'
  BY DEF AloneInv
<1>1. req[q].kind = "login" /\ req[q].alone
  BY DEF Moved
<1>2. \A p \in Req : (InFlight(p)' => InFlight(p)) /\ req'[p].sid = req[p].sid
  BY DEF InFlight, Moved
<1>3. InFlight(q)' => \A p \in Req \ {q} : InFlight(p)' => req'[p].sid # req'[q].sid
  BY <1>1, <1>2 DEF AuthInv, AloneInv
<1>4. ASSUME req'[q].pc = "regenerate"
      PROVE  data'[req'[q].sid] # NoSession /\ ~Expired(req[q].sid)'
  <2>1. req'[q] = req[q] /\ req[q].pc = "regenerate" /\ q # r
    BY <1>4 DEF Moved
  <2>3. req[q].sid # req[r].sid /\ req[q].sid \in minted
    BY <1>1, <2>1, FlightFacts DEF AuthInv, AloneInv, InFlight
  <2>4. data[req[q].sid] # NoSession /\ ~Expired(req[q].sid)
    BY <1>1, <2>1 DEF AuthInv, AloneInv
  <2> QED
    BY <2>1, <2>3, <2>4 DEF Expired
<1> QED
  BY <1>3, <1>4

(* csrf_token() mints a token for the session. *)
LEMMA TokenMintKeeps ==
  ASSUME AuthInv, NEW r \in Req, TokenMint(r)
  PROVE  AuthInv'
<1> DEFINE s0 == req[r].sid
<1>1. PICK t \in Token :
        /\ FreshToken(t) /\ tokens' = [tokens EXCEPT ![t] = req[r].sid] /\ Put(req[r].sid, "_csrf", t)
        /\ req' = [req EXCEPT ![r].pc = "respond", ![r].token = t]
  BY DEF TokenMint
<1>2. req[r].pc = "mint" /\ UNCHANGED <<jar, page, minted, plants, spent, issued, retired>>
  BY DEF TokenMint, history
<1>3. /\ req[r].from \in Browser /\ s0 \in Sid /\ s0 \in minted /\ req[r].kind # "login" /\ ~req[r].ok
      /\ t \in Value
  BY <1>2, FlightFacts, AuthAssumption DEF AuthInv, RequestInv
<1>4. /\ req' \in [Req -> Request] /\ Moved(r) /\ req'[r].pc = "respond"
      /\ req'[r].cookie = req[r].cookie /\ req'[r].ok = req[r].ok
  BY <1>1, MoveFacts DEF PC, AuthInv
<1>5. /\ StoreInv' /\ OnlyAt(s0) /\ data'[s0] # NoSession /\ data'[s0]["_csrf"] = t /\ time' = time
      /\ data'[s0]["auth_id"] = Nil \/ (data[s0] # NoSession /\ data'[s0]["auth_id"] = data[s0]["auth_id"])
  <2>1. "auth_id" \in Key \ {"_csrf"} /\ time' = time
    BY <1>1, AuthIsStore DEF Put
  <2> QED
    BY <1>1, <1>3, <2>1, PutFacts, AuthIsStore
<1>6. /\ tokens \in [Token -> Sid \union {Nil}] /\ tokens' \in [Token -> Sid \union {Nil}]
      /\ tokens'[t] = s0 /\ \A x \in Token \ {t} : tokens'[x] = tokens[x]
  BY <1>1, <1>3 DEF AuthInv, TypeOK
<1>7. /\ \A x \in Token : tokens[x] # Nil => tokens'[x] = tokens[x]
      /\ t \notin spent
  BY <1>1, <1>6 DEF FreshToken, AuthInv, SpentInv
<1>8. TypeOK' /\ SeenInv'
  BY <1>2, <1>4, <1>5, <1>6 DEF AuthInv, TypeOK, StoreInv
<1>9. RequestInv'
  <2>1. /\ \A q \in Req \ {r} : req'[q] = req[q]
        /\ req'[r].pc = "respond" /\ req'[r].from \in Browser /\ req'[r].sid \in minted
        /\ req'[r].cookie = req[r].cookie /\ req'[r].kind # "login"
    BY <1>3, <1>4 DEF Moved
  <2> QED
    BY <1>2, <2>1 DEF AuthInv, RequestInv
<1>11. HolderInv'
  BY <1>2, <1>3, <1>5 DEF AuthInv, HolderInv, OnlyAt
<1>12. TokenInv' /\ SpentInv'
  <2>1. ASSUME NEW s \in Sid, data'[s] # NoSession, data'[s]["_csrf"] # Nil
        PROVE  data'[s]["_csrf"] \in Token /\ tokens'[data'[s]["_csrf"]] = s /\ data'[s]["_csrf"] \notin spent'
    <3>1. CASE s = s0
      BY <1>2, <1>5, <1>6, <1>7, <3>1
    <3>2. CASE s # s0
      <4>1. data'[s] = data[s]
        BY <1>5, <3>2 DEF OnlyAt
      <4>2. data[s]["_csrf"] \in Token /\ tokens[data[s]["_csrf"]] = s /\ data[s]["_csrf"] \notin spent
        BY <2>1, <4>1 DEF AuthInv, TokenInv
      <4> QED
        BY <1>2, <1>7, <4>1, <4>2, AuthAssumption
    <3> QED
      BY <3>1, <3>2
  <2>2. SpentInv'
    BY <1>2, <1>7 DEF AuthInv, TypeOK, SpentInv
  <2> QED
    BY <2>1, <2>2 DEF TokenInv
<1>13. AloneInv'
  <2>1. \A x \in minted \ {s0} : data'[x] = data[x] /\ last_seen'[x] = last_seen[x]
    BY <1>5 DEF OnlyAt, AuthInv, TypeOK
  <2> QED
    BY <1>2, <1>4, <1>5, <2>1, OthersAlone
<1>14. OnlyIssuedIdsAuthenticate'
  <2>1. \A s \in Sid : Authenticated(s)' => Authenticated(s)
    BY <1>5 DEF Authenticated, OnlyAt
  <2>2. \A s \in Sid : LoggingIn(s) => LoggingIn(s)'
    BY <1>2, <1>4 DEF LoggingIn, Moved
  <2> QED
    BY <1>2, <2>1, <2>2 DEF AuthInv, OnlyIssuedIdsAuthenticate
<1>15. LoginRegenerates'
  BY <1>2, <1>3, <1>4 DEF AuthInv, LoginRegenerates, Moved
<1> QED
  BY <1>8, <1>9, <1>11, <1>12, <1>13, <1>14, <1>15 DEF AuthInv

(* regenerate_id() moves the session to an id nobody has. *)
LEMMA RegenerateKeeps ==
  ASSUME AuthInv, NEW r \in Req, Regenerate(r)
  PROVE  AuthInv'
<1> DEFINE s0 == req[r].sid
<1>1. PICK new \in Sid :
        /\ Fresh(new) /\ minted' = minted \union {new} /\ Rename(req[r].sid, new)
        /\ req' = [req EXCEPT ![r].pc = "respond", ![r].ok = TRUE,
                              ![r].cookie = IF CanRename(req[r].sid) THEN new ELSE req[r].sid]
        /\ issued' = IF CanRename(req[r].sid) THEN issued \union {new} ELSE issued
        /\ retired' = IF CanRename(req[r].sid) THEN retired \union {req[r].sid} ELSE retired
        /\ tokens' = [t \in Token |-> IF tokens[t] = req[r].sid /\ CanRename(req[r].sid)
                                      THEN new ELSE tokens[t]]
  BY DEF Regenerate
<1>2. req[r].pc = "regenerate" /\ UNCHANGED <<jar, page, plants, spent>>
  BY DEF Regenerate
<1>3. /\ req[r].from \in Browser /\ s0 \in Sid /\ s0 \in minted /\ new \notin minted /\ new # s0
      /\ new \in Sid \ {s0}
  BY <1>1, <1>2, FlightFacts DEF Fresh
<1> DEFINE c0 == IF CanRename(s0) THEN new ELSE s0
<1>4. /\ req' \in [Req -> Request] /\ Moved(r) /\ req'[r].pc = "respond" /\ req'[r].cookie = c0
  <2>1. c0 \in Sid \union {Nil} /\ TRUE \in BOOLEAN /\ "respond" \in PC /\ TypeOK
    BY <1>3 DEF AuthInv, PC
  <2>2. req' = [req EXCEPT ![r].pc = "respond", ![r].ok = TRUE, ![r].cookie = c0]
    BY <1>1
  <2> HIDE DEF c0
  <2> QED
    BY <2>1, <2>2, MoveFacts, Zenon
<1>5. /\ StoreInv' /\ data'[s0] = NoSession
      /\ \A x \in Sid \ {s0, new} : data'[x] = data[x] /\ last_seen'[x] = last_seen[x]
      /\ CanRename(s0) => data[s0] # NoSession /\ data'[new] = data[s0]
      /\ ~CanRename(s0) => OnlyAt(s0)
  BY <1>1, <1>3, RenameFacts, AuthIsStore
<1>6. time' = time
  BY <1>1 DEF Rename
<1>7. data[new] = NoSession
  BY <1>3 DEF AuthInv, HolderInv
<1>8. TypeOK' /\ SeenInv'
  <2>1. /\ minted' \subseteq Sid /\ issued' \subseteq minted' /\ retired' \subseteq minted'
        /\ tokens' \in [Token -> Sid \union {Nil}]
    BY <1>1, <1>3 DEF AuthInv, TypeOK
  <2> QED
    BY <1>2, <1>4, <1>5, <2>1 DEF AuthInv, TypeOK, StoreInv
<1>9. RequestInv'
  <2>1. /\ \A q \in Req \ {r} : req'[q] = req[q]
        /\ req'[r].pc = "respond" /\ req'[r].from \in Browser /\ req'[r].sid \in minted'
        /\ req'[r].cookie \in minted'
    BY <1>1, <1>3, <1>4 DEF Moved
  <2>2. minted \subseteq minted'
    BY <1>1
  <2> QED
    BY <2>1, <2>2 DEF AuthInv, RequestInv
<1>12. HolderInv'
  <2>1. \A b \in Browser : jar'[b] # Nil => jar'[b] \in minted'
    BY <1>1, <1>2 DEF AuthInv, HolderInv
  <2>2. \A s \in Sid : data'[s] # NoSession => s \in minted'
    BY <1>1, <1>5 DEF AuthInv, HolderInv
  <2> QED
    BY <2>1, <2>2 DEF HolderInv
<1>13. TokenInv' /\ SpentInv'
  <2>1. ASSUME NEW s \in Sid, data'[s] # NoSession, data'[s]["_csrf"] # Nil
        PROVE  data'[s]["_csrf"] \in Token /\ tokens'[data'[s]["_csrf"]] = s /\ data'[s]["_csrf"] \notin spent'
    <3>1. CASE s = new
      <4>1. CanRename(s0) /\ data[s0] # NoSession /\ data'[s] = data[s0]
        BY <1>3, <1>5, <1>7, <2>1, <3>1 DEF OnlyAt
      <4>2. data[s0]["_csrf"] \in Token /\ tokens[data[s0]["_csrf"]] = s0 /\ data[s0]["_csrf"] \notin spent
        BY <1>3, <2>1, <4>1 DEF AuthInv, TokenInv
      <4> QED
        BY <1>1, <1>2, <3>1, <4>1, <4>2
    <3>2. CASE s # new
      <4>1. data'[s] = data[s] /\ s # s0
        BY <1>5, <2>1, <3>2
      <4>2. data[s]["_csrf"] \in Token /\ tokens[data[s]["_csrf"]] = s /\ data[s]["_csrf"] \notin spent
        BY <2>1, <4>1 DEF AuthInv, TokenInv
      <4> QED
        BY <1>1, <1>2, <4>1, <4>2
    <3> QED
      BY <3>1, <3>2
  <2>2. SpentInv'
    BY <1>1, <1>2, <1>3, AuthAssumption DEF AuthInv, TypeOK, SpentInv
  <2> QED
    BY <2>1, <2>2 DEF TokenInv
<1>14. AloneInv'
  <2>1. \A x \in minted \ {s0} : data'[x] = data[x] /\ last_seen'[x] = last_seen[x]
    BY <1>3, <1>5 DEF AuthInv, TypeOK
  <2> QED
    BY <1>2, <1>4, <1>6, <2>1, OthersAlone
<1>15. OnlyIssuedIdsAuthenticate'
  <2> SUFFICES ASSUME NEW s \in Sid, data'[s] # NoSession, data'[s]["auth_id"] # Nil
               PROVE  s \in issued' \ retired' \/ LoggingIn(s)'
    BY DEF OnlyIssuedIdsAuthenticate, Authenticated
  <2>1. CASE s = new
    <3>1. CanRename(s0)
      BY <1>3, <1>5, <1>7, <2>1 DEF OnlyAt
    <3>2. new \notin retired
      BY <1>3 DEF AuthInv, TypeOK
    <3> QED
      BY <1>1, <1>3, <2>1, <3>1, <3>2
  <2>2. CASE s # new
    <3>1. s # s0 /\ data'[s] = data[s]
      BY <1>5, <2>2
    <3>2. s \in issued \ retired \/ LoggingIn(s)
      BY <3>1 DEF AuthInv, OnlyIssuedIdsAuthenticate, Authenticated
    <3>3. LoggingIn(s) => LoggingIn(s)'
      BY <1>4, <3>1 DEF LoggingIn, Moved
    <3> QED
      BY <1>1, <3>1, <3>2, <3>3
  <2> QED
    BY <2>1, <2>2
<1>16. LoginRegenerates'
  <2>1. issued \subseteq issued'
    BY <1>1
  <2>2. ASSUME req[r].kind = "login", req[r].alone
        PROVE  req'[r].cookie \in issued'
    <3>1. data[s0] # NoSession /\ ~Expired(s0)
      BY <1>2, <2>2 DEF AuthInv, AloneInv
    <3>2. CanRename(s0)
      BY <3>1 DEF CanRename, DataAfterDrop
    <3> QED
      BY <1>1, <1>4, <3>2
  <2> QED
    BY <1>4, <2>1, <2>2 DEF AuthInv, LoginRegenerates, Moved
<1> QED
  BY <1>8, <1>9, <1>12, <1>13, <1>14, <1>15, <1>16 DEF AuthInv

(* A disturbance changes nothing but whether a login counts as alone. *)
SameBut(q, old) ==
  /\ q.pc = old.pc /\ q.kind = old.kind /\ q.from = old.from /\ q.sid = old.sid
  /\ q.token = old.token /\ q.cookie = old.cookie /\ q.ok = old.ok
  /\ q.alone => old.alone

(* What Disturbed() leaves of each request. *)
LEMMA DisturbedFacts ==
  ASSUME TypeOK, NEW qs
  PROVE  /\ Disturbed(qs) \in [Req -> Request]
         /\ \A q \in Req : /\ SameBut(Disturbed(qs)[q], req[q])
                           /\ q \in qs /\ InFlight(q) /\ req[q].kind = "login" => ~Disturbed(qs)[q].alone
                           /\ ~InFlight(q) => Disturbed(qs)[q] = req[q]
<1>1. req \in [Req -> Request]
  BY DEF TypeOK
<1>2. \A q \in Req : Disturbed(qs)[q] = IF q \in qs /\ InFlight(q) /\ req[q].kind = "login"
                                         THEN [req[q] EXCEPT !.alone = FALSE] ELSE req[q]
  BY DEF Disturbed
<1>3. ASSUME NEW q \in Req
      PROVE  /\ [req[q] EXCEPT !.alone = FALSE] \in Request
             /\ SameBut([req[q] EXCEPT !.alone = FALSE], req[q]) /\ SameBut(req[q], req[q])
             /\ ~[req[q] EXCEPT !.alone = FALSE].alone
  BY <1>1 DEF Request, SameBut
<1>4. Disturbed(qs) \in [Req -> Request]
  BY <1>1, <1>3 DEF Disturbed
<1> QED
  BY <1>2, <1>3, <1>4

(* Time passes, or gc() runs. *)
LEMMA BackgroundKeeps ==
  ASSUME AuthInv, Background
  PROVE  AuthInv'
<1>1. (Tick \/ Gc) /\ req' = Disturbed(Req) /\ UNCHANGED <<webvars, history>>
  BY DEF Background
<1>2. StoreInv' /\ \A s \in Sid : Dropped(s)
  BY <1>1, BackgroundFacts, AuthIsStore
<1>3. UNCHANGED <<jar, page, minted, plants, tokens, spent, issued, retired>>
  BY <1>1 DEF webvars, history
<1>4. /\ req' \in [Req -> Request]
      /\ \A q \in Req : /\ SameBut(req'[q], req[q])
                        /\ InFlight(q) /\ req[q].kind = "login" => ~req'[q].alone
                        /\ ~InFlight(q) => req'[q] = req[q]
  BY <1>1, DisturbedFacts DEF AuthInv
<1>5. TypeOK' /\ SeenInv'
  BY <1>2, <1>3, <1>4 DEF AuthInv, TypeOK, StoreInv
<1>6. RequestInv'
  BY <1>3, <1>4 DEF AuthInv, RequestInv, SameBut, InFlight
<1>8. HolderInv'
  BY <1>2, <1>3 DEF AuthInv, HolderInv, Dropped
<1>9. TokenInv' /\ SpentInv'
  <2>1. \A s \in Sid : data'[s] # NoSession => data'[s] = data[s]
    BY <1>2 DEF Dropped
  <2> QED
    BY <1>3, <2>1 DEF AuthInv, TokenInv, SpentInv
<1>10. AloneInv'
  <2>1. ASSUME NEW q \in Req, req'[q].kind = "login", req'[q].alone
        PROVE  ~InFlight(q)' /\ req'[q].pc # "regenerate"
    BY <1>4, <2>1 DEF SameBut, InFlight
  <2> QED
    BY <2>1 DEF AloneInv
<1>11. OnlyIssuedIdsAuthenticate'
  <2>1. \A s \in Sid : Authenticated(s)' => Authenticated(s)
    BY <1>2 DEF Authenticated, Dropped
  <2>2. \A s \in Sid : LoggingIn(s) => LoggingIn(s)'
    BY <1>4 DEF LoggingIn, SameBut
  <2> QED
    BY <1>3, <2>1, <2>2 DEF AuthInv, OnlyIssuedIdsAuthenticate
<1>12. LoginRegenerates'
  BY <1>3, <1>4 DEF AuthInv, LoginRegenerates, SameBut
<1> QED
  BY <1>5, <1>6, <1>8, <1>9, <1>10, <1>11, <1>12 DEF AuthInv

(* session_middleware takes the cookie's id, or a new one. *)
LEMMA StartKeeps ==
  ASSUME AuthInv, NEW r \in Req, NEW b0 \in Browser, NEW kind \in Kind, NEW token \in Token \union {Nil},
         Start(r, b0, kind, token)
  PROVE  AuthInv'
<1>1. PICK s0 \in Sid :
        /\ IF jar[b0] # Nil THEN s0 = jar[b0] /\ UNCHANGED minted
                            ELSE Fresh(s0) /\ minted' = minted \union {s0}
        /\ req' = [Disturbed({q \in Req : req[q].sid = s0}) EXCEPT ![r] =
             [pc |-> First[kind], kind |-> kind, from |-> b0, sid |-> s0,
              fresh |-> jar[b0] = Nil, token |-> token, cookie |-> Nil, ok |-> FALSE,
              alone |-> kind = "login" => ~\E q \in Req : InFlight(q) /\ req[q].sid = s0]]
  BY DEF Start
<1> DEFINE qs == {q \in Req : req[q].sid = s0}
           D == Disturbed(qs)
           lone == kind = "login" => ~\E q \in Req : InFlight(q) /\ req[q].sid = s0
<1>2. req[r].pc = "unsent" /\ UNCHANGED <<time, data, last_seen, jar, page, plants, tokens, spent, issued, retired>>
  BY DEF Start, store, history
<1>3. /\ D \in [Req -> Request]
      /\ \A q \in Req : /\ SameBut(D[q], req[q])
                        /\ q \in qs /\ InFlight(q) /\ req[q].kind = "login" => ~D[q].alone
                        /\ ~InFlight(q) => D[q] = req[q]
  BY DisturbedFacts DEF AuthInv
<1>4. First[kind] \in PC \ {"unsent", "done", "attempt", "regenerate", "respond"} /\ (kind = "login" => First[kind] = "verify")
  BY AuthAssumption DEF First, PC
<1>5. PICK fresh \in BOOLEAN : fresh = (jar[b0] = Nil)
  OBVIOUS
<1>6. PICK alone \in BOOLEAN : alone = lone
  OBVIOUS
<1> DEFINE rec == [pc |-> First[kind], kind |-> kind, from |-> b0, sid |-> s0, fresh |-> fresh,
                   token |-> token, cookie |-> Nil, ok |-> FALSE, alone |-> alone]
<1>7. rec \in Request
  BY <1>4 DEF Request
<1>8. /\ rec.pc = First[kind] /\ rec.kind = kind /\ rec.from = b0 /\ rec.sid = s0 /\ rec.token = token
      /\ rec.cookie = Nil /\ ~rec.ok /\ rec.alone = alone
  OBVIOUS
<1>9. req' = [D EXCEPT ![r] = rec]
  BY <1>1, <1>5, <1>6
<1> HIDE DEF rec, D
<1>10. req' \in [Req -> Request] /\ req'[r] = rec /\ \A q \in Req \ {r} : req'[q] = D[q]
  BY <1>3, <1>7, <1>9
<1>11. \A q \in Req \ {r} :
         /\ SameBut(req'[q], req[q])
         /\ req[q].sid = s0 /\ InFlight(q) /\ req[q].kind = "login" => ~req'[q].alone
         /\ ~InFlight(q) => req'[q] = req[q]
  BY <1>3, <1>10
<1>12. req'[r].pc \notin {"unsent", "done", "attempt", "regenerate", "respond"} /\ req'[r].from = b0 /\ req'[r].sid = s0
       /\ req'[r].cookie = Nil /\ ~req'[r].ok /\ req'[r].kind = kind /\ (kind = "login" => req'[r].pc = "verify")
       /\ req'[r].alone = alone
  BY <1>4, <1>8, <1>10
<1>13. minted \subseteq minted' /\ s0 \in minted' /\ minted' \subseteq Sid
  BY <1>1 DEF Fresh, AuthInv, TypeOK, HolderInv
<1>14. TypeOK' /\ SeenInv'
  <2>1. StoreTypeOK' /\ SeenInv'
    BY <1>2 DEF AuthInv, TypeOK, StoreTypeOK, SeenInv
  <2> QED
    BY <1>2, <1>10, <1>13, <2>1 DEF AuthInv, TypeOK
<1>15. RequestInv'
  <2> SUFFICES ASSUME NEW q \in Req
               PROVE  /\ req'[q].pc = "unsent" => req'[q] = Unsent
                      /\ req'[q].pc # "unsent" =>
                           /\ req'[q].from \in Browser /\ req'[q].sid \in minted'
                           /\ req'[q].kind = "login" =>
                                req'[q].pc \in {"verify", "attempt", "regenerate", "respond", "done"}
                      /\ req'[q].ok => req'[q].pc \in {"respond", "done"}
                      /\ req'[q].cookie # Nil => req'[q].cookie \in minted'
    BY DEF RequestInv
  <2>1. CASE q = r
    BY <1>12, <1>13, <2>1
  <2>2. CASE q # r
    BY <1>11, <1>13, <2>2 DEF AuthInv, RequestInv, SameBut, InFlight
  <2> QED
    BY <2>1, <2>2
<1>19. HolderInv'
  BY <1>2, <1>13 DEF AuthInv, HolderInv
<1>20. TokenInv' /\ SpentInv'
  BY <1>2 DEF AuthInv, TokenInv, SpentInv
<1>21. AloneInv'
  <2> SUFFICES ASSUME NEW q \in Req, req'[q].kind = "login", req'[q].alone
               PROVE  /\ InFlight(q)' => \A p \in Req \ {q} : InFlight(p)' => req'[p].sid # req'[q].sid
                      /\ req'[q].pc = "regenerate" => data'[req'[q].sid] # NoSession /\ ~Expired(req[q].sid)'
    BY DEF AloneInv
  <2>1. CASE q = r
    <3>1. \A p \in Req : InFlight(p) => req[p].sid # s0
      BY <1>6, <1>12, <2>1
    <3>2. \A p \in Req \ {r} : InFlight(p)' => InFlight(p) /\ req'[p].sid = req[p].sid
      BY <1>11 DEF InFlight, SameBut
    <3> QED
      BY <1>12, <2>1, <3>1, <3>2
  <2>2. CASE q # r
    <3>1. SameBut(req'[q], req[q]) /\ req[q].kind = "login" /\ req[q].alone
      BY <1>11, <2>2 DEF SameBut
    <3>2. InFlight(q) => req[q].sid # s0
      BY <1>11, <2>2, <3>1
    <3>3. ASSUME InFlight(q)', NEW p \in Req \ {q}, InFlight(p)' PROVE req'[p].sid # req'[q].sid
      <4>1. InFlight(q) /\ req'[q].sid = req[q].sid
        BY <3>1, <3>3 DEF SameBut, InFlight
      <4>2. CASE p = r
        BY <1>12, <3>2, <4>1, <4>2
      <4>3. CASE p # r
        <5>1. InFlight(p) /\ req'[p].sid = req[p].sid
          BY <1>11, <3>3, <4>3 DEF SameBut, InFlight
        <5> QED
          BY <3>1, <4>1, <5>1 DEF AuthInv, AloneInv
      <4> QED
        BY <4>2, <4>3
    <3>4. req'[q].pc = "regenerate" => data'[req'[q].sid] # NoSession /\ ~Expired(req[q].sid)'
      BY <1>2, <3>1 DEF SameBut, AuthInv, AloneInv, Expired
    <3> QED
      BY <3>3, <3>4
  <2> QED
    BY <2>1, <2>2
<1>22. OnlyIssuedIdsAuthenticate'
  <2>1. \A s \in Sid : Authenticated(s)' => Authenticated(s)
    BY <1>2 DEF Authenticated
  <2>2. \A s \in Sid : LoggingIn(s) => LoggingIn(s)'
    BY <1>2, <1>11 DEF LoggingIn, SameBut
  <2> QED
    BY <1>2, <2>1, <2>2 DEF AuthInv, OnlyIssuedIdsAuthenticate
<1>23. LoginRegenerates'
  BY <1>2, <1>11, <1>12 DEF AuthInv, LoginRegenerates, SameBut
<1> QED
  BY <1>14, <1>15, <1>19, <1>20, <1>21, <1>22, <1>23 DEF AuthInv

(* Someone plants a cookie: the jar's id is in use from then on. *)
LEMMA PlantKeeps ==
  ASSUME AuthInv, NEW b0 \in Browser, NEW s0 \in Sid, Plant(b0, s0)
  PROVE  AuthInv'
<1>1. /\ minted' = minted \union {s0} /\ jar' = [jar EXCEPT ![b0] = s0]
      /\ plants < MaxPlants /\ plants' = plants + 1
      /\ UNCHANGED <<time, data, last_seen, page, req, tokens, spent, issued, retired>>
  BY DEF Plant, store, history
<1>2. TypeOK' /\ SeenInv'
  <2>1. plants' \in 0..MaxPlants
    BY <1>1, AuthAssumption DEF AuthInv, TypeOK
  <2>2. StoreTypeOK' /\ SeenInv'
    BY <1>1 DEF AuthInv, TypeOK, StoreTypeOK, SeenInv
  <2> QED
    BY <1>1, <2>1, <2>2 DEF AuthInv, TypeOK
<1>3. RequestInv' /\ HolderInv'
  BY <1>1 DEF AuthInv, TypeOK, RequestInv, HolderInv
<1>4. TokenInv' /\ SpentInv'
  BY <1>1 DEF AuthInv, TokenInv, SpentInv
<1>5. AloneInv'
  BY <1>1 DEF AuthInv, AloneInv, InFlight, Expired
<1>6. OnlyIssuedIdsAuthenticate' /\ LoginRegenerates'
  BY <1>1 DEF AuthInv, OnlyIssuedIdsAuthenticate, Authenticated, LoggingIn, LoginRegenerates
<1> QED
  BY <1>2, <1>3, <1>4, <1>5, <1>6 DEF AuthInv

-----------------------------------------------------------------------------
(* The theorems.                                                           *)

(* Every step keeps AuthInv. *)
LEMMA AuthStep ==
  ASSUME AuthInv, [Next]_vars
  PROVE  AuthInv'
<1>1. ASSUME NEW r \in Req, NEW b \in Browser, NEW k \in Kind,
             NEW t \in IF k = "login" THEN Known ELSE {Nil}, Start(r, b, k, t)
      PROVE  AuthInv'
  <2>1. t \in Token \union {Nil}
    BY DEF Known, AuthInv, TypeOK
  <2> QED
    BY <1>1, <2>1, StartKeeps
<1>2. ASSUME NEW r \in Req, Handle(r)
      PROVE  AuthInv'
  BY <1>2, TokenGetKeeps, TokenMintKeeps, VerifyKeeps, BadCredentialsKeeps, RegenerateKeeps, LogoutKeeps,
     GuardLogoutKeeps, RequireAuthKeeps, RespondKeeps, AttemptKeeps DEF Handle
<1>3. CASE UNCHANGED vars
  <2>1. UNCHANGED <<time, data, last_seen, jar, page, req, minted, plants, tokens, spent, issued, retired>>
    BY <1>3 DEF vars
  <2>2. TypeOK' /\ SeenInv' /\ RequestInv'
    BY <2>1 DEF AuthInv, TypeOK, StoreTypeOK, SeenInv, RequestInv
  <2>3. HolderInv' /\ TokenInv' /\ SpentInv'
    BY <2>1 DEF AuthInv, HolderInv, TokenInv, SpentInv
  <2>4. AloneInv'
    BY <2>1 DEF AuthInv, AloneInv, InFlight, Expired
  <2>5. OnlyIssuedIdsAuthenticate' /\ LoginRegenerates'
    BY <2>1 DEF AuthInv, OnlyIssuedIdsAuthenticate, Authenticated, LoggingIn, LoginRegenerates
  <2> QED
    BY <2>2, <2>3, <2>4, <2>5 DEF AuthInv
<1> QED
  BY <1>1, <1>2, <1>3, BackgroundKeeps, PlantKeeps DEF Next

(* AuthInv is an invariant: every request finds the ids, tokens and stamps *)
(* as its step expects them.                                               *)
THEOREM AuthInvHolds == Spec => []AuthInv
<1>1. Init => AuthInv
  <2> SUFFICES ASSUME Init PROVE AuthInv
    OBVIOUS
  <2>1. Unsent \in Request
    BY DEF Unsent, Request, PC
  <2>2. TypeOK /\ SeenInv
    BY <2>1, AuthAssumption DEF Init, StoreInit, TypeOK, StoreTypeOK, SeenInv
  <2>3. \A r \in Req : req[r] = Unsent
    BY DEF Init
  <2>4. RequestInv
    <3>1. Unsent.pc = "unsent" /\ ~Unsent.ok /\ Unsent.cookie = Nil
      BY DEF Unsent
    <3> QED
      BY <2>3, <3>1 DEF RequestInv
  <2>6. \A s \in Sid : data[s] = NoSession
    BY DEF Init, StoreInit
  <2>7. HolderInv /\ TokenInv /\ SpentInv /\ AloneInv
    BY <2>3, <2>6 DEF Init, HolderInv, TokenInv, SpentInv, AloneInv, Unsent, InFlight
  <2>8. OnlyIssuedIdsAuthenticate /\ LoginRegenerates
    BY <2>3, <2>6 DEF OnlyIssuedIdsAuthenticate, Authenticated, LoginRegenerates, Unsent
  <2> QED
    BY <2>2, <2>4, <2>7, <2>8 DEF AuthInv
<1>2. AuthInv /\ [Next]_vars => AuthInv'
  BY AuthStep
<1> QED
  BY <1>1, <1>2, PTL DEF Spec

(* Fixation and logout: however many browsers, requests and ids there are, *)
(* only an id that regenerate_id() issued, and that has not been renamed   *)
(* away or flushed, answers as logged in.                                  *)
THEOREM FixationPrevented == Spec => []OnlyIssuedIdsAuthenticate
<1>1. AuthInv => OnlyIssuedIdsAuthenticate
  BY DEF AuthInv
<1> QED
  BY <1>1, AuthInvHolds, PTL

(* verify_csrf: whoever holds a session's id, a form gets past it only     *)
(* with a token that csrf_token() minted for that session, under this or   *)
(* an earlier id of it, since its last logout and before it expires.       *)
THEOREM TokensAreBound == Spec => TokenBoundToSession
<1> DEFINE A == \A r \in Req : VerifyCsrf(r) /\ req'[r].pc = "attempt"
                  => /\ req[r].token # Nil
                     /\ tokens[req[r].token] = req[r].sid
                     /\ req[r].token \notin spent
                     /\ ~Expired(req[r].sid)
<1>1. AuthInv => [A]_vars
  <2> SUFFICES ASSUME AuthInv, NEW r \in Req, VerifyCsrf(r), req'[r].pc = "attempt"
               PROVE  /\ req[r].token # Nil /\ tokens[req[r].token] = req[r].sid
                      /\ req[r].token \notin spent /\ ~Expired(req[r].sid)
    OBVIOUS
  <2>1. req[r].pc = "verify" /\ req' = [req EXCEPT ![r].pc = IF TokenMatches(r) THEN "attempt" ELSE "respond"]
    BY DEF VerifyCsrf, Goto
  <2>2. req[r].sid \in Sid
    BY <2>1, FlightFacts
  <2>3. TokenMatches(r)
    BY <2>1 DEF AuthInv, TypeOK, Request
  <2> QED
    BY <2>2, <2>3, ValueFacts, AuthIsStore DEF TokenMatches
<1> HIDE DEF A
<1>2. Spec => [][A]_vars
  BY <1>1, AuthInvHolds, PTL
<1> QED
  BY <1>2 DEF TokenBoundToSession, A

(* attempt_login(): the response of a login that nothing came between has   *)
(* an id that regenerate_id() issued.                                      *)
THEOREM LoginsRegenerate == Spec => []LoginRegenerates
<1>1. AuthInv => LoginRegenerates
  BY DEF AuthInv
<1> QED
  BY <1>1, AuthInvHolds, PTL

(* require_auth: with a ttl, whoever is let through has touched the        *)
(* session within it.                                                      *)
THEOREM ExpiredAreRefused == Spec => NoExpiredAccess
<1> DEFINE A == \A r \in Req : RequireAuth(r) /\ req'[r].ok
                  => Ttl = 0 \/ time <= last_seen[req[r].sid] + Ttl
<1>1. AuthInv => [A]_vars
  <2> SUFFICES ASSUME AuthInv, NEW r \in Req, RequireAuth(r), req'[r].ok, Ttl # 0
               PROVE  time <= last_seen[req[r].sid] + Ttl
    OBVIOUS
  <2>1. req[r].pc = "check" /\ req' = [req EXCEPT ![r].pc = "respond", ![r].ok = Value_(req[r].sid, "auth_id") # Nil]
    BY DEF RequireAuth
  <2>2. req[r].sid \in Sid
    BY <2>1, FlightFacts
  <2>3. Value_(req[r].sid, "auth_id") # Nil
    BY <2>1 DEF AuthInv, TypeOK, Request
  <2>4. data[req[r].sid] # NoSession /\ ~Expired(req[r].sid)
    BY <2>2, <2>3, ValueFacts, AuthIsStore
  <2>5. last_seen[req[r].sid] # 0 /\ last_seen[req[r].sid] \in Nat /\ time \in Nat
    BY <2>2, <2>4 DEF AuthInv, SeenInv, TypeOK, StoreTypeOK
  <2> QED
    BY <2>4, <2>5, StoreAssumption DEF Expired
<1> HIDE DEF A
<1>2. Spec => [][A]_vars
  BY <1>1, AuthInvHolds, PTL
<1> QED
  BY <1>2 DEF NoExpiredAccess, A
===============================================================================
