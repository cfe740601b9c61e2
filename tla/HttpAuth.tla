------------------------------ MODULE HttpAuth ------------------------------
(***************************************************************************)
(* Sessions over HTTP (include/http_auth.hpp, include/auth.hpp): requests  *)
(* on several server threads run session_middleware and one of the         *)
(* handlers built from the kit, sharing one SessionStore.                  *)
(*                                                                         *)
(*   form    a page that embeds csrf_token()                               *)
(*   login   POST behind verify_csrf, then attempt_login()                 *)
(*   logout  POST, logout()                                                *)
(*   signout POST, Guard::logout()                                         *)
(*   admin   GET behind require_auth                                       *)
(*                                                                         *)
(* Ids and tokens come from a CSPRNG: a minted one is new (external).  A   *)
(* browser's responses may arrive in any order.  The cookie a browser      *)
(* sends need not be one it was given: session_middleware takes any value, *)
(* so someone may plant an id there, made up or another browser's.         *)
(***************************************************************************)
EXTENDS SessionStore, FiniteSets

CONSTANTS
  Browser,    \* cookie jars
  Req,        \* requests that may be made, each on a thread of its own
  Kind,       \* the kinds of request that are made
  Token,      \* CSRF tokens
  User,       \* users with an account
  MaxPlants   \* bound: cookies planted in a behaviour

ASSUME AuthAssumption ==
  /\ Key = {"auth_id", "_csrf"} /\ Token \union User \subseteq Value
  /\ Kind \subseteq {"form", "login", "logout", "signout", "admin"}
  /\ Sid \subseteq Nat /\ Token \subseteq Nat /\ Nil \notin Sid \union Browser /\ Nil \notin Kind
  /\ MaxPlants \in Nat

VARIABLES
  jar,       \* the session cookie each browser holds
  page,      \* the token in the last form each browser received
  req,       \* the requests (alone is history: nothing has come between its steps)
  minted,    \* session ids minted, or made up, so far
  plants,    \* cookies planted so far
  tokens,    \* tokens minted so far, with the session each was minted for: a session
             \*   takes its tokens along when its id changes
  spent,     \* history: tokens of sessions that were logged out
  issued,    \* history: ids minted by regenerate_id()
  retired    \* history: ids that were renamed away or flushed

webvars == <<jar, page, minted, plants, tokens, spent>>
history == <<issued, retired>>
vars == <<time, data, last_seen, jar, page, req, minted, plants, tokens, spent, issued, retired>>

PC == {"unsent", "token", "mint", "verify", "attempt", "regenerate", "flush", "forget",
       "check", "respond", "done"}

Request ==
  [pc : PC, kind : Kind \union {Nil}, from : Browser \union {Nil}, sid : Sid \union {Nil},
   fresh : BOOLEAN, token : Token \union {Nil}, cookie : Sid \union {Nil}, ok : BOOLEAN,
   alone : BOOLEAN]

Unsent == [pc |-> "unsent", kind |-> Nil, from |-> Nil, sid |-> Nil, fresh |-> FALSE,
           token |-> Nil, cookie |-> Nil, ok |-> FALSE, alone |-> TRUE]

TypeOK ==
  /\ StoreTypeOK
  /\ jar \in [Browser -> Sid \union {Nil}] /\ page \in [Browser -> Token \union {Nil}]
  /\ req \in [Req -> Request]
  /\ minted \subseteq Sid /\ tokens \in [Token -> Sid \union {Nil}]
  /\ plants \in 0..MaxPlants /\ spent \subseteq Token
  /\ issued \subseteq minted /\ retired \subseteq minted

Init ==
  /\ StoreInit
  /\ jar = [b \in Browser |-> Nil] /\ page = [b \in Browser |-> Nil]
  /\ req = [r \in Req |-> Unsent]
  /\ minted = {} /\ plants = 0 /\ tokens = [t \in Token |-> Nil] /\ spent = {}
  /\ issued = {} /\ retired = {}

Goto(r, pc) == req' = [req EXCEPT ![r].pc = pc]

(* History: the logins among the requests qs that are in flight are not    *)
(* alone any more.                                                         *)
InFlight(q) == req[q].pc \notin {"unsent", "done"}
Disturbed(qs) ==
  [q \in Req |-> IF q \in qs /\ InFlight(q) /\ req[q].kind = "login"
                 THEN [req[q] EXCEPT !.alone = FALSE] ELSE req[q]]

(* csprng_hex(): an id, or a token, nobody has seen.  They are numbered in *)
(* the order they are minted.                                              *)
Fresh(s) == s \notin minted /\ \A x \in Sid : x < s => x \in minted
FreshToken(t) == tokens[t] = Nil /\ \A x \in Token : x < t => tokens[x] # Nil

-----------------------------------------------------------------------------
(* session_middleware: the cookie's id, or a new one.                      *)

First == [form |-> "token", login |-> "verify", logout |-> "flush",
          signout |-> "forget", admin |-> "check"]

Start(r, b, kind, token) ==
  /\ req[r].pc = "unsent"
  /\ \E s \in Sid :
       /\ IF jar[b] # Nil THEN s = jar[b] /\ UNCHANGED minted
                          ELSE Fresh(s) /\ minted' = minted \union {s}
       /\ req' = [Disturbed({q \in Req : req[q].sid = s}) EXCEPT ![r] =
            [pc |-> First[kind], kind |-> kind, from |-> b, sid |-> s,
             fresh |-> jar[b] = Nil, token |-> token, cookie |-> Nil, ok |-> FALSE,
             alone |-> kind = "login" => ~\E q \in Req : InFlight(q) /\ req[q].sid = s]]
  /\ UNCHANGED <<store, jar, page, plants, tokens, spent, history>>

(* A cookie is planted in a browser: an id in use, or a made-up one.       *)
Plant(b, s) ==
  /\ plants < MaxPlants /\ plants' = plants + 1
  /\ s \in minted \/ Fresh(s)
  /\ minted' = minted \union {s}
  /\ jar' = [jar EXCEPT ![b] = s]
  /\ UNCHANGED <<store, page, req, tokens, spent, history>>

(* The handler is done; the response has a cookie if the handler set one   *)
(* or the id was new.                                                      *)
Respond(r) ==
  LET q == req[r]
      set == IF q.cookie # Nil THEN q.cookie ELSE IF q.fresh THEN q.sid ELSE jar[q.from]
  IN /\ q.pc = "respond"
     /\ jar' = [jar EXCEPT ![q.from] = set]
     /\ page' = IF q.kind = "form" THEN [page EXCEPT ![q.from] = q.token] ELSE page
     /\ Goto(r, "done")
     /\ UNCHANGED <<store, minted, plants, tokens, spent, history>>

-----------------------------------------------------------------------------
(* csrf_token(): get, and if there is none mint and put.                   *)

TokenGet(r) ==
  LET t == Value_(req[r].sid, "_csrf")
  IN /\ req[r].pc = "token"
     /\ Get(req[r].sid, "_csrf")
     /\ req' = [req EXCEPT ![r].pc = IF t = Nil THEN "mint" ELSE "respond", ![r].token = t]
     /\ UNCHANGED <<webvars, history>>

TokenMint(r) ==
  /\ req[r].pc = "mint"
  /\ \E t \in Token :
       /\ FreshToken(t)
       /\ tokens' = [tokens EXCEPT ![t] = req[r].sid]
       /\ Put(req[r].sid, "_csrf", t)
       /\ req' = [req EXCEPT ![r].pc = "respond", ![r].token = t]
  /\ UNCHANGED <<jar, page, minted, plants, spent, history>>

-----------------------------------------------------------------------------
(* Mutant: a session without a token lets the request through. *)
MutTokenMatches(r) == Value_(req[r].sid, "_csrf") \in {Nil, req[r].token}

(* verify_csrf's test. *)
TokenMatches(r) ==
  /\ Value_(req[r].sid, "_csrf") # Nil
  /\ req[r].token = Value_(req[r].sid, "_csrf")

(* verify_csrf: 419 unless the token is the session's. *)
VerifyCsrf(r) ==
  /\ req[r].pc = "verify"
  /\ Get(req[r].sid, "_csrf")
  /\ Goto(r, IF TokenMatches(r) THEN "attempt" ELSE "respond")
  /\ UNCHANGED <<webvars, history>>

(* Guard::attempt(): right credentials put auth_id in the session ... *)
Attempt(r, u) ==
  /\ req[r].pc = "attempt"
  /\ Put(req[r].sid, "auth_id", u)
  /\ Goto(r, "regenerate")
  /\ UNCHANGED <<webvars, history>>

BadCredentials(r) ==
  /\ req[r].pc = "attempt"
  /\ Goto(r, "respond")
  /\ UNCHANGED <<store, webvars, history>>

(* Mutant: the response keeps the old cookie. *)
MutRegenerateKeepsCookie(r) ==
  /\ req[r].pc = "regenerate"
  /\ \E new \in Sid :
       /\ Fresh(new)
       /\ minted' = minted \union {new} /\ issued' = issued \union {new}
       /\ Rename(req[r].sid, new)
  /\ req' = [req EXCEPT ![r].pc = "respond", ![r].ok = TRUE, ![r].cookie = req[r].sid]
  /\ retired' = retired \union {req[r].sid}
  /\ UNCHANGED <<jar, page, plants, tokens, spent>>

(* ... and Session::regenerate_id() moves it under a new id, which is the  *)
(* response's cookie.  A session that is not there keeps its old id.       *)
Regenerate(r) ==
  LET s == req[r].sid
  IN /\ req[r].pc = "regenerate"
     /\ \E new \in Sid :
          /\ Fresh(new)
          /\ minted' = minted \union {new}
          /\ Rename(s, new)
          /\ req' = [req EXCEPT ![r].pc = "respond", ![r].ok = TRUE,
                                ![r].cookie = IF CanRename(s) THEN new ELSE s]
          /\ issued' = IF CanRename(s) THEN issued \union {new} ELSE issued
          /\ retired' = IF CanRename(s) THEN retired \union {s} ELSE retired
          /\ tokens' = [t \in Token |-> IF tokens[t] = s /\ CanRename(s) THEN new ELSE tokens[t]]
     /\ UNCHANGED <<jar, page, plants, spent>>

(* logout(): the whole session goes; the cookie is left as it is. *)
Logout(r) ==
  /\ req[r].pc = "flush"
  /\ Flush(req[r].sid)
  /\ retired' = retired \union {req[r].sid}
  /\ spent' = spent \union {t \in Token : tokens[t] = req[r].sid}
  /\ req' = [req EXCEPT ![r].pc = "respond", ![r].ok = TRUE]
  /\ UNCHANGED <<jar, page, minted, plants, tokens, issued>>

(* Guard::logout(): the session stays, without its user. *)
GuardLogout(r) ==
  /\ req[r].pc = "forget"
  /\ Forget(req[r].sid, "auth_id")
  /\ req' = [req EXCEPT ![r].pc = "respond", ![r].ok = TRUE]
  /\ UNCHANGED <<webvars, history>>

(* require_auth: 401 unless the session has an auth_id. *)
RequireAuth(r) ==
  /\ req[r].pc = "check"
  /\ Get(req[r].sid, "auth_id")
  /\ req' = [req EXCEPT ![r].pc = "respond", ![r].ok = Value_(req[r].sid, "auth_id") # Nil]
  /\ UNCHANGED <<webvars, history>>

Handle(r) ==
  \/ TokenGet(r) \/ TokenMint(r) \/ VerifyCsrf(r) \/ BadCredentials(r) \/ Regenerate(r)
  \/ Logout(r) \/ GuardLogout(r) \/ RequireAuth(r) \/ Respond(r) \/ \E u \in User : Attempt(r, u)

(* Time passes, and something calls gc(). *)
Background ==
  /\ Tick \/ Gc
  /\ req' = Disturbed(Req)
  /\ UNCHANGED <<webvars, history>>

(* The tokens a request can carry: any that some page has. *)
Known == {Nil} \union {page[b] : b \in Browser}

Next ==
  \/ \E r \in Req, b \in Browser, k \in Kind :
       \E t \in IF k = "login" THEN Known ELSE {Nil} : Start(r, b, k, t)
  \/ \E b \in Browser, s \in Sid : Plant(b, s)
  \/ \E r \in Req : Handle(r)
  \/ Background

Spec == Init /\ [][Next]_vars

-----------------------------------------------------------------------------
(* Correctness.                                                            *)

Authenticated(s) == data[s] # NoSession /\ data[s]["auth_id"] # Nil

LoggingIn(s) == \E r \in Req : req[r].pc = "regenerate" /\ req[r].sid = s

(* Fixation and logout: an id that a browser held before it logged in,     *)
(* planted ones included, or that was logged out or replaced, never        *)
(* answers as logged in, whatever logins, logouts and page loads race on   *)
(* it; only a login still between its two store calls may show through.    *)
OnlyIssuedIdsAuthenticate ==
  \A s \in Sid : Authenticated(s) => s \in issued \ retired \/ LoggingIn(s)

(* verify_csrf lets a form through only with a token that was minted for   *)
(* the very session of the request, however often that session has changed *)
(* its id since, and never with one from before its logout or its expiry,  *)
(* whoever was handed the session's id.                                    *)
TokenBoundToSession ==
  [][\A r \in Req : VerifyCsrf(r) /\ req'[r].pc = "attempt"
       => /\ req[r].token # Nil
          /\ tokens[req[r].token] = req[r].sid
          /\ req[r].token \notin spent
          /\ ~Expired(req[r].sid)]_vars

(* attempt_login: "On success the session id is REGENERATED": the response *)
(* of a successful login carries an id that regenerate_id() issued, unless *)
(* another request of the session, or the clock, came between its steps.   *)
LoginRegenerates ==
  \A r \in Req : req[r].kind = "login" /\ req[r].ok /\ req[r].alone => req[r].cookie \in issued

(* require_auth lets no request through on a session untouched for longer  *)
(* than the ttl.                                                           *)
NoExpiredAccess ==
  [][\A r \in Req : RequireAuth(r) /\ req'[r].ok
       => Ttl = 0 \/ time <= last_seen[req[r].sid] + Ttl]_vars
=============================================================================
