-------------------------------- MODULE Tokens --------------------------------
(***************************************************************************)
(* Bearer tokens: the signed ones of token.hpp, which any holder of the    *)
(* secret verifies without a table, and the stored ones of                 *)
(* personal_access_token.hpp.  Texts are as in Text.  The hash and the     *)
(* signature are external: equal for equal input only.                     *)
(***************************************************************************)
EXTENDS Integers, Sequences, SequencesExt, Text

CONSTANTS
  Ability,    \* what requests need (texts)
  Grant,      \* the lists of abilities that tokens are issued with
  Subject,    \* subjects (texts)
  Secret,     \* signing secrets; the server verifies with one of them
  ServerKey,
  Caller,     \* requests that present a token
  Lifetime,   \* the expiry times tokens are issued with (0: never)
  MaxTokens,  \* bound: tokens issued
  LastSecond  \* bound: the clock

VARIABLES
  clock,
  rows,       \* the personal_access_tokens table, by id
  given,      \* the tokens handed out, as their holders have them, with what they were issued for
  call,       \* the requests
  revoked     \* history: ids revoke() was called for

-----------------------------------------------------------------------------
(* base64url: both loops keep the bits that are not used up in val, of     *)
(* which only the low 14 are ever looked at.                               *)

Shifted(val, by, add) == (val * 2^by + add) % 2^16
Bits(val, from, width) == (val \div 2^from) % 2^width

RECURSIVE Emit(_)
Emit(e) ==
  IF e.bits < 0 THEN e
  ELSE Emit([e EXCEPT !.out = Append(@, Bits(e.val, e.bits, 6)), !.bits = @ - 6])

(* Mutant: the bits of the last, partial group are left unaligned. *)
Mutb64url_encode(in) ==
  LET e == FoldLeft(LAMBDA a, c : Emit([a EXCEPT !.val = Shifted(@, 8, c), !.bits = @ + 8]),
                    [val |-> 0, bits |-> -6, out |-> <<>>], in)
  IN IF e.bits > -6 THEN Append(e.out, Bits(e.val, 0, 6)) ELSE e.out

b64url_encode(in) ==
  LET e == FoldLeft(LAMBDA a, c : Emit([a EXCEPT !.val = Shifted(@, 8, c), !.bits = @ + 8]),
                    [val |-> 0, bits |-> -6, out |-> <<>>], in)
  IN IF e.bits > -6 THEN Append(e.out, Bits(Shifted(e.val, 8, 0), e.bits + 8, 6)) ELSE e.out

(* A digit below 0 is a character outside the alphabet. *)
b64url_decode(in) ==
  LET Take(a, d) ==
        LET v == Shifted(a.val, 6, d) b == a.bits + 6 IN
        IF d < 0 THEN a
        ELSE IF b < 0 THEN [a EXCEPT !.val = v, !.bits = b]
        ELSE [val |-> v, bits |-> b - 8, out |-> Append(a.out, Bits(v, b, 8))]
  IN FoldLeft(Take, [val |-> 0, bits |-> -8, out |-> <<>>], in).out

-----------------------------------------------------------------------------
(* The claims as JSON.                                                     *)

json_escape(s) == FlattenSeq([i \in DOMAIN s |-> IF s[i] \in {"Q", "B"} THEN <<"B", s[i]>> ELSE <<s[i]>>])
Quoted(s) == <<"Q">> \o json_escape(s) \o <<"Q">>

claims_json(c) ==
  <<"{">> \o Quoted(<<"sub">>) \o <<":">> \o Quoted(c.sub) \o <<",">> \o Quoted(<<"abilities">>) \o <<":", "[">>
  \o Joined([i \in DOMAIN c.abilities |-> Quoted(c.abilities[i])], ",")
  \o <<"]", ",">> \o Quoted(<<"iat">>) \o <<":", to_string(c.iat), ",">> \o Quoted(<<"exp">>) \o <<":", to_string(c.exp), "}">>

(* The string whose opening quote is at q: its text, and where it ends.    *)
RECURSIVE ReadFrom(_, _, _)
ReadFrom(j, p, out) ==
  IF p > Len(j) \/ j[p] = "Q" THEN [text |-> out, end |-> p]
  ELSE IF j[p] = "B" /\ p < Len(j) THEN ReadFrom(j, p + 2, Append(out, j[p + 1]))
  ELSE ReadFrom(j, p + 1, Append(out, j[p]))

extract_string(j, key) ==
  LET k == FindKey(j, key)
      colon == Find(j, <<":">>, k)
      q == Find(j, <<"Q">>, colon + 1)
  IN IF k = 0 \/ colon = 0 \/ q = 0 THEN <<>> ELSE ReadFrom(j, q + 1, <<>>).text

(* What is not a number right after the colon reads as 0. *)
extract_int(j, key) ==
  LET k == FindKey(j, key) colon == Find(j, <<":">>, k)
  IN IF k = 0 \/ colon = 0 \/ colon = Len(j) THEN 0 ELSE stoll(j[colon + 1])

RECURSIVE ReadArray(_, _, _)
ReadArray(j, i, rb) ==
  LET q == Find(j, <<"Q">>, i) IN
  IF i >= rb \/ q = 0 \/ q >= rb THEN <<>>
  ELSE LET s == ReadFrom(j, q + 1, <<>>) IN <<s.text>> \o ReadArray(j, s.end + 1, rb)

extract_string_array(j, key) ==
  LET k == FindKey(j, key)
      lb == Find(j, <<"[">>, k)
      rb == Find(j, <<"]">>, lb)
  IN IF k = 0 \/ lb = 0 \/ rb = 0 THEN <<>> ELSE ReadArray(j, lb + 1, rb)

parse_claims(j) ==
  [sub |-> extract_string(j, "sub"), abilities |-> extract_string_array(j, "abilities"),
   iat |-> extract_int(j, "iat"), exp |-> extract_int(j, "exp")]
-----------------------------------------------------------------------------
(* Issuing.  What a holder has of a stored token is its plaintext, here its *)
(* number; of a signed one, the payload and the secret it was signed with. *)

Claims(sub, abilities, exp) == [sub |-> sub, abilities |-> abilities, iat |-> clock, exp |-> exp]

TokenInit ==
  /\ clock = 1 /\ rows = <<>> /\ given = <<>> /\ revoked = {}
  /\ call = [c \in Caller |-> [pc |-> "idle", holds |-> 0, ability |-> <<>>, now |-> 0, began |-> 0, dead |-> FALSE, ok |-> FALSE]]

HandOut(token) == Len(given) < MaxTokens /\ given' = Append(given, token)

sign(sub, abilities, exp, secret) ==
  /\ HandOut([kind |-> "signed", text |-> claims_json(Claims(sub, abilities, exp)), secret |-> secret,
              of |-> Claims(sub, abilities, exp)])
  /\ UNCHANGED <<clock, rows, call, revoked>>

(* join() and split_ws(); SP is the space. *)
join(v) == Joined(v, "SP")

split_ws(s) ==
  LET Step(a, c) == IF c # "SP" THEN [a EXCEPT !.cur = Append(@, c)]
                    ELSE [out |-> IF a.cur = <<>> THEN a.out ELSE Append(a.out, a.cur), cur |-> <<>>]
      end == FoldLeft(Step, [out |-> <<>>, cur |-> <<>>], s)
  IN IF end.cur = <<>> THEN end.out ELSE Append(end.out, end.cur)

(* Store::issue(): row id and plaintext are both new. *)
issue(abilities, exp) ==
  /\ rows' = Append(rows, [there |-> TRUE, plain |-> Len(given) + 1, abilities |-> join(abilities), exp |-> exp])
  /\ HandOut([kind |-> "stored", id |-> Len(rows) + 1, of |-> Claims(<<>>, abilities, exp)])
  /\ UNCHANGED <<clock, call, revoked>>

revoke(id) ==
  /\ id \in DOMAIN rows
  /\ rows' = [rows EXCEPT ![id].there = FALSE]
  /\ revoked' = revoked \union {id}
  /\ UNCHANGED <<clock, given, call>>

Second ==
  /\ clock < LastSecond /\ clock' = clock + 1
  /\ UNCHANGED <<rows, given, call, revoked>>

-----------------------------------------------------------------------------
(* Using.                                                                  *)

(* can() *)
Can(abilities, a) == \E i \in DOMAIN abilities : abilities[i] \in {a, <<"*">>}

(* Mutant: a token is good for a second too long. *)
MutExpired(exp, now) == exp # 0 /\ now > exp + 1

Expired(exp, now) == exp # 0 /\ now > exp

(* A request arrives with a token, for something that takes an ability. *)
Present(c, i, a) ==
  /\ call[c].pc = "idle"
  /\ call' = [call EXCEPT ![c] = [pc |-> "clock", holds |-> i, ability |-> a, now |-> 0, began |-> clock,
                                  dead |-> given[i].kind = "stored" /\ given[i].id \in revoked, ok |-> FALSE]]
  /\ UNCHANGED <<clock, rows, given, revoked>>

(* The clock is read, then the table or the token itself. *)
ReadClock(c) ==
  /\ call[c].pc = "clock"
  /\ call' = [call EXCEPT ![c].pc = "decide", ![c].now = clock]
  /\ UNCHANGED <<clock, rows, given, revoked>>

(* verify() and requires_ability() *)
verify(c) ==
  LET t == given[call[c].holds] claims == parse_claims(t.text) IN
  /\ call[c].pc = "decide" /\ t.kind = "signed"
  /\ call' = [call EXCEPT ![c].pc = "done", ![c].ok =
       /\ t.secret = ServerKey /\ ~Expired(claims.exp, call[c].now) /\ Can(claims.abilities, call[c].ability)]
  /\ UNCHANGED <<clock, rows, given, revoked>>

(* Store::authenticate(), then can() on the record. *)
authenticate(c) ==
  LET t == given[call[c].holds]
      hits == {id \in DOMAIN rows : rows[id].there /\ rows[id].plain = call[c].holds}
  IN /\ call[c].pc = "decide" /\ t.kind = "stored"
     /\ call' = [call EXCEPT ![c].pc = "done", ![c].ok =
          \E id \in hits : ~Expired(rows[id].exp, call[c].now) /\ Can(split_ws(rows[id].abilities), call[c].ability)]
     /\ UNCHANGED <<clock, rows, given, revoked>>

TokenNext ==
  \/ Second
  \/ \E v \in Grant, exp \in Lifetime :
       issue(v, exp) \/ \E sub \in Subject, k \in Secret : sign(sub, v, exp, k)
  \/ \E id \in DOMAIN rows : revoke(id)
  \/ \E c \in Caller : \/ \E i \in DOMAIN given, a \in Ability : Present(c, i, a)
                        \/ ReadClock(c) \/ verify(c) \/ authenticate(c)

-----------------------------------------------------------------------------
(* Correctness.                                                            *)

(* What the text formats cannot hold: a ']' or the name of a field in an   *)
(* ability or a subject, a space in a stored ability.                      *)
Unsafe(kind) == IF kind = "stored" THEN {"SP"} ELSE {"]", "exp", "iat", "abilities"}
Plain(t) == \A x \in {t.of.sub} \union ToSet(t.of.abilities) : ToSet(x) \intersect Unsafe(t.kind) = {}

InTime(t, now) == t.of.exp = 0 \/ now <= t.of.exp

(* A request is let in only with a token that was issued for what it asks  *)
(* (or "*"), signed with the server's secret, and that was neither expired *)
(* nor revoked when the request began, whatever was issued, revoked or     *)
(* expired around it; and with such a token it is let in, unless it is     *)
(* revoked or runs out meanwhile.                                          *)
OnlyGoodTokens ==
  \A c \in Caller : call[c].pc = "done" =>
    LET q == call[c] t == given[q.holds]
        mayPass == Can(t.of.abilities, q.ability) /\ InTime(t, q.began) /\ ~q.dead
                   /\ (t.kind = "signed" => t.secret = ServerKey)
        mustPass == mayPass /\ InTime(t, q.now) /\ (t.kind = "stored" => t.id \notin revoked)
    IN Plain(t) => (q.ok => mayPass) /\ (mustPass => q.ok)
===============================================================================
