----------------------------- MODULE MCHttpAuth -----------------------------
(* The TLC instance of HttpAuth and Tokens: a behaviour is one of the two   *)
(* schemes at work, or one input of the token's codecs.                     *)
EXTENDS HttpAuth, TLC, Sequences

CONSTANTS Ability, Grant, Subject, Secret, ServerKey, Caller, Lifetime, MaxTokens, LastSecond

VARIABLES scheme, clock, rows, given, call, revoked,
  probe    \* schemes "bytes" and "claims": the bytes or the claims that are encoded

T == INSTANCE Tokens
tokvars == <<clock, rows, given, call, revoked>>
mcvars == <<vars, tokvars, scheme, probe>>

ReqSymmetry == Permutations(Req) \union Permutations(Browser)
KeySet == {"auth_id", "_csrf"}
ValueSet == Token \union User
Post == <<"post">>
Read == <<"read">>
Abilities == {Post, Read}
Grants == {<<Read>>, <<<<"*">>>>, <<<<"post", "SP", "all">>>>}
Subjects == {<<"ada">>}

Upto(n, S) == UNION {[1..k -> S] : k \in 0..n}
Bytes == Upto(4, {0, 1, 127, 128, 255})
Texts == Upto(2, {"ada", "exp", "Q", "B", "]"})
ClaimSet == [sub : Upto(1, {"ada", "exp", "Q", "B"}) \union {<<"B", "Q">>}, abilities : Upto(2, Texts),
             iat : {1}, exp : {2}]

MCInit ==
  /\ Init /\ T!TokenInit
  /\ \/ scheme \in {"session", "token"} /\ probe = Nil
     \/ scheme = "bytes" /\ probe \in Bytes
     \/ scheme = "claims" /\ probe \in ClaimSet

MCNext ==
  \/ scheme = "session" /\ Next /\ UNCHANGED <<tokvars, scheme, probe>>
  \/ scheme = "token" /\ T!TokenNext /\ UNCHANGED <<vars, scheme, probe>>

MCSpec == MCInit /\ [][MCNext]_mcvars

(* Requests with bearer tokens: see Tokens.                                *)
OnlyGoodTokens == scheme = "token" => T!OnlyGoodTokens

(* token.hpp: what sign() encodes is what verify() reads: bytes through    *)
(* base64url at every length and alignment, and claims through their JSON, *)
(* with quotes and backslashes anywhere in them, as long as no text holds  *)
(* a ']' or is the name of a field.                                        *)
TokenReadsBack ==
  /\ scheme = "bytes" => T!b64url_decode(T!b64url_encode(probe)) = probe
  /\ scheme = "claims" /\ T!Plain([kind |-> "signed", of |-> probe]) => T!parse_claims(T!claims_json(probe)) = probe
=============================================================================
