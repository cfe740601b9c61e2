CONSTANTS
  Browser = {b1, b2}
  Req = {r1, r2, r3}
  Kind = {"form", "login", "logout", "signout", "admin"}
  Sid = {1, 2, 3, 4, 5}
  Token = {1, 2}
  User = {u1}
  MaxPlants = 1
  Ttl = 1
  MaxTime = 3
  Key <- KeySet
  Value <- ValueSet
  NoSession = NoSession
  Nil = Nil
  Ability <- Abilities
  Grant <- Grants
  Lifetime = {0, 1}
  Subject <- Subjects
  Secret = {k1, k2}
  ServerKey = k1
  Caller = {c1}
  MaxTokens = 2
  LastSecond = 3
SYMMETRY ReqSymmetry
CHECK_DEADLOCK FALSE
SPECIFICATION MCSpec
INVARIANTS OnlyIssuedIdsAuthenticate LoginRegenerates OnlyGoodTokens TokenReadsBack
PROPERTIES TokenBoundToSession NoExpiredAccess
