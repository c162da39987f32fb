SPECIFICATION LogoutSpec
CONSTANTS
  Users = {u1, u2}
  Tokens = {t1, t2}
  Procs = {p1, p2}
  NoUser = NoUser
  NoToken = NoToken
  Keep = Keep
  MayFail = TRUE
SYMMETRY Symmetry
INVARIANTS ClearedIsDead SignedOutStaysOut OneUserPerJar
