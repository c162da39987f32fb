SPECIFICATION Spec
CONSTANTS
  Users = {u1, u2}
  Tokens = {t1, t2}
  Procs = {p1, p2}
  NoUser = NoUser
  NoToken = NoToken
  MayFail = TRUE
SYMMETRY Symmetry
INVARIANTS TypeOK NoFork RevokedStaysRevoked RevocationHitsOwnUser
PROPERTIES ImplementsLifecycle
