SPECIFICATION AuditSpec
CONSTANTS
  Users = {u1}
  Tokens = {t1, t2}
  Procs = {p1, p2}
  NoUser = NoUser
  NoToken = NoToken
  MayFail = FALSE
SYMMETRY Symmetry
INVARIANTS UntrackedOnlyIfExposed EscapeOnlyIfExposed
