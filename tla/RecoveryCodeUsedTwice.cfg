CONSTANTS
  Secrets = {s1}
  Sessions = {m1, m2}
  Procs = {p1, p2}
  CodesPerSet = 1
  NoSecret = NoSecret
  NoSession = NoSession
  MayFail = FALSE
SPECIFICATION Spec
INVARIANT RecoveryCodeUsedOnce
