CONSTANTS
  Secrets = {s1, s2}
  Sessions = {m1, m2}
  Procs = {p1, p2}
  CodesPerSet = 2
  NoSecret = NoSecret
  NoSession = NoSession
  MayFail = TRUE
SYMMETRY Symmetry
SPECIFICATION Spec
INVARIANTS
  SecondFactorTypeOK
  OneLoginPerSession
  EnabledIsConfirmed
  SpentCodesAreDead
  SetsMixOnlyIfOverlapped
PROPERTIES MFASessionsAreOneTime
