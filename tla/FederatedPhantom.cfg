SPECIFICATION Spec
CONSTANTS
  Emails = {e1}
  Ids = {i1, i2}
  Links = {l1}
  Procs = {p1, p2}
  NoEmail = NoEmail
  NoId = NoId
  NoLink = NoLink
  MayFail = FALSE
INVARIANT SignedInExists
