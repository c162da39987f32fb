SPECIFICATION ResetSpec
CONSTANTS
  Users = {u1, u2}
  Tokens = {t1, t2}
  Procs = {p1, p2}
  Links = {l1}
  NoUser = NoUser
  NoToken = NoToken
  NoLink = NoLink
  MayFail = FALSE
  ResetFails = TRUE
SYMMETRY Symmetry
INVARIANTS OldSessionsAreOut PasswordFromMailbox
PROPERTIES ResetLinksAreOneTime
