SPECIFICATION Spec
CONSTANTS
  Emails = {e1, e2}
  Ids = {i1, i2}
  Links = {l1}
  Procs = {p1, p2}
  NoEmail = NoEmail
  NoId = NoId
  NoLink = NoLink
  MayFail = TRUE
SYMMETRY Symmetry
INVARIANTS AccountsTypeOK IndexIsSound VerifiedIsProven LinkMatchesAccount LostOnlyIfDoubted SignsInOwner
PROPERTIES LinksAreOneTime
