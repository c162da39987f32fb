CONSTANTS
  u1 = u1
  u2 = u2
  a = a
  b = b
  x = x
  y = y
  s = s
  t = t
  v = v
  Users = {u1, u2}
  Clients = {a, b}
  URIs = {x, y}
  Scopes = {s, t}
  Verifiers = {v}
  Codes = {c1, c2}
  Procs = {p1, p2}
  RedirectURIs <- OneURI
  Asked <- FiveRequests
  NoVerifier = NoVerifier
  NoCode = NoCode
  NoGrant = NoGrant
  NoConsent = NoConsent
  MayFail = TRUE
SYMMETRY Symmetry
SPECIFICATION Spec
INVARIANTS
  CodesTypeOK
  CodeRedeemedOnce
  TokenMatchesCode
  CodeWithinShown
PROPERTIES CodesAreOneTime
