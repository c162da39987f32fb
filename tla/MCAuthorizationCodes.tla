------------------------ MODULE MCAuthorizationCodes ------------------------
(* Instance of AuthorizationCodes for TLC.  The requests ask for no scope   *)
(* of a client, for one and for both, and for one of another client, with   *)
(* every kind of challenge; one names a URI that its client has not         *)
(* registered, and one comes from another user.                             *)
EXTENDS AuthorizationCodes, TLC

CONSTANTS u1, u2, a, b, x, y, s, t, v

OneURI == [c \in Clients |-> {x}]

Ask(user, client, uri, scopes, challenge) ==
  [user |-> user, client |-> client, uri |-> uri, scopes |-> scopes,
   challenge |-> challenge]

FiveRequests ==
  { Ask(u1, a, x, {}, NoChallenge),
    Ask(u1, a, x, {s, t}, [verifier |-> v, method |-> "S256"]),
    Ask(u1, b, x, {t}, [verifier |-> v, method |-> "plain"]),
    Ask(u1, a, y, {t}, NoChallenge),
    Ask(u2, a, x, {s, t}, NoChallenge) }

Symmetry == Permutations(Codes) \cup Permutations(Procs)

=============================================================================
