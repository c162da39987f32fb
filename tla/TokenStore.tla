----------------------------- MODULE TokenStore -----------------------------
(* The login-session part of the Redis key space that the identity         *)
(* provider shares between all its request goroutines                      *)
(* (internal/auth/token_store.go).  One operator per Redis command: a      *)
(* command is atomic, a method of TokenStore that sends two of them is     *)
(* not, so the methods themselves are the steps of module Sessions.        *)
(*                                                                         *)
(* An id t of Tokens stands for the pair of secrets one issueTokenPair     *)
(* generates: the refresh token (key refresh:t) and the SSO session token  *)
(* (key sso_session:t).  The two key spaces are disjoint, so one id for    *)
(* both loses nothing.                                                     *)

CONSTANTS
  Users,    \* user ids
  Tokens,   \* token ids randomToken may produce
  NoUser    \* the absence of a key

ASSUME NoUserAssumption == NoUser \notin Users

VARIABLES
  refresh,       \* refresh:t -> user id, NoUser when the key is absent
  userSessions,  \* user_sessions:u -> the set of refresh tokens tracked for u
  sso            \* sso_session:t -> user id, NoUser when the key is absent

StoreTypeOK ==
  /\ refresh \in [Tokens -> Users \cup {NoUser}]
  /\ userSessions \in [Users -> SUBSET Tokens]
  /\ sso \in [Tokens -> Users \cup {NoUser}]

StoreInit ==
  /\ refresh = [t \in Tokens |-> NoUser]
  /\ userSessions = [u \in Users |-> {}]
  /\ sso = [t \in Tokens |-> NoUser]

(* The refresh token t can still be exchanged. *)
Live(t) == refresh[t] # NoUser

-----------------------------------------------------------------------------

(* SET refresh:t u EX ttl *)
SetRefreshKey(t, u) == refresh' = [refresh EXCEPT ![t] = u]

(* DEL refresh:t, and the deletion half of GETDEL refresh:t; the value     *)
(* half is refresh[t], read in the same step.  Mutants: the key is blanked *)
(* instead of deleted; a GET takes the place of the GETDEL.                *)
BlankRefreshKey(t) == refresh' = [refresh EXCEPT ![t] = {}]
DelRefreshKey(t) == refresh' = [refresh EXCEPT ![t] = NoUser]
GetRefreshKey(t) == refresh' = refresh
GetDelRefreshKey(t) == DelRefreshKey(t)

(* SADD, SREM and DEL on user_sessions:u.  Mutant: the key does not        *)
(* contain the user id.                                                    *)
AddSharedSession(u, t) == userSessions' = [v \in Users |-> userSessions[v] \cup {t}]
AddUserSession(u, t) == userSessions' = [userSessions EXCEPT ![u] = @ \cup {t}]
RemUserSession(u, t) == userSessions' = [userSessions EXCEPT ![u] = @ \ {t}]
DelUserSessions(u) == userSessions' = [userSessions EXCEPT ![u] = {}]

(* SET and DEL on sso_session:t *)
SetSessionKey(t, u) == sso' = [sso EXCEPT ![t] = u]
DelSessionKey(t) == sso' = [sso EXCEPT ![t] = NoUser]

=============================================================================
