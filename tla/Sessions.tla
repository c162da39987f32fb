------------------------------ MODULE Sessions ------------------------------
(* Login sessions of the identity provider: the requests that issue,       *)
(* rotate and revoke refresh tokens and SSO session tokens                 *)
(* (internal/auth/login.go, logout.go, and the tails of totp.go,           *)
(* federation.go and password_reset.go), run by concurrent goroutines.     *)
(*                                                                         *)
(* A process of Procs is a goroutine that serves one request at a time.    *)
(* A handler is cut into one step per Redis or Cassandra round trip: other *)
(* requests run between two of them.  With MayFail every round trip may    *)
(* also fail (the client went away and cancelled r.Context(), a timeout, a *)
(* lost connection), with the command applied or not; the server process   *)
(* itself may stop and restart, Redis keeping its data.                    *)
EXTENDS TokenStore

CONSTANTS
  Procs,    \* request goroutines
  NoToken,  \* no token (an absent cookie, a field not set yet)
  MayFail   \* BOOLEAN: round trips may fail and the server may crash

ASSUME NoTokenAssumption == NoToken \notin Tokens
ASSUME MayFailAssumption == MayFail \in BOOLEAN

VARIABLES
  refreshCookie, \* refresh tokens delivered in a Set-Cookie: the clients may
                 \* present any of them, any number of times
  ssoCookie,     \* SSO session tokens delivered likewise
  pc,            \* the next round trip of each goroutine
  req,           \* the local variables of the handler each goroutine runs
  root,          \* history: the login that began the chain of rotations a
                 \* token belongs to, NoToken for a token not generated yet
  revoked        \* history: the tokens a revocation's pipeline has deleted

vars == <<refresh, userSessions, sso, refreshCookie, ssoCookie, pc, req, root,
          revoked>>

(* "login" is Login without TOTP.  "verify" stands for the handlers that   *)
(* store a refresh token but no SSO session: the TOTP Verify and Recovery  *)
(* handlers and the Google callback, entered here once the second factor   *)
(* or the federated identity has been accepted.                            *)
Ops == {"none", "login", "verify", "refresh", "logout", "revokeAll"}

Labels == {"idle", "setRefresh", "sadd", "setSession", "getdel", "srem",
           "findUser", "delSession", "smembers", "delRefresh", "delSet"}

(* op: the handler; usr: the user it acts for; old, sess: the refresh and  *)
(* the session cookie presented; new: the token generated; todo: what      *)
(* SMEMBERS returned and the pipeline has still to delete.                 *)
Requests == [op: Ops, usr: Users \cup {NoUser}, old: Tokens \cup {NoToken},
             sess: Tokens \cup {NoToken}, new: Tokens \cup {NoToken},
             todo: SUBSET Tokens]

NoRequest == [op |-> "none", usr |-> NoUser, old |-> NoToken, sess |-> NoToken,
              new |-> NoToken, todo |-> {}]

TypeOK ==
  /\ StoreTypeOK
  /\ refreshCookie \subseteq Tokens
  /\ ssoCookie \subseteq Tokens
  /\ pc \in [Procs -> Labels]
  /\ req \in [Procs -> Requests]
  /\ root \in [Tokens -> Tokens \cup {NoToken}]
  /\ revoked \subseteq Tokens

Init ==
  /\ StoreInit
  /\ refreshCookie = {}
  /\ ssoCookie = {}
  /\ pc = [p \in Procs |-> "idle"]
  /\ req = [p \in Procs |-> NoRequest]
  /\ root = [t \in Tokens |-> NoToken]
  /\ revoked = {}

-----------------------------------------------------------------------------
(* Control.                                                                *)

Goto(p, label) == pc' = [pc EXCEPT ![p] = label]

(* The handler returns; its locals are gone. *)
Finish(p) ==
  /\ Goto(p, "idle")
  /\ req' = [req EXCEPT ![p] = NoRequest]

(* The request r arrives at an idle goroutine, which goes to label. *)
Begin(p, r, label) ==
  /\ pc[p] = "idle"
  /\ Goto(p, label)
  /\ req' = [req EXCEPT ![p] = r]

-----------------------------------------------------------------------------
(* Issuing a token pair: the tail of every login and of Refresh.           *)

Fresh(t) == t \in Tokens /\ root[t] = NoToken

(* Login once the password has been verified, or a second factor or a      *)
(* federated login accepted: randomToken generates t, which begins a       *)
(* chain of its own.                                                       *)
StartLogin(p) ==
  \E op \in {"login", "verify"}, u \in Users, t \in Tokens :
    /\ Fresh(t)
    /\ Begin(p, [NoRequest EXCEPT !.op = op, !.usr = u, !.new = t], "setRefresh")
    /\ root' = [root EXCEPT ![t] = t]
    /\ UNCHANGED <<refresh, userSessions, sso, refreshCookie, ssoCookie, revoked>>

(* StoreRefreshToken, first command: SET refresh:new.  On an error the     *)
(* handler answers 500 without a cookie, whether or not the SET was done.  *)
SetRefresh(p) ==
  /\ pc[p] = "setRefresh"
  /\ \/ /\ SetRefreshKey(req[p].new, req[p].usr)
        /\ Goto(p, "sadd")
        /\ UNCHANGED req
     \/ /\ MayFail
        /\ SetRefreshKey(req[p].new, req[p].usr) \/ UNCHANGED refresh
        /\ Finish(p)
  /\ UNCHANGED <<userSessions, sso, refreshCookie, ssoCookie, root, revoked>>

(* After StoreRefreshToken: the handlers that also open an SSO session go  *)
(* on to store it, the others answer with the refresh cookie.              *)
AfterStore(p) ==
  \/ /\ req[p].op # "verify"
     /\ Goto(p, "setSession")
     /\ UNCHANGED <<req, refreshCookie>>
  \/ /\ req[p].op = "verify"
     /\ Finish(p)
     /\ refreshCookie' = refreshCookie \cup {req[p].new}

(* StoreRefreshToken, second command: SADD user_sessions:usr new. *)
TrackSession(p) ==
  /\ pc[p] = "sadd"
  /\ \/ /\ AddUserSession(req[p].usr, req[p].new)
        /\ AfterStore(p)
     \/ /\ MayFail
        /\ AddUserSession(req[p].usr, req[p].new) \/ UNCHANGED userSessions
        /\ Finish(p)
        /\ UNCHANGED refreshCookie
  /\ UNCHANGED <<refresh, sso, ssoCookie, root, revoked>>

(* Mutant of StoreRefreshToken: the two commands in the other order.       *)
TrackFirst(p) ==
  /\ pc[p] = "setRefresh"
  /\ AddUserSession(req[p].usr, req[p].new)
  /\ Goto(p, "sadd")
  /\ UNCHANGED <<refresh, req, sso, refreshCookie, ssoCookie, root, revoked>>
SetSecond(p) ==
  /\ pc[p] = "sadd"
  /\ SetRefreshKey(req[p].new, req[p].usr)
  /\ AfterStore(p)
  /\ UNCHANGED <<userSessions, sso, ssoCookie, root, revoked>>
StoreRefreshTokenSwapped(p) == TrackFirst(p) \/ SetSecond(p)

StoreRefreshToken(p) == SetRefresh(p) \/ TrackSession(p)

(* StoreSessionToken, the last round trip of issueTokenPair.  The refresh  *)
(* cookie is already in the response headers: the client gets it even      *)
(* when this SET fails and the status is 500.                              *)
SetSession(p) ==
  /\ pc[p] = "setSession"
  /\ \/ /\ SetSessionKey(req[p].new, req[p].usr)
        /\ ssoCookie' = ssoCookie \cup {req[p].new}
     \/ /\ MayFail
        /\ SetSessionKey(req[p].new, req[p].usr) \/ UNCHANGED sso
        /\ UNCHANGED ssoCookie
  /\ refreshCookie' = refreshCookie \cup {req[p].new}
  /\ Finish(p)
  /\ UNCHANGED <<refresh, userSessions, root, revoked>>

-----------------------------------------------------------------------------
(* Consuming a refresh token: Refresh and Logout.                          *)

StartRefresh(p) ==
  \E t \in refreshCookie :
    /\ Begin(p, [NoRequest EXCEPT !.op = "refresh", !.old = t], "getdel")
    /\ UNCHANGED <<refresh, userSessions, sso, refreshCookie, ssoCookie, root,
                   revoked>>

(* A client sends either cookie, both or none: the refresh cookie has a    *)
(* Path that browsers do not match with /auth/logout.                      *)
StartLogout(p) ==
  \E t \in refreshCookie \cup {NoToken}, s \in ssoCookie \cup {NoToken} :
    /\ Begin(p, [NoRequest EXCEPT !.op = "logout", !.old = t, !.sess = s],
             IF t = NoToken THEN "delSession" ELSE "getdel")
    /\ UNCHANGED <<refresh, userSessions, sso, refreshCookie, ssoCookie, root,
                   revoked>>

(* ConsumeRefreshToken returned an error: Refresh answers 401 and leaves   *)
(* the other sessions alone, Logout goes on.                               *)
NotConsumedIgnored(p) == Goto(p, "srem") /\ UNCHANGED req  \* mutant: error dropped
NotConsumed(p) ==
  \/ req[p].op = "refresh" /\ Finish(p)
  \/ req[p].op = "logout" /\ Goto(p, "delSession") /\ UNCHANGED req

(* ConsumeRefreshToken, first command: GETDEL refresh:old. *)
GetDel(p) ==
  /\ pc[p] = "getdel"
  /\ \/ /\ Live(req[p].old)
        /\ GetDelRefreshKey(req[p].old)
        /\ req' = [req EXCEPT ![p].usr = refresh[req[p].old]]
        /\ Goto(p, "srem")
     \/ /\ ~Live(req[p].old)
        /\ UNCHANGED refresh
        /\ NotConsumed(p)
     \/ /\ MayFail
        /\ GetDelRefreshKey(req[p].old) \/ UNCHANGED refresh
        /\ NotConsumed(p)
  /\ UNCHANGED <<userSessions, sso, refreshCookie, ssoCookie, root, revoked>>

(* ConsumeRefreshToken, second command: SREM user_sessions:usr old, whose  *)
(* result is ignored.                                                      *)
UntrackAll(p) ==  \* mutant: DEL of the whole set
  /\ pc[p] = "srem"
  /\ DelUserSessions(req[p].usr)
  /\ Goto(p, IF req[p].op = "refresh" THEN "findUser" ELSE "delSession")
  /\ UNCHANGED <<refresh, sso, refreshCookie, ssoCookie, req, root, revoked>>

Untrack(p) ==
  /\ pc[p] = "srem"
  /\ \/ RemUserSession(req[p].usr, req[p].old)
     \/ MayFail /\ UNCHANGED userSessions
  /\ Goto(p, IF req[p].op = "refresh" THEN "findUser" ELSE "delSession")
  /\ UNCHANGED <<refresh, sso, refreshCookie, ssoCookie, req, root, revoked>>

(* Refresh looks the user up, and issueTokenPair generates the next token  *)
(* of the chain.  When the lookup fails, the row being unreadable or gone, *)
(* the answer is 401 and the chain ends: its token has been consumed.      *)
FindUser(p) ==
  /\ pc[p] = "findUser"
  /\ \/ \E t \in Tokens :
          /\ Fresh(t)
          /\ req' = [req EXCEPT ![p].new = t]
          /\ root' = [root EXCEPT ![t] = root[req[p].old]]
          /\ Goto(p, "setRefresh")
     \/ /\ Finish(p)
        /\ UNCHANGED root
  /\ UNCHANGED <<refresh, userSessions, sso, refreshCookie, ssoCookie, revoked>>

(* Logout deletes the SSO session of the cookie, when there is one, and    *)
(* ignores the error; the answer is always 200.                            *)
DelSession(p) ==
  /\ pc[p] = "delSession"
  /\ \/ req[p].sess # NoToken /\ DelSessionKey(req[p].sess)
     \/ (req[p].sess = NoToken \/ MayFail) /\ UNCHANGED sso
  /\ Finish(p)
  /\ UNCHANGED <<refresh, userSessions, refreshCookie, ssoCookie, root, revoked>>

-----------------------------------------------------------------------------
(* RevokeAllUserSessions: the RevokeAll handler and the end of a password  *)
(* reset.                                                                  *)

StartRevokeAll(p) ==
  \E u \in Users :
    /\ Begin(p, [NoRequest EXCEPT !.op = "revokeAll", !.usr = u], "smembers")
    /\ UNCHANGED <<refresh, userSessions, sso, refreshCookie, ssoCookie, root,
                   revoked>>

(* The tokens tracked for the user are read once; the pipeline is built    *)
(* from that answer.                                                       *)
SMembersOne(p) ==  \* mutant: one member instead of all
  /\ pc[p] = "smembers"
  /\ \E S \in {{t} : t \in userSessions[req[p].usr]} \cup {{}} :
       req' = [req EXCEPT ![p].todo = S]
  /\ Goto(p, "delRefresh")
  /\ UNCHANGED <<refresh, userSessions, sso, refreshCookie, ssoCookie, root,
                 revoked>>

SMembers(p) ==
  /\ pc[p] = "smembers"
  /\ \/ /\ req' = [req EXCEPT ![p].todo = userSessions[req[p].usr]]
        /\ Goto(p, "delRefresh")
     \/ MayFail /\ Finish(p)
  /\ UNCHANGED <<refresh, userSessions, sso, refreshCookie, ssoCookie, root,
                 revoked>>

(* One DEL of the pipeline.  A pipeline is not a transaction: commands of  *)
(* other connections run between two of its own, and a connection lost     *)
(* half way leaves the rest undone.                                        *)
DelRefresh(p) ==
  /\ pc[p] = "delRefresh"
  /\ \/ \E t \in req[p].todo :
          /\ DelRefreshKey(t)
          /\ revoked' = revoked \cup {t}
          /\ req' = [req EXCEPT ![p].todo = @ \ {t}]
          /\ UNCHANGED pc
     \/ /\ req[p].todo = {}
        /\ Goto(p, "delSet")
        /\ UNCHANGED <<refresh, revoked, req>>
     \/ /\ MayFail
        /\ Finish(p)
        /\ UNCHANGED <<refresh, revoked>>
  /\ UNCHANGED <<userSessions, sso, refreshCookie, ssoCookie, root>>

(* The last command of the pipeline: DEL user_sessions:usr.  The error, if *)
(* any, is logged; SSO sessions are not touched.                           *)
DelSet(p) ==
  /\ pc[p] = "delSet"
  /\ DelUserSessions(req[p].usr) \/ (MayFail /\ UNCHANGED userSessions)
  /\ Finish(p)
  /\ UNCHANGED <<refresh, sso, refreshCookie, ssoCookie, root, revoked>>

-----------------------------------------------------------------------------
(* The environment.                                                        *)

(* The seven-day TTL of a key ends.  A request is far shorter than that:   *)
(* the key of a token still being issued does not expire.                  *)
Expire(t) ==
  /\ \A p \in Procs : req[p].new # t
  /\ \/ Live(t) /\ DelRefreshKey(t) /\ UNCHANGED sso
     \/ sso[t] # NoUser /\ DelSessionKey(t) /\ UNCHANGED refresh
  /\ UNCHANGED <<userSessions, refreshCookie, ssoCookie, pc, req, root, revoked>>

(* The server process stops and a new one starts: every request in flight  *)
(* is lost between two round trips, without an answer; Redis stays up.     *)
Crash ==
  /\ MayFail
  /\ \E p \in Procs : pc[p] # "idle"
  /\ pc' = [p \in Procs |-> "idle"]
  /\ req' = [p \in Procs |-> NoRequest]
  /\ UNCHANGED <<refresh, userSessions, sso, refreshCookie, ssoCookie, root,
                 revoked>>

-----------------------------------------------------------------------------

Start(p) == StartLogin(p) \/ StartRefresh(p) \/ StartLogout(p) \/ StartRevokeAll(p)

Step(p) ==
  \/ StoreRefreshToken(p)
  \/ SetSession(p)
  \/ GetDel(p)
  \/ Untrack(p)
  \/ FindUser(p)
  \/ DelSession(p)
  \/ SMembers(p)
  \/ DelRefresh(p)
  \/ DelSet(p)

Next ==
  \/ \E p \in Procs : Start(p) \/ Step(p)
  \/ \E t \in Tokens : Expire(t)
  \/ Crash

Spec == Init /\ [][Next]_vars

-----------------------------------------------------------------------------
(* Properties.                                                             *)

(* The request at p holds the right to the next token of a chain: it has   *)
(* consumed the chain's token, or begun the chain, and has not SET the     *)
(* next one yet.                                                           *)
Carries(p) ==
  \/ pc[p] \in {"srem", "findUser"} /\ req[p].op = "refresh"
  \/ pc[p] = "setRefresh"

Carried(p) == IF pc[p] = "setRefresh" THEN root[req[p].new] ELSE root[req[p].old]

(* However many requests race with the same cookie, a login never forks:   *)
(* of the tokens that descend from one login at most one can be exchanged, *)
(* and while a refresh is between consuming a token and storing its        *)
(* successor there is none, and no second refresh of that chain.           *)
NoFork ==
  /\ \A s, t \in Tokens :
       Live(s) /\ Live(t) /\ root[s] = root[t] => s = t
  /\ \A p \in Procs, t \in Tokens :
       Carries(p) /\ Live(t) => root[t] # Carried(p)
  /\ \A p, q \in Procs :
       Carries(p) /\ Carries(q) /\ Carried(p) = Carried(q) => p = q

(* A token that a revocation deleted never becomes exchangeable again,     *)
(* whatever the requests in flight do: a token is tracked, hence visible   *)
(* to a revocation, only after its key has been SET for the only time.     *)
RevokedStaysRevoked == \A t \in revoked : ~Live(t)

(* A revocation never logs another user out: the tokens tracked for a      *)
(* user, and those a pipeline is about to delete, are that user's or dead, *)
(* although the set and the keys are written by separate commands and a    *)
(* revocation works from a snapshot.                                       *)
RevocationHitsOwnUser ==
  /\ \A u \in Users : \A t \in userSessions[u] : refresh[t] \in {u, NoUser}
  /\ \A p \in Procs : \A t \in req[p].todo : refresh[t] \in {req[p].usr, NoUser}

=============================================================================
