---------------------------- MODULE PasswordReset ----------------------------
(* A password reset, from the link that ResetRequest mails to the sessions  *)
(* that Reset revokes (internal/auth/password_reset.go), while the other    *)
(* session requests of module Sessions run.  The reset link is a key in     *)
(* Redis, the password a column of the user's row, the sessions are Redis   *)
(* keys again: three stores written one after the other by one request.     *)
(*                                                                          *)
(* A password is named by the link it was set with; NoLink is the password  *)
(* an account was registered with.                                          *)
EXTENDS Sessions

CONSTANTS
  Links,       \* reset tokens randomToken may produce
  NoLink,      \* no link
  ResetFails   \* BOOLEAN: round trips of a Reset may fail (MayFail is about
               \* those of the other requests)

ASSUME NoLinkAssumption == NoLink \notin Links
ASSUME ResetFailsAssumption == ResetFails \in BOOLEAN

VARIABLES
  resetKey,   \* pwd_reset:l -> user id, NoUser when the key is absent
  mailed,     \* the user whose mailbox a link was delivered to, or NoUser
  password,   \* users.password_hash
  stage,      \* how far each goroutine is with a Reset
  using,      \* the link its Reset presents
  account,    \* the user id that link was for
  stale,      \* history: open logins that were so when a password was replaced
  overlapped, \* history: open logins that had a request in flight during a
              \* revocation
  cut         \* history: users whose password was replaced by a Reset that
              \* did not get through its revocation, and no other has since

links == <<resetKey, mailed>>
local == <<stage, using, account>>
audit == <<stale, overlapped, cut>>
resetVars == <<links, password, local, audit>>

Passwords == Links \cup {NoLink}

ResetTypeOK ==
  /\ TypeOK
  /\ resetKey \in [Links -> Users \cup {NoUser}]
  /\ mailed \in [Links -> Users \cup {NoUser}]
  /\ password \in [Users -> Passwords]
  /\ stage \in [Procs -> {"none", "consume", "update", "revoke"}]
  /\ using \in [Procs -> Links \cup {NoLink}]
  /\ account \in [Procs -> Users \cup {NoUser}]
  /\ stale \subseteq Tokens
  /\ overlapped \subseteq Tokens
  /\ cut \subseteq Users

ResetInit ==
  /\ Init
  /\ resetKey = [l \in Links |-> NoUser]
  /\ mailed = [l \in Links |-> NoUser]
  /\ password = [u \in Users |-> NoLink]
  /\ stage = [p \in Procs |-> "none"]
  /\ using = [p \in Procs |-> NoLink]
  /\ account = [p \in Procs |-> NoUser]
  /\ stale = {}
  /\ overlapped = {}
  /\ cut = {}

-----------------------------------------------------------------------------
(* Control.                                                                *)

Idle(p) == pc[p] = "idle" /\ stage[p] = "none"

Reach(p, label) == stage' = [stage EXCEPT ![p] = label]

(* The Reset at p is answered, before it has reached the sessions. *)
Answer(p) ==
  /\ Reach(p, "none")
  /\ using' = [using EXCEPT ![p] = NoLink]
  /\ account' = [account EXCEPT ![p] = NoUser]

(* A login or a refresh of user u is in flight at p, and its chain. *)
InFlight(p, u) ==
  /\ req[p].op \in {"login", "verify", "refresh"}
  /\ req[p].usr = u
  /\ pc[p] \in {"srem", "findUser", "setRefresh", "sadd", "setSession"}
ChainOf(p) == root[IF req[p].op = "refresh" THEN req[p].old ELSE req[p].new]

(* The logins of u: those with a token, and those between two tokens. *)
Open(u) == {root[t] : t \in {s \in Tokens : refresh[s] = u}} \cup
           {ChainOf(p) : p \in {q \in Procs : InFlight(q, u)}}

Overlapping ==
  {ChainOf(p) : p \in {q \in Procs :
     \E r \in Procs : req[r].op = "revokeAll" /\ InFlight(q, req[r].usr)}}

-----------------------------------------------------------------------------
(* The link.                                                               *)

(* ResetRequest: for a known address a fresh link is stored and a          *)
(* goroutine mails it; nobody has to use a link, whose mail may be lost.   *)
(* The answer is 200 whatever happens.  Mutant: the mail goes to an        *)
(* address that need not be the account's.                                 *)
MailAnyone(p) ==
  /\ Idle(p)
  /\ \E l \in Links, u, v \in Users :
       /\ resetKey[l] = NoUser /\ mailed[l] = NoUser
       /\ resetKey' = [resetKey EXCEPT ![l] = u]
       /\ mailed' = [mailed EXCEPT ![l] = v]
  /\ UNCHANGED <<vars, password, local>>
ResetRequest(p) ==
  /\ Idle(p)
  /\ \E l \in Links, u \in Users :
       /\ resetKey[l] = NoUser /\ mailed[l] = NoUser
       /\ resetKey' = [resetKey EXCEPT ![l] = u]
       /\ mailed' = [mailed EXCEPT ![l] = u]
  /\ UNCHANGED <<vars, password, local>>

(* The hour of a link is over. *)
ExpireLink(l) ==
  /\ resetKey[l] # NoUser
  /\ resetKey' = [resetKey EXCEPT ![l] = NoUser]
  /\ UNCHANGED <<vars, mailed, password, local>>

-----------------------------------------------------------------------------
(* Reset.  A new password that the policy refuses is answered 422 before   *)
(* the link is looked at.                                                  *)

StartReset(p) ==
  /\ Idle(p)
  /\ \E l \in Links :
       /\ mailed[l] # NoUser
       /\ Reach(p, "consume")
       /\ using' = [using EXCEPT ![p] = l]
  /\ UNCHANGED <<vars, links, password, account>>

(* ConsumePasswordResetToken: GETDEL.  Mutant: GET. *)
ReadLink(p) ==
  /\ stage[p] = "consume"
  /\ resetKey[using[p]] # NoUser
  /\ account' = [account EXCEPT ![p] = resetKey[using[p]]]
  /\ Reach(p, "update")
  /\ UNCHANGED <<vars, links, password, using>>
ConsumeLink(p) ==
  /\ stage[p] = "consume"
  /\ LET l == using[p]
         consume == resetKey' = [resetKey EXCEPT ![l] = NoUser]
     IN \/ /\ resetKey[l] # NoUser
           /\ consume
           /\ account' = [account EXCEPT ![p] = resetKey[l]]
           /\ Reach(p, "update")
           /\ UNCHANGED using
        \/ resetKey[l] = NoUser /\ Answer(p) /\ UNCHANGED resetKey
        \/ ResetFails /\ Answer(p) /\ (consume \/ UNCHANGED resetKey)
  /\ UNCHANGED <<vars, mailed, password>>

(* UpdatePassword, and on to RevokeAllUserSessions.  If it fails the       *)
(* answer is 500, the row written or not, the link gone.  Mutant: of the   *)
(* sessions only the tracking set is deleted.                              *)
SetPassword(p) == password' = [password EXCEPT ![account[p]] = using[p]]
ForgetOnly(p) ==
  /\ stage[p] = "update"
  /\ SetPassword(p)
  /\ Begin(p, [NoRequest EXCEPT !.op = "revokeAll", !.usr = account[p]], "delSet")
  /\ Reach(p, "revoke")
  /\ UNCHANGED <<refresh, userSessions, sso, refreshCookie, ssoCookie, root,
                 revoked, links, using, account>>
UpdatePassword(p) ==
  /\ stage[p] = "update"
  /\ \/ /\ SetPassword(p)
        /\ Begin(p, [NoRequest EXCEPT !.op = "revokeAll", !.usr = account[p]],
                 "smembers")
        /\ Reach(p, "revoke")
        /\ UNCHANGED <<refresh, userSessions, sso, refreshCookie, ssoCookie,
                       root, revoked, using, account>>
     \/ /\ ResetFails
        /\ SetPassword(p) \/ UNCHANGED password
        /\ Answer(p)
        /\ UNCHANGED vars
  /\ UNCHANGED links

(* The revocation, step by step as for RevokeAll.  When it breaks, at any *)
(* point, the error is logged and the answer is 200 all the same.          *)
Revoke(p) ==
  /\ stage[p] = "revoke"
  /\ \/ Step(p)
     \/ ResetFails /\ Finish(p) /\ UNCHANGED <<refresh, userSessions, sso,
                             refreshCookie, ssoCookie, root, revoked>>
  /\ IF pc'[p] = "idle" THEN Answer(p) ELSE UNCHANGED local
  /\ UNCHANGED <<links, password>>

-----------------------------------------------------------------------------
(* The other requests.  A login reads the row, and with it the password,   *)
(* when it starts; to verify that takes a while, then it stores its token. *)

Other(p) ==
  /\ stage[p] = "none"
  /\ Start(p) \/ Step(p)
  /\ UNCHANGED <<links, password, local>>

(* A key of Redis runs out. *)
ExpireToken(t) == Expire(t) /\ UNCHANGED <<links, password, local>>

(* The server stops and starts again: see Crash of module Sessions. *)
CrashReset ==
  /\ MayFail \/ (ResetFails /\ \E p \in Procs : stage[p] # "none")
  /\ \E p \in Procs : ~Idle(p)
  /\ pc' = [p \in Procs |-> "idle"]
  /\ req' = [p \in Procs |-> NoRequest]
  /\ stage' = [p \in Procs |-> "none"]
  /\ using' = [p \in Procs |-> NoLink]
  /\ account' = [p \in Procs |-> NoUser]
  /\ UNCHANGED <<refresh, userSessions, sso, refreshCookie, ssoCookie, root,
                 revoked, links, password>>

ResetStep(p) ==
  \/ ResetRequest(p)
  \/ StartReset(p)
  \/ ConsumeLink(p)
  \/ UpdatePassword(p)
  \/ Revoke(p)
  \/ Other(p)

(* The history of the logins that are still open. *)
Remember ==
  LET all == UNION {Open(u) : u \in Users}
      replaced == {u \in Users : password'[u] # password[u]}
      broken == {account[p] : p \in {q \in Procs :
                   /\ stage'[q] = "none"
                   /\ \/ stage[q] = "update" /\ account[q] \in replaced
                      \/ stage[q] = "revoke" /\ pc[q] # "delSet"}}
      revokedNow == {req[p].usr : p \in {q \in Procs :
                       pc[q] = "delRefresh" /\ pc'[q] = "delSet"}}
  IN /\ stale' = (stale \cup UNION {Open(u) : u \in replaced}) \cap all'
     /\ overlapped' = (overlapped \cup Overlapping) \cap all'
     /\ cut' = (cut \cup broken) \ revokedNow

ResetNext ==
  /\ \/ \E p \in Procs : ResetStep(p)
     \/ \E l \in Links : ExpireLink(l)
     \/ \E t \in Tokens : ExpireToken(t)
     \/ CrashReset
  /\ Remember

ResetSpec == ResetInit /\ [][ResetNext]_<<vars, resetVars>>

-----------------------------------------------------------------------------

(* password-management/spec.md, "invalidates all existing sessions": a     *)
(* login that was let in under a password since replaced has a delivered   *)
(* token only while the Reset that replaced it is still revoking, if a     *)
(* request of that login overlapped a revocation, or if that Reset did not *)
(* get through, of which its answer 200 says nothing.                      *)
OldSessionsAreOut ==
  \A t \in refreshCookie :
    LET u == refresh[t]
    IN Live(t) /\ root[t] \in stale =>
         \/ \E p \in Procs : stage[p] = "revoke" /\ account[p] = u
         \/ root[t] \in overlapped
         \/ u \in cut

(* Only who reads the mailbox of an account replaces its password: the     *)
(* password in force was set with a link that was mailed to that account's *)
(* own address, although the request that set it took the account from the *)
(* key and had the link from its body.                                     *)
PasswordFromMailbox ==
  \A u \in Users : password[u] # NoLink => mailed[password[u]] = u

(* Reset links as one-time keys, held until the password is written.       *)
OneTime == INSTANCE OneTimeKeys WITH
  Keys <- Links,
  Holders <- Procs,
  given <- {l \in Links : mailed[l] # NoUser},
  stored <- {l \in Links : resetKey[l] # NoUser},
  held <- [l \in Links |-> {p \in Procs : stage[p] = "update" /\ using[p] = l}]

(* password-management/spec.md, "single-use" links: one request sets a     *)
(* password with a link, and a link that failed half way or ran out is     *)
(* never good again.                                                       *)
ResetLinksAreOneTime == OneTime!Spec

=============================================================================
