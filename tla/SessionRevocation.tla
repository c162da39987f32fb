-------------------------- MODULE SessionRevocation --------------------------
(* What a full revocation (RevokeAllUserSessions, behind /auth/logout/all   *)
(* and a password reset) achieves.  The module adds history variables to    *)
(* Sessions and no behaviour: when the request arrives they record what is  *)
(* there to revoke, and when its pipeline has deleted all it will delete    *)
(* they record what is left of that.                                        *)
EXTENDS Sessions

VARIABLES
  due,      \* for each revocation in flight, what it has to revoke
  missed,   \* what finished revocations left alive
  exposed,  \* tokens tracked (SADD) while a revocation of the same user was
            \* between its SMEMBERS and its DEL of the set
  rotated   \* chains with a refresh in flight during a revocation of their user

auditVars == <<due, missed, exposed, rotated>>

NoAudit == [refresh |-> {}, chains |-> {}]

(* A refresh of a session of u is in flight: token consumed, next one not  *)
(* delivered yet.                                                          *)
Rotating(p, u) ==
  /\ req[p].op = "refresh"
  /\ req[p].usr = u
  /\ pc[p] \in {"srem", "findUser", "setRefresh", "sadd", "setSession"}

(* What u has when a revocation arrives: refresh tokens a client can       *)
(* present, and logins that are open.                                      *)
Owned(u) ==
  LET delivered == {t \in refreshCookie : refresh[t] = u}
      rotating == {p \in Procs : Rotating(p, u)}
  IN [refresh |-> delivered,
      chains |-> {root[t] : t \in delivered} \cup {root[req[p].old] : p \in rotating}]

(* The part of the audit a that is still alive. *)
Left(a) ==
  [refresh |-> {t \in a.refresh : Live(t)},
   chains |-> {s \in a.chains :
                 \/ \E t \in Tokens : Live(t) /\ root[t] = s
                 \/ \E p \in Procs : Carries(p) /\ Carried(p) = s}]

Both(a, b) == [refresh |-> a.refresh \cup b.refresh,
               chains |-> a.chains \cup b.chains]

Arrives(p) == pc[p] = "idle" /\ pc'[p] = "smembers"
Completes(p) == pc[p] = "delRefresh" /\ pc'[p] = "delSet"

Revoking(q, u) == pc[q] \in {"delRefresh", "delSet"} /\ req[q].usr = u

Audit ==
  /\ due' = [p \in Procs |->
               IF Arrives(p) THEN Owned(req'[p].usr)
               ELSE IF pc'[p] \in {"idle", "delSet"} THEN NoAudit
               ELSE due[p]]
  /\ missed' = IF \E p \in Procs : Completes(p)
               THEN Both(missed, Left(due[CHOOSE p \in Procs : Completes(p)]))
               ELSE missed
  /\ exposed' = exposed \cup
       {req[p].new : p \in {q \in Procs :
          /\ pc[q] = "sadd" /\ pc'[q] # "sadd"
          /\ \E r \in Procs : Revoking(r, req[q].usr)}}
  /\ rotated' = rotated \cup
       {root[req[p].old] : p \in {q \in Procs :
          \E r \in Procs : req[r].op = "revokeAll" /\ Rotating(q, req[r].usr)}}

AuditInit ==
  /\ Init
  /\ due = [p \in Procs |-> NoAudit]
  /\ missed = NoAudit
  /\ exposed = {}
  /\ rotated = {}

AuditSpec == AuditInit /\ [][Next /\ Audit]_<<vars, auditVars>>

-----------------------------------------------------------------------------

(* A refresh token that was delivered to a client and can be exchanged is  *)
(* in the user's set, so that the next revocation finds it, unless its     *)
(* SADD overlapped a revocation of the same user.  In particular no logout *)
(* and no rotation, whatever they overlap, makes a token untraceable.      *)
UntrackedOnlyIfExposed ==
  \A t \in refreshCookie :
    Live(t) /\ t \notin userSessions[refresh[t]] => t \in exposed

(* What a revocation misses: a refresh token delivered before the request  *)
(* arrived only if that token was exposed to another, overlapping          *)
(* revocation, and a login only by such a token or by a refresh in flight. *)
(* Revocations that nothing overlaps are complete.                         *)
EscapeOnlyIfExposed ==
  /\ missed.refresh \subseteq exposed
  /\ missed.chains \subseteq {root[t] : t \in exposed} \cup rotated

(* token_store.go:100, "RevokeAllUserSessions deletes every refresh token  *)
(* for a user": of the tokens delivered before the request arrives none is *)
(* alive when the pipeline is through.                                     *)
RevokesEveryRefreshToken == missed.refresh = {}

=============================================================================
