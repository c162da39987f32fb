---------------------------- MODULE SecondFactor ----------------------------
(* The second factor of one account: enrolment, confirmation, the login     *)
(* that stops at an MFA session, and its completion with a TOTP code or a   *)
(* recovery code (totp.go, recovery_codes.go, Login in login.go).           *)
(*                                                                          *)
(* totp_secret and totp_enabled are columns of the user's row, read and     *)
(* written without a condition; the recovery codes are rows of a table of   *)
(* their own; MFA sessions are keys in Redis.  A process of Procs is a      *)
(* request goroutine, with one step per round trip.                         *)
(*                                                                          *)
(* A TOTP code is the secret it was computed from: it is valid for that     *)
(* secret and no other.  NoSecret is the empty column of an account that    *)
(* never enrolled; the library computes a code from it like from any other. *)
EXTENDS Integers, FiniteSets

CONSTANTS
  Secrets,             \* TOTP secrets, each generated by one enrolment
  Sessions,            \* MFA session tokens
  Procs,               \* request goroutines
  CodesPerSet,         \* recoveryCodeCount
  NoSecret, NoSession, \* absent values
  MayFail              \* BOOLEAN: round trips may fail, the server crash

ASSUME AbsentAssumption == NoSecret \notin Secrets /\ NoSession \notin Sessions
ASSUME CodesPerSetAssumption == CodesPerSet \in Nat \ {0}
ASSUME ProcsAssumption == IsFiniteSet(Procs)
ASSUME MayFailAssumption == MayFail \in BOOLEAN

(* The recovery codes generated with a secret. *)
Codes == Secrets \X (1..CodesPerSet)
NoCode == <<NoSecret, 0>>
SetOf(c) == c[1]

VARIABLES
  secret,     \* users.totp_secret
  enabled,    \* users.totp_enabled
  codes,      \* user_recovery_codes: "none" (no row), "unused" or "used"
  mfa,        \* the live mfa_session keys
  pc,         \* next round trip of each request
  req,        \* local variables of each request
  generated,  \* history: secrets generated so far
  issued,     \* history: MFA sessions issued so far
  delivered,  \* history: secrets an answered enrolment has shown
  confirmed,  \* history: secrets that a code was checked against by Confirm
  overlapped, \* history: {s, t}: the enrolments of s and t overlapped
  admitted,   \* history: logins completed with each MFA session
  uses        \* history: logins completed with each recovery code

row == <<secret, enabled>>
history == <<delivered, confirmed, admitted, uses>>
pools == <<generated, issued, overlapped>>
vars == <<row, codes, mfa, pc, req, pools, history>>

Ops == {"none", "enroll", "confirm", "login", "verify", "recovery"}
Labels == {"idle", "storeSecret", "deleteCodes", "insertCode", "findUser",
           "enable", "storeMFA", "consume", "list", "mark", "disable", "store"}

(* secret: the one generated (enroll), behind the code presented (confirm, *)
(* verify) or read from the row (recovery); next: loop index of ReplaceAll. *)
Requests == [op: Ops, secret: Secrets \cup {NoSecret},
             session: Sessions \cup {NoSession}, code: Codes \cup {NoCode},
             next: 1..CodesPerSet]

NoRequest == [op |-> "none", secret |-> NoSecret, session |-> NoSession,
              code |-> NoCode, next |-> 1]

SecondFactorTypeOK ==
  /\ secret \in Secrets \cup {NoSecret}
  /\ enabled \in BOOLEAN
  /\ codes \in [Codes -> {"none", "unused", "used"}]
  /\ mfa \subseteq Sessions
  /\ pc \in [Procs -> Labels]
  /\ req \in [Procs -> Requests]
  /\ generated \subseteq Secrets /\ issued \subseteq Sessions
  /\ delivered \subseteq Secrets /\ confirmed \subseteq Secrets \cup {NoSecret}
  /\ overlapped \subseteq SUBSET Secrets
  /\ admitted \in [Sessions -> Nat]
  /\ uses \in [Codes -> Nat]

Init ==
  /\ secret = NoSecret
  /\ enabled = FALSE
  /\ codes = [c \in Codes |-> "none"]
  /\ mfa = {}
  /\ pc = [p \in Procs |-> "idle"]
  /\ req = [p \in Procs |-> NoRequest]
  /\ generated = {} /\ issued = {} /\ delivered = {} /\ confirmed = {}
  /\ overlapped = {}
  /\ admitted = [m \in Sessions |-> 0]
  /\ uses = [c \in Codes |-> 0]

-----------------------------------------------------------------------------

Goto(p, label) == pc' = [pc EXCEPT ![p] = label]

Continue(p, label) == Goto(p, label) /\ UNCHANGED req

Finish(p) == Goto(p, "idle") /\ req' = [req EXCEPT ![p] = NoRequest]

Begin(p, r, label) ==
  /\ pc[p] = "idle"
  /\ Goto(p, label)
  /\ req' = [req EXCEPT ![p] = r]

(* A round trip whose outcome is an error: the handler answers 4xx or 5xx. *)
Fail(p) == MayFail /\ Finish(p)

UpdateTOTP(s, on) == secret' = s /\ enabled' = on

-----------------------------------------------------------------------------
(* Requests arrive. *)

StartEnroll(p) ==
  \E s \in Secrets \ generated :
    /\ Begin(p, [NoRequest EXCEPT !.op = "enroll", !.secret = s], "storeSecret")
    /\ generated' = generated \cup {s}
    /\ overlapped' = overlapped \cup
         {{s, req[q].secret} : q \in {q \in Procs : req[q].op = "enroll"}}
    /\ UNCHANGED <<row, codes, mfa, issued, history>>

StartConfirm(p) ==
  \E s \in delivered \cup {NoSecret} :
    /\ Begin(p, [NoRequest EXCEPT !.op = "confirm", !.secret = s], "findUser")
    /\ UNCHANGED <<row, codes, mfa, pools, history>>

(* The password was right and the row read with it has 2FA enabled.  With  *)
(* 2FA disabled the login goes on as in module Sessions.                   *)
StartLogin(p) ==
  /\ enabled
  /\ \E m \in Sessions \ issued :
       /\ Begin(p, [NoRequest EXCEPT !.op = "login", !.session = m], "storeMFA")
       /\ issued' = issued \cup {m}
  /\ UNCHANGED <<row, codes, mfa, generated, overlapped, history>>

StartVerify(p) ==
  \E m \in issued, s \in delivered \cup {NoSecret} :
    /\ Begin(p, [NoRequest EXCEPT !.op = "verify", !.session = m, !.secret = s],
             "consume")
    /\ UNCHANGED <<row, codes, mfa, pools, history>>

StartRecovery(p) ==
  \E m \in issued, c \in {c \in Codes : SetOf(c) \in delivered} :
    /\ Begin(p, [NoRequest EXCEPT !.op = "recovery", !.session = m, !.code = c],
             "consume")
    /\ UNCHANGED <<row, codes, mfa, pools, history>>

-----------------------------------------------------------------------------
(* Enroll: the secret, not enabled; then ReplaceAll: a DELETE of the       *)
(* user's partition and one INSERT per code.  The answer shows them all.   *)

StoreSecret(p) ==
  /\ pc[p] = "storeSecret"
  /\ \/ UpdateTOTP(req[p].secret, FALSE) /\ Continue(p, "deleteCodes")
     \/ Fail(p) /\ (UpdateTOTP(req[p].secret, FALSE) \/ UNCHANGED row)
  /\ UNCHANGED <<codes, mfa, pools, history>>

(* Mutant: only the codes that were used are deleted. *)
DeleteUsedCodes(p) ==
  /\ pc[p] = "deleteCodes"
  /\ codes' = [c \in Codes |-> IF codes[c] = "used" THEN "none" ELSE codes[c]]
  /\ Continue(p, "insertCode")
  /\ UNCHANGED <<row, mfa, pools, history>>
DeleteCodes(p) ==
  /\ pc[p] = "deleteCodes"
  /\ LET delete == codes' = [c \in Codes |-> "none"] IN
     \/ delete /\ Continue(p, "insertCode")
     \/ Fail(p) /\ (delete \/ UNCHANGED codes)
  /\ UNCHANGED <<row, mfa, pools, history>>

(* Mutant: the loop runs once too often. *)
InsertTooMany(p) ==
  /\ pc[p] = "insertCode"
  /\ req' = [req EXCEPT ![p].next = @ + 1]
  /\ Goto(p, IF req[p].next > CodesPerSet THEN "idle" ELSE "insertCode")
  /\ UNCHANGED <<row, codes, mfa, pools, history>>
InsertCode(p) ==
  /\ pc[p] = "insertCode"
  /\ LET s == req[p].secret
         insert == codes' = [codes EXCEPT ![<<s, req[p].next>>] = "unused"]
     IN \/ /\ insert
           /\ req[p].next < CodesPerSet
           /\ req' = [req EXCEPT ![p].next = @ + 1]
           /\ UNCHANGED <<pc, delivered>>
        \/ /\ insert
           /\ req[p].next = CodesPerSet
           /\ Finish(p)
           /\ delivered' = delivered \cup {s}
        \/ Fail(p) /\ (insert \/ UNCHANGED codes) /\ UNCHANGED delivered
  /\ UNCHANGED <<row, mfa, pools, confirmed, admitted, uses>>

-----------------------------------------------------------------------------
(* FindByID, for the three handlers that read the secret of the row, and   *)
(* what they do with it.  Confirm and Verify validate the code against it. *)

FindUser(p) ==
  /\ pc[p] = "findUser"
  /\ LET r == req[p]
         valid == r.secret = secret
     IN
     \/ /\ r.op = "confirm" /\ valid
        /\ confirmed' = confirmed \cup {secret}
        /\ Continue(p, "enable")
     \/ r.op = "verify" /\ valid /\ Continue(p, "store") /\ UNCHANGED confirmed
     \/ r.op \in {"confirm", "verify"} /\ ~valid /\ Finish(p) /\ UNCHANGED confirmed
     \/ /\ r.op = "recovery"
        /\ req' = [req EXCEPT ![p].secret = secret]
        /\ Goto(p, "disable")
        /\ UNCHANGED confirmed
     \/ Fail(p) /\ UNCHANGED confirmed
  /\ UNCHANGED <<row, codes, mfa, pools, delivered, admitted, uses>>

(* Confirm writes the secret it has validated back with the flag.  Mutant: *)
(* it writes the flag alone.                                               *)
EnableFlag(p) ==
  /\ pc[p] = "enable"
  /\ UpdateTOTP(secret, TRUE)
  /\ Finish(p)
  /\ UNCHANGED <<codes, mfa, pools, history>>
Enable(p) ==
  /\ pc[p] = "enable"
  /\ \/ UpdateTOTP(req[p].secret, TRUE) /\ Finish(p)
     \/ Fail(p) /\ (UpdateTOTP(req[p].secret, TRUE) \/ UNCHANGED row)
  /\ UNCHANGED <<codes, mfa, pools, history>>

(* Recovery disables TOTP with the secret it has read; an error is logged. *)
Disable(p) ==
  /\ pc[p] = "disable"
  /\ UpdateTOTP(req[p].secret, FALSE) \/ (MayFail /\ UNCHANGED row)
  /\ Continue(p, "store")
  /\ UNCHANGED <<codes, mfa, pools, history>>

-----------------------------------------------------------------------------
(* MFA sessions and recovery codes. *)

StoreMFASession(p) ==
  /\ pc[p] = "storeMFA"
  /\ \/ mfa' = mfa \cup {req[p].session}
     \/ MayFail /\ UNCHANGED mfa
  /\ Finish(p)
  /\ UNCHANGED <<row, codes, pools, history>>

(* GETDEL.  Mutant: GET. *)
AfterConsume(p) == Continue(p, IF req[p].op = "verify" THEN "findUser" ELSE "list")
GetMFASession(p) ==
  /\ pc[p] = "consume"
  /\ req[p].session \in mfa
  /\ AfterConsume(p)
  /\ UNCHANGED <<row, codes, mfa, pools, history>>
ConsumeMFASession(p) ==
  /\ pc[p] = "consume"
  /\ \/ /\ req[p].session \in mfa
        /\ mfa' = mfa \ {req[p].session}
        /\ AfterConsume(p)
     \/ req[p].session \notin mfa /\ Finish(p) /\ UNCHANGED mfa
     \/ Fail(p) /\ mfa' \in {mfa, mfa \ {req[p].session}}
  /\ UNCHANGED <<row, codes, pools, history>>

(* ListUnused, and the loop that looks for the code presented. *)
ListUnused(p) ==
  /\ pc[p] = "list"
  /\ \/ codes[req[p].code] = "unused" /\ Continue(p, "mark")
     \/ codes[req[p].code] # "unused" /\ Finish(p)
     \/ Fail(p)
  /\ UNCHANGED <<row, codes, mfa, pools, history>>

(* The UPDATE asks no condition, and makes a row where there is none.      *)
(* Mutant: an error is logged like that of Disable.                        *)
PutUsed(p) == codes' = [codes EXCEPT ![req[p].code] = "used"]
MarkUsedLogged(p) ==
  /\ pc[p] = "mark"
  /\ PutUsed(p) \/ (MayFail /\ UNCHANGED codes)
  /\ Continue(p, "findUser")
  /\ UNCHANGED <<row, mfa, pools, history>>
MarkUsed(p) ==
  /\ pc[p] = "mark"
  /\ \/ PutUsed(p) /\ Continue(p, "findUser")
     \/ Fail(p) /\ (PutUsed(p) \/ UNCHANGED codes)
  /\ UNCHANGED <<row, mfa, pools, history>>

(* StoreRefreshToken: the login is complete (module Sessions has the rest). *)
StoreRefreshToken(p) ==
  /\ pc[p] = "store"
  /\ \/ /\ admitted' = [admitted EXCEPT ![req[p].session] = @ + 1]
        /\ uses' = IF req[p].op = "recovery"
                   THEN [uses EXCEPT ![req[p].code] = @ + 1] ELSE uses
        /\ Finish(p)
     \/ Fail(p) /\ UNCHANGED <<admitted, uses>>
  /\ UNCHANGED <<row, codes, mfa, pools, delivered, confirmed>>

(* The five minutes of an MFA session are over. *)
ExpireMFASession(m) ==
  /\ m \in mfa
  /\ mfa' = mfa \ {m}
  /\ UNCHANGED <<row, codes, pc, req, pools, history>>

(* The server stops and starts again. *)
Crash ==
  /\ MayFail
  /\ \E p \in Procs : pc[p] # "idle"
  /\ pc' = [p \in Procs |-> "idle"]
  /\ req' = [p \in Procs |-> NoRequest]
  /\ UNCHANGED <<row, codes, mfa, pools, history>>

-----------------------------------------------------------------------------

Start(p) ==
  \/ StartEnroll(p)
  \/ StartConfirm(p)
  \/ StartLogin(p)
  \/ StartVerify(p)
  \/ StartRecovery(p)

Step(p) ==
  \/ StoreSecret(p)
  \/ DeleteCodes(p)
  \/ InsertCode(p)
  \/ FindUser(p)
  \/ Enable(p)
  \/ Disable(p)
  \/ StoreMFASession(p)
  \/ ConsumeMFASession(p)
  \/ ListUnused(p)
  \/ MarkUsed(p)
  \/ StoreRefreshToken(p)

Next ==
  \/ \E p \in Procs : Start(p) \/ Step(p)
  \/ \E m \in Sessions : ExpireMFASession(m)
  \/ Crash

Spec == Init /\ [][Next]_vars

-----------------------------------------------------------------------------

(* An MFA session completes one login, by whichever of Verify and Recovery *)
(* consumes it first and however many requests present it.                 *)
OneLoginPerSession == \A m \in Sessions : admitted[m] <= 1

(* The account only asks for a second factor its owner has: while 2FA is   *)
(* enabled the row holds a secret that Confirm validated a code of, also   *)
(* when an enrolment replaces the secret between the read and the write of *)
(* Confirm, or a Recovery writes an older one back.                        *)
EnabledIsConfirmed == enabled => secret \in confirmed

(* A recovery code that has let somebody in is never accepted afterwards:  *)
(* no later enrolment, failure or crash makes it unused again.             *)
SpentCodesAreDead == \A c \in Codes : uses[c] > 0 => codes[c] # "unused"

(* ReplaceAll, recovery_codes.go:22, "deletes existing codes for a user    *)
(* and inserts the new hashed set": codes of two sets are accepted at the  *)
(* same time only if their enrolments overlapped.                          *)
SetsMixOnlyIfOverlapped ==
  \A c, d \in Codes :
    codes[c] = "unused" /\ codes[d] = "unused" /\ SetOf(c) # SetOf(d)
    => {SetOf(c), SetOf(d)} \in overlapped

(* two-factor-auth/spec.md:26, "a one-time recovery code": a recovery code *)
(* completes one login.                                                    *)
RecoveryCodeUsedOnce == \A c \in Codes : uses[c] <= 1

(* MFA sessions as one-time keys, handed out once their SET is done.       *)
OneTime == INSTANCE OneTimeKeys WITH
  Keys <- Sessions,
  Holders <- Procs,
  given <- {m \in issued : \A p \in Procs : pc[p] = "storeMFA" => req[p].session # m},
  stored <- mfa,
  held <- [m \in Sessions |->
             {p \in Procs : /\ req[p].op \in {"verify", "recovery"}
                            /\ req[p].session = m
                            /\ pc[p] # "consume"}]

(* An MFA session is a one-time key for Verify and Recovery together: a    *)
(* request that presents it does so in vain as soon as another has taken   *)
(* it, whatever becomes of that one, wrong codes and crashes included.     *)
MFASessionsAreOneTime == OneTime!Spec

=============================================================================
