---------------------------- MODULE SignOutProofs ----------------------------
(* Theorems about the ways in which sessions end, for any sets of users,    *)
(* tokens, links and goroutines, with or without failures: what a           *)
(* revocation of all sessions can miss (module SessionRevocation), what a   *)
(* browser keeps after it has logged out (SingleLogout), and what is left   *)
(* of links, passwords and sessions after a reset (PasswordReset).          *)
EXTENDS SessionRevocation, SingleLogout, PasswordReset, SessionsProofs

-----------------------------------------------------------------------------
(* What a revocation can find.                                             *)

(* A token that was exposed may be missing.                                *)
Found == FoundBut(exposed)

ExposedType == exposed \subseteq {t \in Tokens : root[t] # NoToken}

LEMMA AuditGrows ==
  ASSUME Audit
  PROVE  /\ exposed \subseteq exposed' /\ rotated \subseteq rotated'
         /\ \A p, r \in Procs :
              Tracks(p) /\ Revoking(r, req[p].usr) => req[p].new \in exposed'
         /\ \A p, r \in Procs :
              req[r].op = "revokeAll" /\ Rotating(p, req[r].usr)
              => root[req[p].old] \in rotated'
  BY DEF Audit, Tracks

LEMMA ExposedTypeNext ==
  ASSUME Sound, ExposedType, [Next]_vars, Audit
  PROVE  ExposedType'
<1>1. \A t \in Tokens : root[t] # NoToken => root'[t] # NoToken
  BY RootIsFinal, Parts
<1>2. \A q \in Procs : pc[q] = "sadd" => req[q].new \in Tokens /\ root[req[q].new] # NoToken
  BY Parts, LocalTypes DEF Rooted, IssueLabels
<1>3. \A t \in exposed' : t \in exposed \/ \E q \in Procs : pc[q] = "sadd" /\ t = req[q].new
  BY DEF Audit
<1> QED
  BY <1>1, <1>2, <1>3 DEF ExposedType

LEMMA FoundGrows ==
  ASSUME Sound, Sound', Found, NEW p \in Procs, Effects(p), Audit
  PROVE  Found'
<1>1. PICK E, G : E = exposed /\ G = exposed'
  OBVIOUS
<1>2. /\ \A t \in E : Live(t)' => t \in G
      /\ \A r \in Procs :
           /\ Tracks(p) /\ pc[r] \in {"delRefresh", "delSet"}
           /\ req[r].usr = req[p].usr
           => req[p].new \in G
  BY <1>1, AuditGrows DEF Revoking
<1>3. FoundBut(G)'
  BY <1>1, <1>2, FoundStep DEF Found
<1> QED
  BY <1>1, <1>3 DEF Found, FoundBut

LEMMA FoundNext ==
  ASSUME Sound, Sound', Found, Next, Audit
  PROVE  Found'
<1>1. ASSUME NEW p \in Procs, Start(p) \/ Step(p)
      PROVE  Found'
  BY <1>1, StartEffects, StepEffects, FoundGrows
<1>2. ASSUME NEW t \in Tokens, Expire(t)
      PROVE  Found'
  <2>1. /\ UNCHANGED <<userSessions, refreshCookie, pc, req>>
        /\ exposed \subseteq exposed'
        /\ \A s \in Tokens : refresh'[s] \in {refresh[s], NoUser}
    BY <1>2, AuditGrows, Parts DEF Expire, DelRefreshKey, Typed, TypeOK, StoreTypeOK
  <2>2. \A s \in Tokens : HandsOut(s)' => HandsOut(s)
    BY <2>1 DEF HandsOut
  <2>3. \A r \in Procs : pc[r] \in {"delRefresh", "delSet"} =>
          userSessions[req[r].usr] \subseteq Tokens
    BY Parts, LocalTypes DEF UserLabels
  <2> QED
    BY <2>1, <2>2, <2>3 DEF Found, FoundBut, Live
<1>3. CASE Crash
  <2>1. /\ UNCHANGED <<refresh, userSessions, refreshCookie>>
        /\ exposed \subseteq exposed'
        /\ \A q \in Procs : pc'[q] = "idle"
    BY <1>3, AuditGrows DEF Crash
  <2> QED
    BY <2>1 DEF Found, FoundBut, HandsOut, Live
<1> QED
  BY <1>1, <1>2, <1>3 DEF Next

(* The audit only watches. *)
LEMMA AuditIsHistory == AuditSpec => Spec
<1>1. AuditInit => Init
  BY DEF AuditInit
<1>2. [Next /\ Audit]_<<vars, auditVars>> => [Next]_vars
  OBVIOUS
<1> QED
  BY <1>1, <1>2, PTL DEF AuditSpec, Spec

LEMMA FoundInvariant == AuditSpec => [](Found /\ ExposedType)
<1>1. AuditInit => Found /\ ExposedType
  BY DEF AuditInit, Init, StoreInit, Found, FoundBut, HandsOut, ExposedType
<1>2. /\ Found /\ ExposedType /\ Sound /\ Sound'
      /\ [Next /\ Audit]_<<vars, auditVars>>
      => (Found /\ ExposedType)'
  <2>1. ASSUME Found, ExposedType, Sound, Sound', Next, Audit
        PROVE  (Found /\ ExposedType)'
    BY <2>1, FoundNext, ExposedTypeNext
  <2>2. ASSUME Found, ExposedType, UNCHANGED <<vars, auditVars>>
        PROVE  (Found /\ ExposedType)'
    BY <2>2 DEF vars, auditVars, Found, FoundBut, HandsOut, Live, ExposedType
  <2> QED
    BY <2>1, <2>2
<1>3. AuditSpec => []Sound
  BY AuditIsHistory, SoundInvariant
<1> QED
  BY <1>1, <1>2, <1>3, PTL DEF AuditSpec

(* Whatever requests, failures and crashes overlap, a refresh token that a *)
(* client has and can exchange is found by the next revocation of its      *)
(* user, unless its SADD fell between the SMEMBERS and the DEL of an       *)
(* earlier one.                                                            *)
THEOREM UntrackedExposed == AuditSpec => []UntrackedOnlyIfExposed
<1>1. Sound /\ Found => UntrackedOnlyIfExposed
  BY Parts DEF Found, FoundBut, HandsOut, UntrackedOnlyIfExposed
<1>2. AuditSpec => []Sound
  BY AuditIsHistory, SoundInvariant
<1> QED
  BY <1>1, <1>2, FoundInvariant, PTL

-----------------------------------------------------------------------------
(* What a revocation misses.                                               *)

(* The pipeline has not run to its last DEL of a token. *)
PendingLabels == {"smembers", "delRefresh"}

Lost(s) == s \in {root[t] : t \in exposed} \cup rotated

Renewed(r, s) ==
  \E q \in Procs : Rotating(q, req[r].usr) /\ root[req[q].old] = s

(* The revocation at r is going to end the chain s. *)
Held(r, s) ==
  /\ s \in Tokens /\ root[s] # NoToken
  /\ \A t \in Tokens : Live(t) /\ root[t] = s => t \in due[r].refresh
  /\ \A q \in Procs : Carries(q) => Carried(q) # s

DueTokens(r) ==
  \A t \in due[r].refresh :
    /\ t \in refreshCookie
    /\ refresh[t] \in {req[r].usr, NoUser}
    /\ pc[r] = "delRefresh" /\ Live(t) => t \in req[r].todo \cup exposed

DueChains(r) ==
  \A s \in due[r].chains : Lost(s) \/ Renewed(r, s) \/ Held(r, s)

Audited ==
  \A r \in Procs : pc[r] \in PendingLabels => DueTokens(r) /\ DueChains(r)

LEMMA LostStaysLost ==
  ASSUME Sound, ExposedType, [Next]_vars, Audit, NEW s, Lost(s)
  PROVE  Lost(s)'
<1>1. \A t \in exposed : t \in exposed' /\ root'[t] = root[t]
  BY RootIsFinal, Parts, AuditGrows DEF ExposedType
<1>2. rotated \subseteq rotated'
  BY AuditGrows
<1> QED
  BY <1>1, <1>2 DEF Lost

(* A refresh in flight while the revocation is pending is on record. *)
LEMMA RenewedIsLost ==
  ASSUME Sound, Audit, NEW r \in Procs, pc[r] \in PendingLabels, NEW s, Renewed(r, s)
  PROVE  Lost(s)'
<1>1. req[r].op = "revokeAll"
  BY Parts DEF Delivered, PendingLabels, RevokeLabels
<1> QED
  BY <1>1, AuditGrows DEF Renewed, Lost

LEMMA DueKept ==
  ASSUME Audit, NEW r \in Procs, pc[r] \in PendingLabels, pc'[r] \in PendingLabels
  PROVE  due'[r] = due[r]
<1>1. ~Arrives(r) /\ pc'[r] \notin {"idle", "delSet"}
  BY DEF Arrives, PendingLabels
<1> QED
  BY <1>1 DEF Audit

LEMMA Arrival ==
  ASSUME Sound, Sound', NEW r \in Procs, Effects(r), pc'[r] = "smembers", Audit
  PROVE  DueTokens(r)' /\ DueChains(r)'
<1>1. /\ pc[r] = "idle" /\ UNCHANGED <<refresh, refreshCookie, root>>
      /\ \A q \in Procs \ {r} : pc'[q] = pc[q] /\ req'[q] = req[q]
  BY DEF Effects, RevokeEffects, Others
<1> DEFINE u == req'[r].usr
<1>2. due'[r] = Owned(u)
  BY <1>1 DEF Audit, Arrives
<1>3. DueTokens(r)'
  BY <1>1, <1>2 DEF DueTokens, Owned
<1>4. ASSUME NEW s \in due'[r].chains
      PROVE  Renewed(r, s)' \/ Held(r, s)'
  <2>1. CASE \E p \in Procs : Rotating(p, u) /\ s = root[req[p].old]
    <3>1. PICK p \in Procs : Rotating(p, u) /\ s = root[req[p].old]
      BY <2>1
    <3>2. p # r
      BY <1>1, <3>1 DEF Rotating
    <3>3. Rotating(p, req[r].usr)' /\ root'[req'[p].old] = s
      BY <1>1, <3>1, <3>2 DEF Rotating
    <3> QED
      BY <3>3 DEF Renewed
  <2>2. CASE \E t \in refreshCookie : refresh[t] = u /\ s = root[t]
    <3>1. PICK t \in refreshCookie : refresh[t] = u /\ s = root[t]
      BY <2>2
    <3>2. u \in Users
      BY DEF Sound, SessionInv, ChainInv, Typed, LocalsOK, UserLabels
    <3>3. t \in Tokens /\ Live(t) /\ Typed /\ Rooted /\ NoFork
      BY <3>1, <3>2, Parts, NoUserAssumption DEF Live
    <3>4. s \in Tokens /\ root[s] # NoToken
      BY <3>1, <3>3 DEF Rooted, Typed, TypeOK
    <3>5. \A x \in Tokens : Live(x) /\ root[x] = s => x \in due'[r].refresh
      BY <1>2, <3>1, <3>3 DEF NoFork, Owned
    <3>6. \A q \in Procs : Carries(q) => Carried(q) # s
      BY <3>1, <3>3 DEF NoFork
    <3>7. \A q \in Procs : Carries(q)' => Carries(q) /\ Carried(q)' = Carried(q)
      BY <1>1 DEF Carries, Carried
    <3>8. Held(r, s)'
      BY <1>1, <3>4, <3>5, <3>6, <3>7 DEF Held, Live
    <3> QED
      BY <3>8
  <2> QED
    BY <1>2, <2>1, <2>2 DEF Owned
<1> QED
  BY <1>3, <1>4 DEF DueChains

(* A request that takes the token of a chain away from a revocation does   *)
(* it as a refresh in flight; no request brings such a chain back.         *)
LEMMA HeldStep ==
  ASSUME Sound, NEW p \in Procs, Effects(p), [Next]_vars,
         NEW r \in Procs, pc[r] \in PendingLabels, DueTokens(r),
         due'[r] = due[r], req'[r].usr = req[r].usr,
         NEW s, Held(r, s)
  PROVE  Held(r, s)' \/ Renewed(r, s)'
<1>1. /\ Typed /\ Rooted /\ NoFork
      /\ KeyEffects(p) /\ CarryEffects(p)
      /\ \A q \in Procs \ {p} : pc'[q] = pc[q] /\ req'[q] = req[q]
      /\ \A t \in Tokens : root[t] # NoToken => root'[t] = root[t]
  BY Parts, RootIsFinal DEF Effects, Others
<1>2. /\ \A q \in Procs : pc[q] \in IssueLabels =>
            req[q].new \in Tokens /\ root[req[q].new] # NoToken
      /\ \A q \in Procs : pc[q] \in ConsumeLabels =>
            req[q].old \in Tokens /\ root[req[q].old] # NoToken
  BY <1>1, LocalTypes DEF Rooted
<1>3. s \in Tokens /\ root[s] # NoToken /\ root'[s] # NoToken
  BY <1>1 DEF Held
<1>4. ASSUME NEW t \in Tokens, Live(t)', root'[t] = s
      PROVE  t \in due[r].refresh
  <2>1. CASE Live(t)
    BY <1>1, <1>4, <2>1 DEF Rooted, Held
  <2>2. CASE ~Live(t)
    <3>1. pc[p] = "setRefresh" /\ t = req[p].new
      BY <1>4, <2>2, Revived
    <3>2. Carries(p) /\ Carried(p) = s
      BY <1>1, <1>2, <1>4, <3>1 DEF Carries, Carried, IssueLabels
    <3> QED
      BY <3>2 DEF Held
  <2> QED
    BY <2>1, <2>2
<1>5. ASSUME NEW q \in Procs, q # p, Carries(q)', Carried(q)' = s
      PROVE  FALSE
  <2>1. pc'[q] = pc[q] /\ req'[q] = req[q]
    BY <1>1, <1>5
  <2>2. Carries(q) /\ Carried(q) = s
    BY <1>1, <1>2, <1>5, <2>1 DEF Carries, Carried, IssueLabels, ConsumeLabels
  <2> QED
    BY <2>2 DEF Held
<1>6. CASE Carries(p)' /\ Carried(p)' = s
  <2>1. Takes(p)
    BY <1>1, <1>3, <1>6 DEF CarryEffects, Held
  <2> DEFINE t == req[p].old
  <2>2. t \in Tokens /\ root[t] # NoToken /\ root'[t] = root[t] /\ Live(t)
    BY <1>1, <1>2, <2>1 DEF Takes, ConsumeLabels
  <2>3. root[t] = s
    BY <1>6, <2>1, <2>2 DEF Takes, Carried
  <2>4. refresh[t] = req[r].usr
    BY <2>2, <2>3 DEF Held, DueTokens, Live
  <2>5. Rotating(p, req[r].usr)' /\ root'[req'[p].old] = s
    BY <2>1, <2>2, <2>3, <2>4 DEF Takes, Rotating
  <2> QED
    BY <2>5 DEF Renewed
<1>7. CASE ~(Carries(p)' /\ Carried(p)' = s)
  BY <1>3, <1>4, <1>5, <1>7 DEF Held
<1> QED
  BY <1>6, <1>7

LEMMA DueTokensStep ==
  ASSUME Sound, Found, NEW p \in Procs, Effects(p), Audit,
         NEW r \in Procs, pc[r] \in PendingLabels, pc'[r] \in PendingLabels,
         DueTokens(r), req'[r].usr = req[r].usr, r = p => pc'[r] # "smembers"
  PROVE  DueTokens(r)'
<1>1. /\ KeyEffects(p) /\ DeliveryEffects(p) /\ RevokeEffects(p)
      /\ \A q \in Procs \ {p} : pc'[q] = pc[q] /\ req'[q] = req[q]
      /\ due'[r] = due[r] /\ exposed \subseteq exposed'
      /\ refreshCookie \subseteq Tokens
  BY DueKept, AuditGrows, Parts DEF Effects, Others
<1>2. SUFFICES ASSUME NEW t \in due[r].refresh
               PROVE  /\ t \in refreshCookie'
                      /\ refresh'[t] \in {req[r].usr, NoUser}
                      /\ pc'[r] = "delRefresh" /\ Live(t)' => t \in req'[r].todo \cup exposed'
  BY <1>1 DEF DueTokens
<1>3. t \in refreshCookie /\ t \in Tokens /\ refresh[t] \in {req[r].usr, NoUser}
  BY <1>1 DEF DueTokens
<1>4. refresh'[t] \in {refresh[t], NoUser}
  BY <1>1, <1>3, Parts DEF KeyEffects, Delivered, IssueLabels
<1>5. ASSUME pc'[r] = "delRefresh", Live(t)'
      PROVE  t \in req'[r].todo \cup exposed'
  <2>1. Live(t) /\ refresh[t] = req[r].usr
    BY <1>3, <1>4, <1>5 DEF Live
  <2>2. CASE pc[r] = "delRefresh"
    <3>1. t \in req[r].todo \cup exposed
      BY <2>1, <2>2 DEF DueTokens
    <3>2. CASE r = p
      BY <1>1, <1>5, <2>2, <3>1, <3>2 DEF RevokeEffects, Live
    <3>3. CASE r # p
      BY <1>1, <3>1, <3>3
    <3> QED
      BY <3>2, <3>3
  <2>3. CASE pc[r] = "smembers"
    <3>1. r = p
      BY <1>1, <1>5, <2>3
    <3>2. req'[r].todo = userSessions[req[r].usr]
      BY <1>1, <1>5, <2>3, <3>1 DEF RevokeEffects
    <3>3. t \in userSessions[req[r].usr] \cup exposed
      BY <1>3, <2>1 DEF Found, FoundBut, HandsOut
    <3> QED
      BY <1>1, <3>2, <3>3
  <2> QED
    BY <2>2, <2>3 DEF PendingLabels
<1>6. t \in refreshCookie'
  BY <1>1, <1>3 DEF DeliveryEffects
<1> QED
  BY <1>3, <1>4, <1>5, <1>6

LEMMA AuditedStep ==
  ASSUME Sound, Sound', Found, ExposedType, Audited,
         NEW p \in Procs, Effects(p), [Next]_vars, Audit
  PROVE  Audited'
<1>1. /\ RevokeEffects(p)
      /\ \A q \in Procs \ {p} : pc'[q] = pc[q] /\ req'[q] = req[q]
  BY DEF Effects, Others
<1>2. SUFFICES ASSUME NEW r \in Procs, pc'[r] \in PendingLabels
               PROVE  DueTokens(r)' /\ DueChains(r)'
  BY DEF Audited
<1>3. CASE r = p /\ pc'[r] = "smembers"
  BY <1>3, Arrival
<1>4. CASE ~(r = p /\ pc'[r] = "smembers")
  <2>1. pc[r] \in PendingLabels /\ req'[r].usr = req[r].usr
    BY <1>1, <1>2, <1>4 DEF RevokeEffects, PendingLabels
  <2>2. DueTokens(r) /\ DueChains(r) /\ due'[r] = due[r]
    BY <1>2, <2>1, DueKept DEF Audited
  <2>3. DueTokens(r)'
    BY <1>2, <1>4, <2>1, <2>2, DueTokensStep
  <2>4. ASSUME NEW s \in due[r].chains
        PROVE  Lost(s)' \/ Renewed(r, s)' \/ Held(r, s)'
    <3>1. CASE Lost(s)
      BY <3>1, LostStaysLost
    <3>2. CASE Renewed(r, s)
      BY <2>1, <3>2, RenewedIsLost
    <3>3. CASE Held(r, s)
      BY <2>1, <2>2, <3>3, HeldStep
    <3> QED
      BY <2>2, <3>1, <3>2, <3>3 DEF DueChains
  <2> QED
    BY <2>2, <2>3, <2>4 DEF DueChains
<1> QED
  BY <1>3, <1>4

LEMMA AuditedNext ==
  ASSUME Sound, Sound', Found, ExposedType, Audited, Next, Audit
  PROVE  Audited'
<1>1. ASSUME NEW p \in Procs, Start(p) \/ Step(p)
      PROVE  Audited'
  BY <1>1, StartEffects, StepEffects, AuditedStep
<1>2. ASSUME NEW x \in Tokens, Expire(x)
      PROVE  Audited'
  <2>1. /\ UNCHANGED <<refreshCookie, pc, req, root>>
        /\ \A t \in Tokens : refresh'[t] \in {refresh[t], NoUser}
        /\ refreshCookie \subseteq Tokens
        /\ exposed \subseteq exposed'
    BY <1>2, AuditGrows, Parts DEF Expire, DelRefreshKey, Typed, TypeOK, StoreTypeOK
  <2>2. SUFFICES ASSUME NEW r \in Procs, pc'[r] \in PendingLabels
                 PROVE  DueTokens(r)' /\ DueChains(r)'
    BY DEF Audited
  <2>3. DueTokens(r) /\ DueChains(r) /\ due'[r] = due[r] /\ pc[r] \in PendingLabels
    BY <2>1, <2>2, DueKept DEF Audited
  <2>4. DueTokens(r)'
    BY <2>1, <2>3 DEF DueTokens, Live
  <2>5. ASSUME NEW s \in due[r].chains
        PROVE  Lost(s)' \/ Held(r, s)'
    <3>1. CASE Lost(s)
      BY <3>1, LostStaysLost
    <3>2. CASE Renewed(r, s)
      BY <2>3, <3>2, RenewedIsLost
    <3>3. CASE Held(r, s)
      BY <2>1, <2>3, <3>3 DEF Held, Live, Carries, Carried
    <3> QED
      BY <2>3, <3>1, <3>2, <3>3 DEF DueChains
  <2> QED
    BY <2>3, <2>4, <2>5 DEF DueChains
<1>3. CASE Crash
  BY <1>3 DEF Crash, Audited, PendingLabels
<1> QED
  BY <1>1, <1>2, <1>3 DEF Next

LEMMA CompletionIsLate ==
  ASSUME Sound, Next, NEW r \in Procs, Completes(r)
  PROVE  req[r].todo = {}
<1>1. ASSUME NEW p \in Procs, Effects(p)
      PROVE  req[r].todo = {}
  BY <1>1 DEF Completes, Effects, Others, RevokeEffects
<1>2. ASSUME NEW p \in Procs, Start(p) \/ Step(p)
      PROVE  req[r].todo = {}
  BY <1>1, <1>2, StartEffects, StepEffects
<1>3. ASSUME NEW t \in Tokens, Expire(t)
      PROVE  FALSE
  BY <1>3 DEF Expire, Completes
<1>4. ~Crash
  BY DEF Crash, Completes
<1> QED
  BY <1>2, <1>3, <1>4 DEF Next

LEMMA MissedNext ==
  ASSUME Sound, Found, ExposedType, Audited, EscapeOnlyIfExposed, Next, Audit
  PROVE  EscapeOnlyIfExposed'
<1>1. exposed \subseteq exposed'
  BY AuditGrows
<1>2. \A s : Lost(s) => Lost(s)'
  BY LostStaysLost
<1>3. CASE missed' = missed
  BY <1>1, <1>2, <1>3 DEF EscapeOnlyIfExposed, Lost
<1>4. CASE \E r \in Procs : Completes(r)
  <2>1. PICK r \in Procs : Completes(r) /\ missed' = Both(missed, Left(due[r]))
    BY <1>4 DEF Audit
  <2>2. req[r].todo = {} /\ pc[r] = "delRefresh" /\ DueTokens(r) /\ DueChains(r)
    BY <2>1, CompletionIsLate DEF Audited, PendingLabels, Completes
  <2>3. \A t \in due[r].refresh : Live(t) => t \in exposed
    BY <2>2 DEF DueTokens
  <2>4. ASSUME NEW s \in Left(due[r]).chains
        PROVE  Lost(s)'
    <3>1. s \in due[r].chains
      BY DEF Left
    <3>2. CASE Lost(s)
      BY <1>2, <3>2
    <3>3. CASE Renewed(r, s)
      BY <2>2, <3>3, RenewedIsLost DEF PendingLabels
    <3>4. CASE Held(r, s)
      <4>1. PICK t \in Tokens : Live(t) /\ root[t] = s
        BY <3>4 DEF Left, Held
      <4>2. t \in exposed
        BY <2>3, <3>4, <4>1 DEF Held
      <4>3. Lost(s)
        BY <4>1, <4>2 DEF Lost
      <4> QED
        BY <1>2, <4>3
    <3> QED
      BY <2>2, <3>1, <3>2, <3>3, <3>4 DEF DueChains
  <2>5. missed'.refresh \subseteq exposed'
    BY <1>1, <2>1, <2>3 DEF EscapeOnlyIfExposed, Both, Left
  <2>6. missed'.chains = missed.chains \cup Left(due[r]).chains
    BY <2>1 DEF Both
  <2> QED
    BY <1>2, <2>4, <2>5, <2>6 DEF EscapeOnlyIfExposed, Lost
<1> QED
  BY <1>3, <1>4 DEF Audit

(* Of the tokens delivered before a revocation of all sessions arrives,    *)
(* and of the logins open then, only those survive its pipeline that an    *)
(* overlapping SADD or an overlapping refresh took out of its sight: a     *)
(* revocation that nothing overlaps misses nothing.                        *)
THEOREM EscapeExposed == AuditSpec => []EscapeOnlyIfExposed
<1>1. AuditInit => Audited /\ EscapeOnlyIfExposed
  BY DEF AuditInit, Init, Audited, PendingLabels, EscapeOnlyIfExposed, NoAudit
<1>2. /\ Found /\ ExposedType /\ Sound /\ Sound' /\ Audited /\ EscapeOnlyIfExposed
      /\ [Next /\ Audit]_<<vars, auditVars>>
      => (Audited /\ EscapeOnlyIfExposed)'
  <2>1. ASSUME Found, ExposedType, Sound, Sound', Audited, EscapeOnlyIfExposed, Next, Audit
        PROVE  (Audited /\ EscapeOnlyIfExposed)'
    BY <2>1, AuditedNext, MissedNext
  <2>2. ASSUME Audited, EscapeOnlyIfExposed, UNCHANGED <<vars, auditVars>>
        PROVE  (Audited /\ EscapeOnlyIfExposed)'
    BY <2>2 DEF vars, auditVars, Audited, EscapeOnlyIfExposed, DueTokens, DueChains,
                Lost, Renewed, Rotating, Held, Live, Carries, Carried
  <2> QED
    BY <2>1, <2>2
<1>3. AuditSpec => []Sound
  BY AuditIsHistory, SoundInvariant
<1> QED
  BY <1>1, <1>2, <1>3, FoundInvariant, PTL DEF AuditSpec

-----------------------------------------------------------------------------
(* Logging out of a browser (SingleLogout).                                *)

(* The browser.                                                            *)

(* A connection is a request goroutine of module Sessions. *)
LEMMA BrowserStep ==
  ASSUME [LogoutNext]_logoutVars
  PROVE  [Next]_vars
  BY DEF LogoutNext, logoutVars, Send, Serve, Deliver, Lose, Environment, Next

LEMMA LogoutIsSessions == LogoutSpec => Spec
  BY BrowserStep, PTL DEF LogoutSpec, LogoutInit, Spec

(* An answer brings tokens that are delivered with it; an SSO cookie only  *)
(* together with the refresh cookie of the same login, and clears it only  *)
(* together with the other.                                                *)
AnswerOK(a) ==
  /\ a \in [Cookies -> Tokens \cup {NoToken, Keep}]
  /\ a["refresh"] \in refreshCookie \cup {NoToken, Keep}
  /\ a["sso"] \in ssoCookie \cup {NoToken, Keep}
  /\ a["sso"] = NoToken => a = Cleared
  /\ a["sso"] \in Tokens => a["refresh"] = a["sso"]
  /\ a["refresh"] \in ssoCookie => a["sso"] = a["refresh"]

JarOK ==
  /\ jar \in [Cookies -> Tokens \cup {NoToken}]
  /\ jar["refresh"] \in refreshCookie \cup {NoToken}
  /\ jar["sso"] \in ssoCookie \cup {NoToken}
  /\ jar["refresh"] \in ssoCookie => jar["sso"] = jar["refresh"]

BrowserOK ==
  /\ JarOK
  /\ answer \in [Procs -> [Cookies -> Tokens \cup {NoToken, Keep}]]
  /\ \A p \in Procs : AnswerOK(answer[p])
  /\ cleared \subseteq ssoCookie

Steady == Sound /\ PairsAgree /\ BrowserOK

LEMMA CookiesApart ==
  /\ "refresh" \in Cookies /\ "sso" \in Cookies /\ Cookies = {"refresh", "sso"}
  /\ Keep \notin Tokens /\ Keep # NoToken /\ NoToken \notin Tokens
  BY KeepAssumption, NoTokenAssumption DEF Cookies

LEMMA CookieTypes ==
  ASSUME Sound, PairsAgree
  PROVE  refreshCookie \subseteq Tokens /\ ssoCookie \subseteq refreshCookie
  BY Parts DEF PairsAgree

LEMMA SsoTyped ==
  ASSUME Sound, [Next]_vars
  PROVE  refreshCookie' \subseteq Tokens /\ ssoCookie' \subseteq Tokens
  BY Parts, TypedNext DEF Typed, TypeOK

(* A refresh token whose login stored no SSO session never gets one.       *)
LEMMA CookiesGrow ==
  ASSUME Sound, PairsAgree, [Next]_vars
  PROVE  /\ refreshCookie \subseteq refreshCookie' /\ ssoCookie \subseteq ssoCookie'
         /\ \A t \in refreshCookie : t \in ssoCookie' => t \in ssoCookie
<1>1. ASSUME NEW p \in Procs, Step(p)
      PROVE  /\ refreshCookie \subseteq refreshCookie' /\ ssoCookie \subseteq ssoCookie'
             /\ \A t \in refreshCookie : t \in ssoCookie' => t \in ssoCookie
  <2>1. pc[p] \in IssueLabels => req[p].new \notin refreshCookie
    BY Parts DEF Delivered
  <2> QED
    BY <1>1, <2>1, StepSso, StepEffects
       DEF SsoEffects, Effects, DeliveryEffects, IssueLabels
<1>2. ASSUME NEW p \in Procs, Start(p)
      PROVE  UNCHANGED <<refreshCookie, ssoCookie>>
  BY <1>2, StartSso
<1>3. ASSUME NEW t \in Tokens, Expire(t)
      PROVE  UNCHANGED <<refreshCookie, ssoCookie>>
  BY <1>3 DEF Expire
<1>4. CASE Crash \/ UNCHANGED vars
  BY <1>4 DEF Crash, vars
<1> QED
  BY <1>1, <1>2, <1>3, <1>4 DEF Next

LEMMA AnswerKept ==
  ASSUME Sound, PairsAgree, [Next]_vars, NEW q \in Procs,
         AnswerOK(answer[q]), answer'[q] = answer[q]
  PROVE  AnswerOK(answer[q])'
<1>1. answer[q]["refresh"] \in ssoCookie' => answer[q]["refresh"] \in ssoCookie
  <2>1. answer[q]["refresh"] \in refreshCookie \/ answer[q]["refresh"] \in {NoToken, Keep}
    BY DEF AnswerOK
  <2>2. ssoCookie' \subseteq Tokens
    BY PairsNext, SsoTyped
  <2> QED
    BY <2>1, <2>2, CookiesGrow, CookiesApart
<1> QED
  BY <1>1, CookiesGrow DEF AnswerOK, Cleared

LEMMA JarKept ==
  ASSUME Sound, PairsAgree, [Next]_vars, JarOK, jar' = jar
  PROVE  JarOK'
<1>1. jar["refresh"] \in ssoCookie' => jar["refresh"] \in ssoCookie
  BY SsoTyped, CookiesGrow, CookiesApart DEF JarOK
<1> QED
  BY <1>1, CookiesGrow DEF JarOK

(* What the handler at p answers. *)
LEMMA SetCookiesOK ==
  ASSUME Sound, PairsAgree, NEW p \in Procs, Step(p), answer'[p] = SetCookies(p)
  PROVE  /\ AnswerOK(answer[p])'
         /\ \A c \in Cookies : answer'[p][c] \in {NoToken, Keep, req[p].new}
         /\ answer'[p]["sso"] = NoToken => req[p].op = "logout"
<1>1. /\ ssoCookie' \subseteq refreshCookie' /\ refreshCookie' \subseteq Tokens
  <2>1. [Next]_vars
    BY DEF Next
  <2> QED
    BY <2>1, PairsNext, SsoTyped DEF PairsAgree
<1>2. CASE req[p].op = "logout"
  <2>1. answer'[p] = Cleared
    BY <1>2 DEF SetCookies
  <2> QED
    BY <1>1, <1>2, <2>1, CookiesApart DEF AnswerOK, Cleared
<1>3. CASE req[p].op = "revokeAll"
  <2>1. answer'[p] = ClearedRefresh
    BY <1>3 DEF SetCookies
  <2>2. /\ ClearedRefresh \in [Cookies -> Tokens \cup {NoToken, Keep}]
        /\ ClearedRefresh["refresh"] = NoToken /\ ClearedRefresh["sso"] = Keep
    BY CookiesApart DEF ClearedRefresh, NoAnswer
  <2> QED
    BY <1>1, <2>1, <2>2, CookiesApart DEF AnswerOK
<1>4. CASE req[p].op \notin {"logout", "revokeAll"}
  <2> DEFINE n == req[p].new
             a == [c \in Cookies |->
                     IF n \in (IF c = "refresh" THEN refreshCookie' ELSE ssoCookie')
                     THEN n ELSE Keep]
  <2>1. answer'[p] = a
    BY <1>4 DEF SetCookies
  <2>2. /\ a["refresh"] = IF n \in refreshCookie' THEN n ELSE Keep
        /\ a["sso"] = IF n \in ssoCookie' THEN n ELSE Keep
    BY CookiesApart
  <2>3. a \in [Cookies -> Tokens \cup {NoToken, Keep}]
    BY <1>1
  <2> HIDE DEF n, a
  <2>4. \A c \in Cookies : a[c] \in {NoToken, Keep, n}
    BY <2>2, CookiesApart
  <2>5. a["sso"] # NoToken
    BY <1>1, <2>2, CookiesApart
  <2>6. AnswerOK(answer[p])'
    BY <1>1, <2>1, <2>2, <2>3, <2>5, CookiesApart DEF AnswerOK
  <2> QED
    BY <2>1, <2>4, <2>5, <2>6 DEF n
<1> QED
  BY <1>2, <1>3, <1>4

LEMMA BrowserInit == LogoutInit => BrowserOK
<1> SUFFICES ASSUME LogoutInit PROVE BrowserOK
  OBVIOUS
<1>1. /\ NoAnswer \in [Cookies -> Tokens \cup {NoToken, Keep}]
      /\ NoAnswer["refresh"] = Keep /\ NoAnswer["sso"] = Keep
      /\ refreshCookie = {} /\ ssoCookie = {} /\ cleared = {}
  BY CookiesApart DEF LogoutInit, Init, NoAnswer
<1>2. AnswerOK(NoAnswer)
  BY <1>1, CookiesApart DEF AnswerOK
<1>3. JarOK
  BY <1>1, CookiesApart DEF LogoutInit, JarOK, Cleared
<1> QED
  BY <1>1, <1>2, <1>3 DEF LogoutInit, BrowserOK

LEMMA DeliverJar ==
  ASSUME Steady, NEW p \in Procs, Deliver(p)
  PROVE  /\ JarOK'
         /\ \A c \in Cookies : jar'[c] = IF answer[p][c] = Keep THEN jar[c] ELSE answer[p][c]
<1>1. AnswerOK(answer[p]) /\ JarOK /\ UNCHANGED <<refreshCookie, ssoCookie>>
  BY DEF Steady, BrowserOK, Deliver, vars
<1>2. \A c \in Cookies : jar'[c] = IF answer[p][c] = Keep THEN jar[c] ELSE answer[p][c]
  BY DEF Deliver
<1>3. jar' \in [Cookies -> Tokens \cup {NoToken}]
  <2>1. \A c \in Cookies : jar'[c] \in Tokens \cup {NoToken}
    BY <1>1, <1>2 DEF AnswerOK, JarOK
  <2> QED
    BY <2>1 DEF Deliver
<1>4. /\ jar'["refresh"] = IF answer[p]["refresh"] = Keep THEN jar["refresh"]
                           ELSE answer[p]["refresh"]
      /\ jar'["sso"] = IF answer[p]["sso"] = Keep THEN jar["sso"] ELSE answer[p]["sso"]
  BY <1>2, CookiesApart
<1>5. ssoCookie \subseteq Tokens /\ refreshCookie \subseteq Tokens
  BY CookieTypes DEF Steady
<1>6. /\ jar'["refresh"] \in refreshCookie \cup {NoToken}
      /\ jar'["sso"] \in ssoCookie \cup {NoToken}
  BY <1>1, <1>4 DEF AnswerOK, JarOK
<1>7. ASSUME jar'["refresh"] \in ssoCookie
      PROVE  jar'["sso"] = jar'["refresh"]
  <2>1. CASE answer[p]["refresh"] = Keep
    <3>1. answer[p]["sso"] = Keep
      BY <1>1, <1>5, <2>1, CookiesApart DEF AnswerOK, Cleared
    <3> QED
      BY <1>1, <1>4, <1>7, <2>1, <3>1 DEF JarOK
  <2>2. CASE answer[p]["refresh"] # Keep
    <3>1. answer[p]["sso"] = answer[p]["refresh"]
      BY <1>1, <1>4, <1>7, <2>2 DEF AnswerOK
    <3> QED
      BY <1>4, <2>2, <3>1
  <2> QED
    BY <2>1, <2>2
<1> QED
  BY <1>1, <1>2, <1>3, <1>6, <1>7 DEF JarOK

LEMMA BrowserNext ==
  ASSUME Steady, [LogoutNext]_logoutVars
  PROVE  BrowserOK'
<1>1. [Next]_vars /\ Sound /\ PairsAgree
  BY BrowserStep DEF Steady
<1>2. /\ JarOK /\ answer \in [Procs -> [Cookies -> Tokens \cup {NoToken, Keep}]]
      /\ \A q \in Procs : AnswerOK(answer[q])
      /\ cleared \subseteq ssoCookie /\ ssoCookie \subseteq ssoCookie'
  BY <1>1, CookiesGrow DEF Steady, BrowserOK
<1>3. /\ NoAnswer \in [Cookies -> Tokens \cup {NoToken, Keep}]
      /\ NoAnswer["refresh"] = Keep /\ NoAnswer["sso"] = Keep
  BY CookiesApart DEF NoAnswer
<1>4. ASSUME UNCHANGED <<browser, history>>
      PROVE  BrowserOK'
  BY <1>1, <1>2, <1>4, AnswerKept, JarKept DEF browser, history, BrowserOK
<1>5. ASSUME NEW p \in Procs, Serve(p)
      PROVE  BrowserOK'
  <2>1. jar' = jar /\ cleared' = cleared /\ Step(p)
    BY <1>5 DEF Serve
  <2>2. /\ \A q \in Procs : answer'[q] = answer[q] \/ (q = p /\ answer'[p] = SetCookies(p))
        /\ \A q \in Procs \ {p} : answer'[q] = answer[q]
        /\ answer' = [answer EXCEPT ![p] = answer'[p]]
    BY <1>2, <1>5 DEF Serve
  <2>3. \A q \in Procs : AnswerOK(answer[q])'
    BY <1>1, <1>2, <2>1, <2>2, AnswerKept, SetCookiesOK
  <2>4. answer' \in [Procs -> [Cookies -> Tokens \cup {NoToken, Keep}]]
    BY <1>2, <2>2, <2>3 DEF AnswerOK
  <2>5. JarOK'
    BY <1>1, <1>2, <2>1, JarKept
  <2> QED
    BY <1>2, <2>1, <2>3, <2>4, <2>5 DEF BrowserOK
<1>6. ASSUME NEW p \in Procs, Deliver(p) \/ Lose(p)
      PROVE  BrowserOK'
  <2>1. UNCHANGED vars /\ answer' = [answer EXCEPT ![p] = NoAnswer]
    BY <1>6 DEF Deliver, Lose
  <2>2. answer' \in [Procs -> [Cookies -> Tokens \cup {NoToken, Keep}]]
    BY <1>2, <1>3, <2>1
  <2>3. \A q \in Procs : answer'[q] = answer[q] \/ (answer'[q] = NoAnswer)
    BY <1>2, <2>1
  <2>4. \A q \in Procs : AnswerOK(answer[q])'
    <3>1. ASSUME NEW q \in Procs, answer'[q] = NoAnswer
          PROVE  AnswerOK(answer[q])'
      <4>1. refreshCookie' \subseteq Tokens /\ ssoCookie' \subseteq Tokens
        BY <1>1, SsoTyped
      <4> QED
        BY <1>3, <3>1, <4>1, CookiesApart DEF AnswerOK
    <3> QED
      BY <1>1, <1>2, <2>3, <3>1, AnswerKept
  <2>5. JarOK'
    <3>1. CASE Lose(p)
      BY <1>1, <1>2, <3>1, JarKept DEF Lose
    <3> QED
      BY <1>6, <3>1, DeliverJar
  <2>6. cleared' \subseteq ssoCookie'
    <3>1. cleared' \subseteq cleared \cup ({jar["sso"]} \ {NoToken})
      BY <1>6 DEF Deliver, Lose, history
    <3> QED
      BY <1>2, <3>1 DEF JarOK
  <2> QED
    BY <2>2, <2>4, <2>5, <2>6 DEF BrowserOK
<1>7. CASE UNCHANGED logoutVars
  BY <1>4, <1>7 DEF logoutVars
<1> QED
  BY <1>4, <1>5, <1>6, <1>7 DEF LogoutNext, Send, Environment

LEMMA SteadyInvariant == LogoutSpec => []Steady
<1>1. LogoutSpec => []Sound /\ []PairsAgree
  BY LogoutIsSessions, SoundInvariant, PairsInvariant, PTL
<1>2. Sound /\ PairsAgree /\ BrowserOK /\ [LogoutNext]_logoutVars => BrowserOK'
  BY BrowserNext DEF Steady
<1> QED
  BY <1>1, <1>2, BrowserInit, PTL DEF LogoutSpec, Steady

(* Authorize and the page act for one user: however the tabs log users in, *)
(* refresh and log out, the two cookies of a browser name different users  *)
(* only after a login that stored no SSO session.                          *)
THEOREM CookiesNameOneUser == LogoutSpec => []OneUserPerJar
<1>1. Steady => OneUserPerJar
  BY CookieTypes DEF Steady, BrowserOK, JarOK, PairsAgree, OneUserPerJar
<1> QED
  BY <1>1, SteadyInvariant, PTL

-----------------------------------------------------------------------------
(* Logout.                                                                 *)

LogoutLabels == {"getdel", "srem", "delSession"}

(* The SSO session s has no key, or arrived while a Logout was on its way. *)
Gone(s) == s = NoToken \/ s \in excused \/ sso[s] = NoUser

(* A Logout on its way will delete the session in the jar, or it is one    *)
(* that arrived behind its back; an answer that clears the jar clears a    *)
(* dead one.                                                               *)
LogoutMeetsJar ==
  /\ \A p \in Procs :
       /\ req[p].op = "logout" =>
            /\ pc[p] \in LogoutLabels
            /\ jar["sso"] \in {NoToken, req[p].sess} \cup excused
       /\ LogsOut(p) => Gone(jar["sso"])
  /\ \A s \in cleared : Gone(s)

LEMMA LogoutStep ==
  ASSUME Sound, NEW p \in Procs, Step(p), pc[p] \in LogoutLabels, req[p].op = "logout"
  PROVE  pc'[p] \in LogoutLabels \/ DelSession(p)
<1>1. pc \in [Procs -> Labels]
  BY Parts DEF Typed, TypeOK
<1>2. CASE DelSession(p)
  BY <1>2
<1>3. CASE GetDel(p) \/ Untrack(p)
  BY <1>1, <1>3 DEF GetDel, NotConsumed, Untrack, Goto, LogoutLabels
<1>4. ~(SetRefresh(p) \/ TrackSession(p) \/ SetSession(p) \/ FindUser(p) \/ SMembers(p)
         \/ DelRefresh(p) \/ DelSet(p))
  BY DEF LogoutLabels, SetRefresh, TrackSession, SetSession, FindUser, SMembers,
         DelRefresh, DelSet
<1> QED
  BY <1>2, <1>3, <1>4 DEF Step, StoreRefreshToken

(* A Logout ends with the DEL of its session, or with an excuse.           *)
LEMMA LogoutServed ==
  ASSUME Steady, LogoutMeetsJar, NEW p \in Procs, Serve(p),
         req[p].op = "logout", pc'[p] = "idle"
  PROVE  Gone(jar["sso"])'
<1>1. /\ Sound /\ Step(p) /\ jar' = jar /\ excused \subseteq excused'
      /\ pc[p] \in LogoutLabels /\ jar["sso"] \in {NoToken, req[p].sess} \cup excused
  BY DEF Steady, Serve, LogoutMeetsJar
<1>2. DelSession(p)
  BY <1>1, LogoutStep DEF LogoutLabels
<1>3. req[p].sess \in Tokens \cup {NoToken} /\ sso \in [Tokens -> Users \cup {NoUser}]
  BY <1>1, Parts DEF Typed, TypeOK, Requests, StoreTypeOK
<1>4. CASE req[p].sess = NoToken
  BY <1>1, <1>4 DEF Gone
<1>5. CASE req[p].sess # NoToken /\ DelSessionKey(req[p].sess)
  BY <1>1, <1>3, <1>5 DEF DelSessionKey, Gone
<1>6. CASE req[p].sess # NoToken /\ UNCHANGED sso
  <2>1. req[p].sess \in excused'
    BY <1>2, <1>6 DEF Serve, DelSession
  <2> QED
    BY <1>1, <2>1 DEF Gone
<1> QED
  BY <1>2, <1>4, <1>5, <1>6 DEF DelSession

LEMMA GoneStays ==
  ASSUME Steady, [Next]_vars, excused \subseteq excused',
         NEW s \in ssoCookie \cup {NoToken}, Gone(s)
  PROVE  s = NoToken \/ s \in excused' \/ sso'[s] = NoUser
  BY SsoDeadStays DEF Steady, Gone

LEMMA ServeMeetsJar ==
  ASSUME Steady, LogoutMeetsJar, NEW p \in Procs, Serve(p)
  PROVE  LogoutMeetsJar'
<1>1. /\ Sound /\ Step(p) /\ jar' = jar /\ cleared' = cleared /\ excused \subseteq excused'
      /\ jar["sso"] \in ssoCookie \cup {NoToken} /\ cleared \subseteq ssoCookie
  BY DEF Steady, Serve, BrowserOK, JarOK
<1>2. [Next]_vars /\ PairsAgree
  BY <1>1 DEF Next, Steady
<1>3. /\ \A q \in Procs \ {p} : pc'[q] = pc[q] /\ req'[q] = req[q] /\ answer'[q] = answer[q]
      /\ answer'[p] = IF pc'[p] = "idle" THEN SetCookies(p) ELSE answer[p]
  BY <1>1, OthersKeep, Parts DEF Steady, Serve, BrowserOK
<1>4. ASSUME NEW q \in Procs, req'[q].op = "logout"
      PROVE  /\ pc'[q] \in LogoutLabels
             /\ jar'["sso"] \in {NoToken, req'[q].sess} \cup excused'
  <2>1. CASE q = p
    <3>1. /\ pc'[p] # "idle" /\ req[p].op = "logout" /\ req'[p].sess = req[p].sess
      BY <1>1, <1>4, <2>1, StepSso DEF LocalEffects, NoRequest
    <3>2. pc[p] \in LogoutLabels
      BY <3>1 DEF LogoutMeetsJar
    <3>3. ~DelSession(p)
      BY <1>1, <3>1, Parts DEF DelSession, Finish, Goto, Typed, TypeOK
    <3> QED
      BY <1>1, <2>1, <3>1, <3>2, <3>3, LogoutStep DEF LogoutMeetsJar
  <2>2. CASE q # p
    BY <1>1, <1>3, <1>4, <2>2 DEF LogoutMeetsJar
  <2> QED
    BY <2>1, <2>2
<1>5. ASSUME NEW q \in Procs, LogsOut(q)'
      PROVE  Gone(jar["sso"])'
  <2>1. CASE LogsOut(q)
    <3>1. Gone(jar["sso"])
      BY <2>1 DEF LogoutMeetsJar
    <3> QED
      BY <1>1, <1>2, <3>1, GoneStays DEF Gone
  <2>2. CASE ~LogsOut(q)
    <3>1. q = p /\ pc'[p] = "idle" /\ answer'[p] = SetCookies(p)
      BY <1>3, <1>5, <2>2 DEF LogsOut
    <3>2. req[p].op = "logout"
      BY <1>1, <1>2, <1>5, <3>1, SetCookiesOK DEF LogsOut
    <3> QED
      BY <3>1, <3>2, LogoutServed
  <2> QED
    BY <2>1, <2>2
<1>6. ASSUME NEW s \in cleared'
      PROVE  Gone(s)'
  <2>1. s \in ssoCookie /\ Gone(s)
    BY <1>1, <1>6 DEF LogoutMeetsJar
  <2> QED
    BY <1>1, <1>2, <2>1, GoneStays DEF Gone
<1> QED
  BY <1>4, <1>5, <1>6 DEF LogoutMeetsJar

LEMMA SendMeetsJar ==
  ASSUME Steady, LogoutMeetsJar, NEW p \in Procs, Send(p)
  PROVE  LogoutMeetsJar'
<1>1. /\ Sound /\ Start(p) /\ UNCHANGED <<jar, answer, cleared, excused>>
  BY DEF Steady, Send, browser, history
<1>2. UNCHANGED sso
  BY <1>1, StartSso
<1>3. \A q \in Procs \ {p} : pc'[q] = pc[q] /\ req'[q] = req[q]
  BY <1>1, OthersKeep, Parts
<1>4. ASSUME req'[p].op = "logout"
      PROVE  pc'[p] \in LogoutLabels /\ jar["sso"] = req'[p].sess
  <2>1. pc \in [Procs -> Labels] /\ req \in [Procs -> Requests]
    BY <1>1, Parts DEF Typed, TypeOK
  <2>2. StartLogout(p)
    BY <1>1, <1>4, <2>1
       DEF Start, StartLogin, StartRefresh, StartRevokeAll, Begin, NoRequest
  <2>3. pc'[p] \in LogoutLabels
    BY <2>1, <2>2 DEF StartLogout, Begin, Goto, LogoutLabels
  <2> QED
    BY <1>4, <2>3 DEF Send, Attach
<1> QED
  BY <1>1, <1>2, <1>3, <1>4 DEF LogoutMeetsJar, Gone, LogsOut

LEMMA DeliverMeetsJar ==
  ASSUME Steady, LogoutMeetsJar, NEW p \in Procs, Deliver(p)
  PROVE  LogoutMeetsJar'
<1>1. /\ UNCHANGED <<pc, req, sso>> /\ answer' = [answer EXCEPT ![p] = NoAnswer]
      /\ jar'["sso"] = IF answer[p]["sso"] = Keep THEN jar["sso"] ELSE answer[p]["sso"]
  BY DeliverJar, CookiesApart DEF Deliver, vars
<1>2. \A q \in Procs : LogsOut(q)' => LogsOut(q) /\ q # p
  BY <1>1, CookiesApart DEF LogsOut, Steady, BrowserOK, NoAnswer
<1>3. CASE LogsOut(p)
  <2>1. jar'["sso"] = NoToken /\ excused' = excused
        /\ cleared' = cleared \cup ({jar["sso"]} \ {NoToken})
    BY <1>1, <1>3, CookiesApart DEF LogsOut, Deliver
  <2>2. \A s \in cleared' : Gone(s)'
    BY <1>1, <1>3, <2>1 DEF LogoutMeetsJar, Gone
  <2> QED
    BY <1>1, <2>1, <2>2 DEF LogoutMeetsJar, Gone
<1>4. CASE ~LogsOut(p)
  <2>1. /\ cleared' = cleared /\ excused \subseteq excused'
        /\ LogoutOnItsWay /\ answer[p]["sso"] # Keep => answer[p]["sso"] \in excused'
    BY <1>4 DEF Deliver
  <2>2. \A s \in cleared' : Gone(s)'
    BY <1>1, <2>1 DEF LogoutMeetsJar, Gone
  <2>3. CASE answer[p]["sso"] = Keep
    BY <1>1, <1>2, <2>1, <2>2, <2>3 DEF LogoutMeetsJar, Gone
  <2>4. CASE LogoutOnItsWay /\ answer[p]["sso"] # Keep
    <3>1. jar'["sso"] \in excused'
      BY <1>1, <2>1, <2>4
    <3> QED
      BY <1>1, <2>2, <3>1 DEF LogoutMeetsJar, Gone
  <2>5. CASE ~LogoutOnItsWay
    BY <1>1, <1>2, <2>2, <2>5 DEF LogoutOnItsWay, LogoutMeetsJar
  <2> QED
    BY <2>3, <2>4, <2>5
<1> QED
  BY <1>3, <1>4

LEMMA MeetsJarNext ==
  ASSUME Steady, LogoutMeetsJar, [LogoutNext]_logoutVars
  PROVE  LogoutMeetsJar'
<1>1. ASSUME NEW p \in Procs, Lose(p)
      PROVE  LogoutMeetsJar'
  <2>1. /\ UNCHANGED <<pc, req, sso, jar, excused, cleared>>
        /\ answer' = [answer EXCEPT ![p] = NoAnswer]
    BY <1>1 DEF Lose, vars, history
  <2>2. \A q \in Procs : LogsOut(q)' => LogsOut(q)
    BY <2>1, CookiesApart DEF LogsOut, Steady, BrowserOK, NoAnswer
  <2> QED
    BY <2>1, <2>2 DEF LogoutMeetsJar, Gone
<1>2. CASE Environment
  <2>1. /\ UNCHANGED <<jar, answer, excused, cleared>> /\ [Next]_vars
        /\ \A q \in Procs : req'[q].op = "logout" => req'[q] = req[q] /\ pc'[q] = pc[q]
    BY <1>2 DEF Environment, Crash, Expire, browser, history, Next, NoRequest
  <2>2. jar["sso"] \in ssoCookie \cup {NoToken} /\ cleared \subseteq ssoCookie
    BY DEF Steady, BrowserOK, JarOK
  <2>3. \A s \in ssoCookie \cup {NoToken} : Gone(s) => Gone(s)'
    BY <2>1, GoneStays DEF Gone
  <2>4. /\ \A q \in Procs : LogsOut(q)' => Gone(jar["sso"])'
        /\ \A s \in cleared' : Gone(s)'
    BY <2>1, <2>2, <2>3 DEF LogoutMeetsJar, LogsOut, Gone
  <2> QED
    BY <2>1, <2>4 DEF LogoutMeetsJar
<1>3. CASE UNCHANGED logoutVars
  BY <1>3 DEF logoutVars, vars, browser, history, LogoutMeetsJar, Gone, LogsOut
<1> QED
  BY <1>1, <1>2, <1>3, ServeMeetsJar, SendMeetsJar, DeliverMeetsJar DEF LogoutNext

(* An SSO session whose cookie an answer of Logout has cleared is dead at  *)
(* the server, whatever overlapped the Logout, unless it came into the jar *)
(* behind its back or its DEL failed.                                      *)
THEOREM ClearedSessionsAreDead == LogoutSpec => []ClearedIsDead
<1>1. LogoutInit => LogoutMeetsJar
  <2> SUFFICES ASSUME LogoutInit PROVE LogoutMeetsJar
    OBVIOUS
  <2>1. /\ \A p \in Procs : req[p].op = "none" /\ answer[p]["sso"] = Keep
        /\ cleared = {}
    BY CookiesApart DEF LogoutInit, Init, NoRequest, NoAnswer
  <2> QED
    BY <2>1, CookiesApart DEF LogoutMeetsJar, LogsOut
<1>2. Steady /\ LogoutMeetsJar => ClearedIsDead
  BY CookieTypes, CookiesApart DEF Steady, BrowserOK, LogoutMeetsJar, Gone, ClearedIsDead
<1> QED
  BY <1>1, <1>2, MeetsJarNext, SteadyInvariant, PTL DEF LogoutSpec

-----------------------------------------------------------------------------
(* Logins that a Logout has ended.                                         *)

OnTheWay(t) ==
  \E q \in Procs : t \in {req[q].old, req[q].new} \/ \E c \in Cookies : answer[q][c] = t

Near(t) == OnTheWay(t) \/ \E c \in Cookies : jar[c] = t

Out(s) == s \in ended /\ s \notin revived

(* No token in the jar or on its way, either way, belongs to a login that  *)
(* is out; and a token still to be drawn has no name that is out.          *)
StaysOut ==
  /\ \A t \in Tokens : Near(t) => root[t] # NoToken /\ ~Out(root[t])
  /\ ended \subseteq {t \in Tokens : root[t] # NoToken}

(* A token comes near only from where one of its login was, or as the      *)
(* first of a login of its own.                                            *)
Arriving(t) ==
  \/ Near(t) /\ root[t] # NoToken
  \/ root[t] = NoToken /\ root'[t] = t
  \/ root[t] = NoToken /\ \E s \in Tokens : Near(s) /\ root'[t] = root[s]

LEMMA OutIsKept ==
  ASSUME Sound, StaysOut, [Next]_vars, UNCHANGED <<ended, revived>>,
         \A t \in Tokens : Near(t)' => Arriving(t)
  PROVE  StaysOut'
<1>1. \A t \in Tokens : root[t] # NoToken => root'[t] = root[t]
  BY RootIsFinal, Parts
<1>2. ASSUME NEW t \in Tokens, Near(t)'
      PROVE  root'[t] # NoToken /\ ~Out(root[t])'
  <2>1. CASE Near(t) /\ root[t] # NoToken
    BY <1>1, <2>1 DEF StaysOut, Out
  <2>2. CASE root[t] = NoToken /\ root'[t] = t
    BY <2>2, NoTokenAssumption DEF StaysOut, Out
  <2>3. ASSUME NEW s \in Tokens, Near(s), root'[t] = root[s]
        PROVE  root'[t] # NoToken /\ ~Out(root[t])'
    BY <2>3 DEF StaysOut, Out
  <2> QED
    BY <1>2, <2>1, <2>2, <2>3 DEF Arriving
<1>3. ended' \subseteq {t \in Tokens : root'[t] # NoToken}
  BY <1>1 DEF StaysOut
<1> QED
  BY <1>2, <1>3 DEF StaysOut

LEMMA SendArrives ==
  ASSUME Steady, StaysOut, NEW p \in Procs, Send(p), NEW t \in Tokens, Near(t)'
  PROVE  Arriving(t)
<1>1. Sound /\ Start(p) /\ UNCHANGED <<jar, answer>> /\ NoToken \notin Tokens
  BY NoTokenAssumption DEF Steady, Send, browser
<1>2. \A q \in Procs \ {p} : pc'[q] = pc[q] /\ req'[q] = req[q]
  BY <1>1, OthersKeep, Parts
<1>3. CASE Near(t)
  BY <1>3 DEF StaysOut, Arriving
<1>4. CASE ~Near(t)
  <2>1. t = req'[p].old \/ t = req'[p].new
    BY <1>1, <1>2, <1>4 DEF Near, OnTheWay
  <2>2. CASE t = req'[p].old
    <3>1. req'[p].op \in {"refresh", "logout"}
      BY <1>1, <2>2, StartSso DEF IssueLabels
    <3>2. t = jar["refresh"]
      BY <1>1, <2>2, <3>1 DEF Send, Attach
    <3> QED
      BY <1>4, <3>2, CookiesApart DEF Near
  <2>3. CASE t = req'[p].new
    BY <1>1, <2>3, StartSso DEF DrawsFor, Arriving
  <2> QED
    BY <2>1, <2>2, <2>3
<1> QED
  BY <1>3, <1>4

LEMMA ServeArrives ==
  ASSUME Steady, StaysOut, NEW p \in Procs, Serve(p), NEW t \in Tokens, Near(t)'
  PROVE  Arriving(t)
<1>1. /\ Sound /\ PairsAgree /\ Step(p) /\ jar' = jar
      /\ t # NoToken /\ t # Keep
  BY CookiesApart DEF Steady, Serve
<1>2. /\ \A q \in Procs \ {p} : req'[q] = req[q] /\ answer'[q] = answer[q]
      /\ answer'[p] = SetCookies(p) \/ answer'[p] = answer[p]
  BY <1>1, OthersKeep, Parts DEF Steady, Serve, BrowserOK
<1>3. CASE Near(t)
  BY <1>3 DEF StaysOut, Arriving
<1>4. CASE ~Near(t)
  <2>1. ~(\E c \in Cookies : answer'[p][c] = t)
    <3>1. ASSUME NEW c \in Cookies, answer'[p][c] = t
          PROVE  t = req[p].new \/ answer[p][c] = t
      BY <1>1, <1>2, <3>1, SetCookiesOK
    <3> QED
      BY <1>4, <3>1 DEF Near, OnTheWay
  <2>2. t \in {req'[p].old, req'[p].new}
    BY <1>1, <1>2, <1>4, <2>1 DEF Near, OnTheWay
  <2>3. req'[p] # NoRequest
    BY <1>1, <2>2 DEF NoRequest
  <2>4. t # req'[p].old /\ req[p].old \in Tokens /\ DrawsFor(p, t, root[req[p].old])
    <3>1. req'[p].old = req[p].old
      BY <1>1, <2>3, StepSso DEF LocalEffects
    <3>2. t # req[p].old /\ t # req[p].new
      BY <1>4 DEF Near, OnTheWay
    <3> QED
      BY <1>1, <2>2, <2>3, <3>1, <3>2, StepSso DEF LocalEffects
  <2>5. Near(req[p].old)
    BY DEF Near, OnTheWay
  <2> QED
    BY <2>4, <2>5 DEF DrawsFor, Arriving
<1> QED
  BY <1>3, <1>4

LEMMA DeliverStaysOut ==
  ASSUME Steady, StaysOut, NEW p \in Procs, Deliver(p)
  PROVE  StaysOut'
<1>1. /\ UNCHANGED <<req, root>> /\ answer' = [answer EXCEPT ![p] = NoAnswer]
      /\ \A c \in Cookies : jar'[c] = IF answer[p][c] = Keep THEN jar[c] ELSE answer[p][c]
  BY DeliverJar DEF Deliver, vars
<1>2. ASSUME NEW t \in Tokens, OnTheWay(t)' PROVE OnTheWay(t)
  BY <1>1, <1>2, CookiesApart DEF OnTheWay, Steady, BrowserOK, NoAnswer
<1>3. CASE LogsOut(p)
  <2>1. answer[p] = Cleared
    BY <1>3 DEF LogsOut, Steady, BrowserOK, AnswerOK
  <2>2. \A c \in Cookies : jar'[c] = NoToken
    BY <1>1, <2>1, CookiesApart DEF Cleared
  <2>3. /\ ended' = {root[t] : t \in Tokens} \ {NoToken}
        /\ revived' = OnItsWay
    BY <1>3 DEF Deliver
  <2>4. ASSUME NEW t \in Tokens, Near(t)'
        PROVE  root[t] # NoToken /\ root[t] \in revived'
    <3>1. OnTheWay(t) /\ t # NoToken /\ t # Keep
      BY <1>2, <2>2, <2>4, CookiesApart DEF Near
    <3>2. root[t] # NoToken
      BY <3>1 DEF StaysOut, Near
    <3>3. PICK q \in Procs : t \in {req[q].old, req[q].new} \/ \E c \in Cookies : answer[q][c] = t
      BY <3>1 DEF OnTheWay
    <3> DEFINE requests == {{req[r].old, req[r].new} : r \in Procs}
               answers == {{answer[r][c] : c \in Cookies} : r \in Procs}
               carried == UNION (requests \cup answers)
    <3>4. t \in carried
      <4>1. CASE t \in {req[q].old, req[q].new}
        <5>1. {req[q].old, req[q].new} \in requests
          OBVIOUS
        <5> QED
          BY <4>1, <5>1
      <4>2. CASE \E c \in Cookies : answer[q][c] = t
        <5>1. {answer[q][c] : c \in Cookies} \in answers
          OBVIOUS
        <5>2. t \in {answer[q][c] : c \in Cookies}
          BY <4>2
        <5> QED
          BY <5>1, <5>2
      <4> QED
        BY <3>3, <4>1, <4>2
    <3>5. revived' = {root[x] : x \in carried \ {NoToken, Keep}}
      BY <2>3 DEF OnItsWay
    <3> HIDE DEF carried
    <3> QED
      BY <3>1, <3>2, <3>4, <3>5
  <2>5. \A t \in Tokens : root[t] # NoToken => root[t] \in Tokens /\ root[root[t]] # NoToken
    BY Parts DEF Steady, Rooted, Typed, TypeOK
  <2> QED
    BY <1>1, <2>3, <2>4, <2>5 DEF StaysOut, Out
<1>4. CASE ~LogsOut(p)
  <2>1. UNCHANGED <<ended, revived>>
    BY <1>4 DEF Deliver
  <2>2. ASSUME NEW t \in Tokens, Near(t)' PROVE Near(t)
    BY <1>1, <1>2, <2>2 DEF Near, OnTheWay
  <2> QED
    BY <1>1, <2>1, <2>2 DEF StaysOut, Out
<1> QED
  BY <1>3, <1>4

LEMMA StaysOutNext ==
  ASSUME Steady, StaysOut, [LogoutNext]_logoutVars
  PROVE  StaysOut'
<1>1. [Next]_vars /\ Sound
  BY BrowserStep DEF Steady
<1>2. ASSUME NEW p \in Procs, Send(p) PROVE StaysOut'
  BY <1>1, <1>2, SendArrives, OutIsKept DEF Send, history
<1>3. ASSUME NEW p \in Procs, Serve(p) PROVE StaysOut'
  BY <1>1, <1>3, ServeArrives, OutIsKept DEF Serve
<1>4. ASSUME NEW p \in Procs, Lose(p) PROVE StaysOut'
  <2>1. /\ UNCHANGED <<req, root, jar, ended, revived>>
        /\ answer' = [answer EXCEPT ![p] = NoAnswer]
    BY <1>4 DEF Lose, vars, history
  <2>2. ASSUME NEW t \in Tokens, Near(t)' PROVE Near(t)
    BY <2>1, <2>2, CookiesApart DEF Near, OnTheWay, Steady, BrowserOK, NoAnswer
  <2> QED
    BY <2>1, <2>2 DEF StaysOut, Out
<1>5. CASE Environment
  <2>1. /\ UNCHANGED <<root, jar, answer, ended, revived>>
        /\ \A q \in Procs : req'[q] \in {req[q], NoRequest}
    BY <1>5 DEF Environment, Crash, Expire, browser, history
  <2>2. ASSUME NEW t \in Tokens, Near(t)' PROVE Near(t)
    BY <2>1, <2>2, CookiesApart DEF Near, OnTheWay, NoRequest
  <2> QED
    BY <2>1, <2>2 DEF StaysOut, Out
<1>6. CASE UNCHANGED logoutVars
  BY <1>6 DEF logoutVars, vars, browser, history, StaysOut, Near, OnTheWay, Out
<1> QED
  BY <1>2, <1>3, <1>4, <1>5, <1>6, DeliverStaysOut DEF LogoutNext

(* The refresh token outlives Logout, which does not get its cookie; but   *)
(* no cookie of a login begun before the last Logout comes back into the   *)
(* browser, however often tabs refresh, unless a request of that login was *)
(* on its way when the answer of the Logout came.                          *)
THEOREM SignedOutForGood == LogoutSpec => []SignedOutStaysOut
<1>1. LogoutInit => StaysOut
  <2> SUFFICES ASSUME LogoutInit PROVE StaysOut
    OBVIOUS
  <2>1. /\ \A q \in Procs : req[q] = NoRequest /\ answer[q] = NoAnswer
        /\ jar = Cleared /\ ended = {}
    BY DEF LogoutInit, Init
  <2>2. \A t \in Tokens : ~Near(t)
    BY <2>1, CookiesApart DEF Near, OnTheWay, NoRequest, NoAnswer, Cleared
  <2> QED
    BY <2>1, <2>2 DEF StaysOut
<1>2. Steady /\ StaysOut => SignedOutStaysOut
  <2> SUFFICES ASSUME Steady, StaysOut, NEW c \in Cookies, jar[c] # NoToken
               PROVE  root[jar[c]] \in ended => root[jar[c]] \in revived
    BY DEF SignedOutStaysOut
  <2>1. jar[c] \in Tokens
    BY DEF Steady, BrowserOK, JarOK
  <2>2. Near(jar[c])
    BY DEF Near
  <2> QED
    BY <2>1, <2>2 DEF StaysOut, Out
<1> QED
  BY <1>1, <1>2, StaysOutNext, SteadyInvariant, PTL DEF LogoutSpec

-----------------------------------------------------------------------------
(* The links of a password reset.                                          *)

LinksTypeOK ==
  /\ resetKey \in [Links -> Users \cup {NoUser}]
  /\ mailed \in [Links -> Users \cup {NoUser}]
  /\ password \in [Users -> Passwords]
  /\ stage \in [Procs -> {"none", "consume", "update", "revoke"}]
  /\ using \in [Procs -> Links \cup {NoLink}]
  /\ account \in [Procs -> Users \cup {NoUser}]

(* A Reset has the link of a mail, and from then on that link is gone, its *)
(* account is the one it was mailed to and nobody else is using it.        *)
Local(p) ==
  /\ stage[p] \in {"consume", "update"} =>
       using[p] \in Links /\ mailed[using[p]] # NoUser
  /\ stage[p] = "update" =>
       /\ account[p] \in Users /\ mailed[using[p]] = account[p]
       /\ resetKey[using[p]] = NoUser

Apart(p, q) == stage[p] = "update" /\ stage[q] = "update" => using[p] # using[q]

KeysMatch == \A l \in Links : resetKey[l] # NoUser => mailed[l] = resetKey[l]

LinksInv ==
  /\ LinksTypeOK
  /\ PasswordFromMailbox
  /\ KeysMatch
  /\ \A p \in Procs : Local(p)
  /\ \A p \in Procs : \A q \in Procs \ {p} : Apart(p, q)

-----------------------------------------------------------------------------

LEMMA InitInv == ResetInit => LinksInv
  BY DEF ResetInit, LinksInv, LinksTypeOK, PasswordFromMailbox, KeysMatch, Local,
         Apart, Passwords

OtherResets(p) ==
  \A q \in Procs \ {p} :
    stage'[q] = stage[q] /\ using'[q] = using[q] /\ account'[q] = account[q]

LocalTyped ==
  /\ stage' \in [Procs -> {"none", "consume", "update", "revoke"}]
  /\ using' \in [Procs -> Links \cup {NoLink}]
  /\ account' \in [Procs -> Users \cup {NoUser}]

LEMMA Answers ==
  ASSUME LinksTypeOK, NEW p \in Procs, Answer(p)
  PROVE  stage'[p] = "none" /\ OtherResets(p) /\ LocalTyped
  BY DEF LinksTypeOK, Answer, Reach, OtherResets, LocalTyped

(* What the others rely on: mails stay, keys of mailed links only go. *)
Keeps ==
  \A l \in Links : mailed[l] # NoUser =>
    mailed'[l] = mailed[l] /\ resetKey'[l] \in {resetKey[l], NoUser}

LEMMA OneMoves ==
  ASSUME LinksInv, Keeps, NEW p \in Procs, OtherResets(p), LinksTypeOK',
         PasswordFromMailbox', KeysMatch', Local(p)',
         stage'[p] = "update" => stage[p] = "consume" /\ using'[p] = using[p]
                                 /\ resetKey[using[p]] # NoUser
  PROVE  LinksInv'
<1>1. ASSUME NEW q \in Procs \ {p} PROVE Local(q)'
  <2>1. Local(q) /\ LinksTypeOK
    BY DEF LinksInv
  <2>2. stage'[q] = stage[q] /\ using'[q] = using[q] /\ account'[q] = account[q]
    BY DEF OtherResets
  <2> QED
    BY <2>1, <2>2 DEF Local, Keeps
<1>2. ASSUME NEW q \in Procs, NEW r \in Procs \ {q} PROVE Apart(q, r)'
  <2>1. CASE q = p
    BY <1>2, <2>1 DEF LinksInv, Local, Apart, OtherResets
  <2>2. CASE r = p
    BY <1>2, <2>2 DEF LinksInv, Local, Apart, OtherResets
  <2>3. CASE q # p /\ r # p
    BY <1>2, <2>3 DEF LinksInv, Apart, OtherResets
  <2> QED
    BY <2>1, <2>2, <2>3
<1> QED
  BY <1>1, <1>2 DEF LinksInv

(* A step that writes no link and no password, and lets a Reset go on past *)
(* them or answers it.                                                     *)
LEMMA QuietReset ==
  ASSUME LinksInv, NEW p \in Procs, OtherResets(p), LocalTyped,
         UNCHANGED <<links, password>>, stage'[p] \in {"none", "revoke"}
  PROVE  LinksInv'
<1>1. Keeps /\ PasswordFromMailbox' /\ KeysMatch' /\ LinksTypeOK'
  BY DEF LinksInv, Keeps, PasswordFromMailbox, KeysMatch, LinksTypeOK, LocalTyped, links
<1>2. Local(p)'
  BY DEF Local
<1> QED
  BY <1>1, <1>2, OneMoves

(* A step of no Reset, in which keys may run out. *)
LEMMA ExpireInv ==
  ASSUME LinksInv, UNCHANGED <<mailed, password, local>>,
         resetKey' \in [Links -> Users \cup {NoUser}],
         \A l \in Links : resetKey'[l] \in {resetKey[l], NoUser}
  PROVE  LinksInv'
<1>1. LinksTypeOK' /\ PasswordFromMailbox' /\ KeysMatch'
  BY DEF LinksInv, LinksTypeOK, PasswordFromMailbox, KeysMatch, local
<1>2. ASSUME NEW p \in Procs PROVE Local(p)'
  BY DEF LinksInv, LinksTypeOK, Local, local
<1>3. \A p \in Procs : \A q \in Procs \ {p} : Apart(p, q)'
  BY DEF LinksInv, Apart, local
<1> QED
  BY <1>1, <1>2, <1>3 DEF LinksInv

LEMMA StillInv ==
  ASSUME LinksInv, UNCHANGED <<links, password, local>>
  PROVE  LinksInv'
  BY ExpireInv DEF links, LinksInv, LinksTypeOK

-----------------------------------------------------------------------------

(* A new link is mailed to the address of the account it is for. *)
LEMMA ResetRequestInv ==
  ASSUME LinksInv, NEW p \in Procs, ResetRequest(p)
  PROVE  LinksInv'
<1>1. PICK l \in Links, u \in Users :
        /\ resetKey[l] = NoUser /\ mailed[l] = NoUser
        /\ resetKey' = [resetKey EXCEPT ![l] = u]
        /\ mailed' = [mailed EXCEPT ![l] = u]
  BY DEF ResetRequest
<1>2. UNCHANGED <<password, local>> /\ LinksTypeOK /\ NoUser \notin Users
  BY NoUserAssumption DEF ResetRequest, LinksInv
<1>3. /\ resetKey' \in [Links -> Users \cup {NoUser}] /\ resetKey'[l] = u
      /\ mailed' \in [Links -> Users \cup {NoUser}] /\ mailed'[l] = u
      /\ \A k \in Links \ {l} : resetKey'[k] = resetKey[k] /\ mailed'[k] = mailed[k]
  BY <1>1, <1>2 DEF LinksTypeOK
<1>4. Keeps /\ LinksTypeOK' /\ KeysMatch'
  BY <1>1, <1>2, <1>3 DEF LinksInv, Keeps, LinksTypeOK, KeysMatch, local
<1>5. PasswordFromMailbox'
  BY <1>1, <1>2, <1>3, NoLinkAssumption
     DEF LinksInv, LinksTypeOK, PasswordFromMailbox, Passwords
<1>6. OtherResets(p) /\ Local(p)'
  BY <1>1, <1>2, <1>3 DEF LinksInv, Local, OtherResets, local
<1>7. stage'[p] # "update"
  BY <1>2 DEF ResetRequest, Idle, local
<1> QED
  BY <1>4, <1>5, <1>6, <1>7, OneMoves

LEMMA StartResetInv ==
  ASSUME LinksInv, NEW p \in Procs, StartReset(p)
  PROVE  LinksInv'
<1>1. PICK l \in Links : /\ mailed[l] # NoUser
                         /\ Reach(p, "consume")
                         /\ using' = [using EXCEPT ![p] = l]
  BY DEF StartReset
<1>2. UNCHANGED <<links, password, account>> /\ LinksTypeOK
  BY DEF StartReset, LinksInv
<1>3. stage'[p] = "consume" /\ using'[p] = l /\ OtherResets(p) /\ LocalTyped
  BY <1>1, <1>2 DEF LinksTypeOK, Reach, OtherResets, LocalTyped
<1>4. Keeps /\ PasswordFromMailbox' /\ KeysMatch' /\ LinksTypeOK'
  BY <1>2, <1>3
     DEF LinksInv, Keeps, PasswordFromMailbox, KeysMatch, LinksTypeOK, LocalTyped, links
<1>5. Local(p)'
  BY <1>1, <1>2, <1>3 DEF Local, links
<1> QED
  BY <1>3, <1>4, <1>5, OneMoves

(* The key leaves the store with the request that takes it. *)
LEMMA ConsumeLinkInv ==
  ASSUME LinksInv, NEW p \in Procs, ConsumeLink(p)
  PROVE  LinksInv'
<1> DEFINE l == using[p]
           consume == resetKey' = [resetKey EXCEPT ![l] = NoUser]
<1>1. /\ stage[p] = "consume" /\ UNCHANGED <<mailed, password>>
      /\ consume \/ UNCHANGED resetKey
  BY DEF ConsumeLink
<1>2. LinksTypeOK /\ l \in Links /\ mailed[l] # NoUser
  BY <1>1 DEF LinksInv, Local
<1>3. /\ resetKey' \in [Links -> Users \cup {NoUser}]
      /\ \A k \in Links : resetKey'[k] \in {resetKey[k], NoUser}
  BY <1>1, <1>2 DEF LinksTypeOK
<1>4. Keeps /\ PasswordFromMailbox' /\ KeysMatch'
  BY <1>1, <1>3 DEF LinksInv, Keeps, PasswordFromMailbox, KeysMatch
<1>5. LocalTyped => LinksTypeOK'
  BY <1>1, <1>2, <1>3 DEF LinksTypeOK, LocalTyped
<1>6. CASE Answer(p)
  <2>1. stage'[p] = "none" /\ OtherResets(p) /\ LocalTyped
    BY <1>2, <1>6, Answers
  <2>2. Local(p)'
    BY <2>1 DEF Local
  <2> QED
    BY <1>4, <1>5, <2>1, <2>2, OneMoves
<1>7. CASE /\ resetKey[l] # NoUser
           /\ consume
           /\ account' = [account EXCEPT ![p] = resetKey[l]]
           /\ Reach(p, "update")
           /\ UNCHANGED using
  <2>1. /\ stage'[p] = "update" /\ using'[p] = l /\ account'[p] = resetKey[l]
        /\ OtherResets(p) /\ LocalTyped
    BY <1>2, <1>7 DEF LinksTypeOK, Reach, OtherResets, LocalTyped
  <2>2. resetKey'[l] = NoUser /\ resetKey[l] \in Users /\ mailed'[l] = resetKey[l]
    BY <1>1, <1>2, <1>7 DEF LinksInv, LinksTypeOK, KeysMatch
  <2>3. Local(p)'
    BY <1>1, <1>2, <2>1, <2>2 DEF Local
  <2> QED
    BY <1>1, <1>4, <1>5, <1>7, <2>1, <2>3, OneMoves
<1> QED
  BY <1>6, <1>7 DEF ConsumeLink

(* The password is set with the link of the account's own mailbox. *)
LEMMA UpdatePasswordInv ==
  ASSUME LinksInv, NEW p \in Procs, UpdatePassword(p)
  PROVE  LinksInv'
<1>1. /\ stage[p] = "update" /\ UNCHANGED links
      /\ SetPassword(p) \/ UNCHANGED password
  BY DEF UpdatePassword
<1>2. LinksTypeOK /\ using[p] \in Links /\ account[p] \in Users
      /\ mailed[using[p]] = account[p]
  BY <1>1 DEF LinksInv, Local
<1>3. stage'[p] \in {"none", "revoke"} /\ OtherResets(p) /\ LocalTyped
  <2>1. CASE Answer(p)
    BY <1>2, <2>1, Answers
  <2>2. CASE Reach(p, "revoke") /\ UNCHANGED <<using, account>>
    BY <1>2, <2>2 DEF LinksTypeOK, Reach, OtherResets, LocalTyped
  <2> QED
    BY <2>1, <2>2 DEF UpdatePassword
<1>4. LinksTypeOK'
  BY <1>1, <1>2, <1>3 DEF LinksTypeOK, LocalTyped, links, SetPassword, Passwords
<1>5. PasswordFromMailbox'
  BY <1>1, <1>2 DEF LinksInv, LinksTypeOK, PasswordFromMailbox, SetPassword, links
<1>6. Keeps /\ KeysMatch' /\ Local(p)'
  BY <1>1, <1>3 DEF LinksInv, Keeps, KeysMatch, Local, links
<1> QED
  BY <1>3, <1>4, <1>5, <1>6, OneMoves

LEMMA RevokeInv ==
  ASSUME LinksInv, NEW p \in Procs, Revoke(p)
  PROVE  LinksInv'
<1>1. /\ stage[p] = "revoke" /\ UNCHANGED <<links, password>>
      /\ Answer(p) \/ UNCHANGED local
  BY DEF Revoke
<1>2. CASE Answer(p)
  BY <1>1, <1>2, Answers, QuietReset DEF LinksInv
<1>3. CASE UNCHANGED local
  BY <1>1, <1>3, StillInv
<1> QED
  BY <1>1, <1>2, <1>3

LEMMA CrashResetInv ==
  ASSUME LinksInv, CrashReset
  PROVE  LinksInv'
<1>1. /\ UNCHANGED <<links, password>> /\ LocalTyped
      /\ \A p \in Procs : stage'[p] = "none"
  BY DEF CrashReset, LocalTyped
<1>2. LinksTypeOK' /\ PasswordFromMailbox' /\ KeysMatch'
  BY <1>1 DEF LinksInv, LinksTypeOK, LocalTyped, PasswordFromMailbox, KeysMatch, links
<1>3. \A p \in Procs : Local(p)' /\ \A q \in Procs : Apart(p, q)'
  BY <1>1 DEF Local, Apart
<1> QED
  BY <1>2, <1>3 DEF LinksInv

LEMMA StepInv ==
  LinksInv /\ [ResetNext]_<<vars, resetVars>> => LinksInv'
<1> SUFFICES ASSUME LinksInv, [ResetNext]_<<vars, resetVars>> PROVE LinksInv'
  OBVIOUS
<1>1. ASSUME NEW p \in Procs, ResetStep(p) PROVE LinksInv'
  BY <1>1, ResetRequestInv, StartResetInv, ConsumeLinkInv, UpdatePasswordInv,
     RevokeInv, StillInv DEF ResetStep, Other
<1>2. ASSUME NEW l \in Links, ExpireLink(l) PROVE LinksInv'
  BY <1>2, ExpireInv DEF ExpireLink, LinksInv, LinksTypeOK
<1>3. ASSUME NEW t \in Tokens, ExpireToken(t) PROVE LinksInv'
  BY <1>3, StillInv DEF ExpireToken
<1>4. CASE CrashReset
  BY <1>4, CrashResetInv
<1>5. CASE UNCHANGED <<vars, resetVars>>
  BY <1>5, StillInv DEF resetVars
<1> QED
  BY <1>1, <1>2, <1>3, <1>4, <1>5 DEF ResetNext

(* The invariant that the theorems about links and passwords rest on. *)
LEMMA LinksInvariant == ResetSpec => []LinksInv
  BY InitInv, StepInv, PTL DEF ResetSpec

(* The password in force was set with a link mailed to the account's own   *)
(* address.                                                                *)
THEOREM PasswordsFromMailbox == ResetSpec => []PasswordFromMailbox
<1>1. LinksInv => PasswordFromMailbox
  BY DEF LinksInv
<1> QED
  BY <1>1, LinksInvariant, PTL

-----------------------------------------------------------------------------
(* The refinement: reset links are one-time keys. *)

Given == {l \in Links : mailed[l] # NoUser}
Stored == {l \in Links : resetKey[l] # NoUser}
HeldBy(l) == {p \in Procs : stage[p] = "update" /\ using[p] = l}

(* What an End of OneTimeKeys is, in terms of one link. *)
LEMMA EndStep ==
  ASSUME Given \subseteq Given', Stored' \subseteq Stored,
         \A l \in Links : HeldBy(l)' \in {HeldBy(l), {}}
  PROVE  OneTime!End
<1> DEFINE held == [l \in Links |-> HeldBy(l)]
<1>1. Given' \in SUBSET Links
  BY DEF Given
<1>2. held' \in [Links -> SUBSET Procs]
  BY DEF HeldBy
<1>3. \A l \in Links : held'[l] \in {held[l], {}}
  OBVIOUS
<1> QED
  BY <1>1, <1>2, <1>3 DEF OneTime!End, Given, Stored, HeldBy

LEMMA HoldersKept ==
  ASSUME NEW p \in Procs, NEW l, OtherResets(p)
  PROVE  HeldBy(l)' \ {p} = HeldBy(l) \ {p}
  BY DEF HeldBy, OtherResets

(* A request that takes no link, and gives none out, only ends. *)
LEMMA QuietEnd ==
  ASSUME LinksInv, NEW p \in Procs, OtherResets(p), stage'[p] # "update",
         UNCHANGED mailed, Stored' \subseteq Stored
  PROVE  OneTime!End
<1>1. Given \subseteq Given'
  BY DEF Given
<1>2. ASSUME NEW l \in Links PROVE HeldBy(l)' \in {HeldBy(l), {}}
  <2>1. HeldBy(l)' \ {p} = HeldBy(l) \ {p} /\ p \notin HeldBy(l)'
    BY HoldersKept DEF HeldBy
  <2>2. p \in HeldBy(l) => HeldBy(l) = {p}
    BY DEF LinksInv, Apart, HeldBy
  <2> QED
    BY <2>1, <2>2
<1> QED
  BY <1>1, <1>2, EndStep

(* A step that touches no Reset. *)
LEMMA StillEnd ==
  ASSUME UNCHANGED <<mailed, local>>, Stored' \subseteq Stored
  PROVE  OneTime!End
<1>1. Given' = Given /\ \A l \in Links : HeldBy(l)' = HeldBy(l)
  BY DEF Given, HeldBy, local
<1> QED
  BY <1>1, EndStep

LEMMA IssueStep ==
  ASSUME LinksInv, NEW p \in Procs, ResetRequest(p)
  PROVE  OneTime!Next
<1>1. PICK l \in Links, u \in Users :
        /\ resetKey[l] = NoUser /\ mailed[l] = NoUser
        /\ resetKey' = [resetKey EXCEPT ![l] = u]
        /\ mailed' = [mailed EXCEPT ![l] = u]
  BY DEF ResetRequest
<1>2. UNCHANGED local /\ LinksTypeOK /\ u # NoUser
  BY NoUserAssumption DEF ResetRequest, LinksInv
<1>3. /\ resetKey'[l] = u /\ mailed'[l] = u
      /\ \A k \in Links \ {l} : resetKey'[k] = resetKey[k] /\ mailed'[k] = mailed[k]
  BY <1>1, <1>2 DEF LinksTypeOK
<1>4. l \notin Given /\ Given' = Given \cup {l} /\ Stored' = Stored \cup {l}
  BY <1>1, <1>2, <1>3 DEF Given, Stored
<1>5. \A k \in Links : HeldBy(k)' = HeldBy(k)
  BY <1>2 DEF HeldBy, local
<1>6. OneTime!Issue(l)
  BY <1>4, <1>5 DEF OneTime!Issue, Given, Stored, HeldBy
<1> QED
  BY <1>6 DEF OneTime!Next

LEMMA TakeLink ==
  ASSUME LinksInv, NEW p \in Procs, NEW l \in Links, stage[p] = "consume",
         resetKey[l] # NoUser, resetKey' = [resetKey EXCEPT ![l] = NoUser],
         UNCHANGED mailed, stage'[p] = "update", using'[p] = l, OtherResets(p)
  PROVE  OneTime!Take(l, p)
<1> DEFINE held == [k \in Links |-> HeldBy(k)]
<1>1. resetKey'[l] = NoUser /\ \A k \in Links \ {l} : resetKey'[k] = resetKey[k]
  BY DEF LinksInv, LinksTypeOK
<1>2. l \in Stored /\ Stored' = Stored \ {l} /\ Given' = Given
  BY <1>1 DEF Stored, Given
<1>3. ASSUME NEW k \in Links PROVE HeldBy(k)' = IF k = l THEN {p} ELSE HeldBy(k)
  <2>1. p \notin HeldBy(k) /\ (p \in HeldBy(k)' <=> k = l)
    BY DEF HeldBy
  <2>2. k = l => HeldBy(k) = {}
    BY DEF LinksInv, Local, HeldBy
  <2>3. HeldBy(k)' \ {p} = HeldBy(k) \ {p}
    BY HoldersKept
  <2>4. CASE k = l
    BY <2>1, <2>2, <2>3, <2>4
  <2>5. CASE k # l
    BY <2>1, <2>3, <2>5
  <2> QED
    BY <2>4, <2>5
<1>4. held' = [held EXCEPT ![l] = {p}]
  <2>1. held' = [k \in Links |-> HeldBy(k)']
    OBVIOUS
  <2>2. [held EXCEPT ![l] = {p}] = [k \in Links |-> IF k = l THEN {p} ELSE HeldBy(k)]
    OBVIOUS
  <2> QED
    BY <1>3, <2>1, <2>2
<1> QED
  BY <1>2, <1>4 DEF OneTime!Take, Given, Stored, HeldBy

LEMMA TakeStep ==
  ASSUME LinksInv, NEW p \in Procs, ConsumeLink(p)
  PROVE  OneTime!Next
<1> DEFINE l == using[p]
           consume == resetKey' = [resetKey EXCEPT ![l] = NoUser]
<1>1. stage[p] = "consume" /\ UNCHANGED mailed /\ (consume \/ UNCHANGED resetKey)
  BY DEF ConsumeLink
<1>2. LinksTypeOK /\ l \in Links
  BY <1>1 DEF LinksInv, Local
<1>3. CASE Answer(p)
  <2>1. stage'[p] = "none" /\ OtherResets(p)
    BY <1>2, <1>3, Answers
  <2>2. Stored' \subseteq Stored
    BY <1>1, <1>2 DEF Stored, LinksTypeOK
  <2> QED
    BY <1>1, <2>1, <2>2, QuietEnd DEF OneTime!Next
<1>4. CASE resetKey[l] # NoUser /\ consume /\ Reach(p, "update")
           /\ account' = [account EXCEPT ![p] = resetKey[l]] /\ UNCHANGED using
  <2>1. stage'[p] = "update" /\ using'[p] = l /\ OtherResets(p)
    BY <1>2, <1>4 DEF LinksTypeOK, Reach, OtherResets
  <2>2. PICK k \in Links : k = l
    BY <1>2
  <2>3. OneTime!Take(k, p)
    BY <1>1, <1>4, <2>1, <2>2, TakeLink
  <2> QED
    BY <2>3 DEF OneTime!Next
<1> QED
  BY <1>3, <1>4 DEF ConsumeLink

(* The other steps of a Reset. *)
LEMMA OtherStep ==
  ASSUME LinksInv, NEW p \in Procs,
         StartReset(p) \/ UpdatePassword(p) \/ Revoke(p)
  PROVE  OneTime!End
<1>1. UNCHANGED links /\ LinksTypeOK
  BY DEF StartReset, UpdatePassword, Revoke, LinksInv
<1>2. Stored' = Stored /\ mailed' = mailed
  BY <1>1 DEF Stored, links
<1>3. CASE UNCHANGED local
  BY <1>2, <1>3, StillEnd
<1>4. CASE Answer(p)
  BY <1>1, <1>2, <1>4, Answers, QuietEnd
<1>5. CASE \/ /\ Reach(p, "consume") /\ UNCHANGED account
              /\ \E l \in Links : using' = [using EXCEPT ![p] = l]
           \/ Reach(p, "revoke") /\ UNCHANGED <<using, account>>
  <2>1. OtherResets(p) /\ stage'[p] # "update"
    BY <1>1, <1>5 DEF LinksTypeOK, Reach, OtherResets
  <2> QED
    BY <1>2, <2>1, QuietEnd
<1> QED
  BY <1>3, <1>4, <1>5 DEF StartReset, UpdatePassword, Revoke

LEMMA CrashStep ==
  ASSUME CrashReset
  PROVE  OneTime!End
<1>1. Given' = Given /\ Stored' = Stored /\ \A l \in Links : HeldBy(l)' = {}
  BY DEF CrashReset, Given, Stored, HeldBy, links
<1> QED
  BY <1>1, EndStep

LEMMA OneTimeInit == ResetInit => OneTime!Init
<1> SUFFICES ASSUME ResetInit PROVE OneTime!Init
  OBVIOUS
<1>1. Given = {} /\ Stored = {} /\ \A l \in Links : HeldBy(l) = {}
  BY DEF ResetInit, Given, Stored, HeldBy
<1> QED
  BY <1>1 DEF OneTime!Init, Given, Stored, HeldBy

LEMMA OneTimeStep ==
  LinksInv /\ [ResetNext]_<<vars, resetVars>> => [OneTime!Next]_(OneTime!vars)
<1> SUFFICES ASSUME LinksInv, [ResetNext]_<<vars, resetVars>>
             PROVE  [OneTime!Next]_(OneTime!vars)
  OBVIOUS
<1>1. ASSUME NEW p \in Procs, ResetStep(p) PROVE OneTime!Next
  <2>1. CASE Other(p)
    BY <2>1, StillEnd DEF Other, Stored, links, OneTime!Next
  <2> QED
    BY <1>1, <2>1, IssueStep, TakeStep, OtherStep DEF ResetStep, OneTime!Next
<1>2. ASSUME NEW l \in Links, ExpireLink(l) PROVE OneTime!Next
  <2>1. Stored' \subseteq Stored /\ UNCHANGED <<mailed, local>>
    BY <1>2 DEF ExpireLink, Stored, LinksInv, LinksTypeOK
  <2> QED
    BY <2>1, StillEnd DEF OneTime!Next
<1>3. ASSUME NEW t \in Tokens, ExpireToken(t) PROVE OneTime!Next
  BY <1>3, StillEnd DEF ExpireToken, Stored, links, OneTime!Next
<1>4. CASE CrashReset
  BY <1>4, CrashStep DEF OneTime!Next
<1>5. CASE UNCHANGED <<vars, resetVars>>
  BY <1>5 DEF resetVars, links, local, OneTime!vars
<1> QED
  BY <1>1, <1>2, <1>3, <1>4, <1>5 DEF ResetNext

(* Reset links implement OneTimeKeys. *)
THEOREM LinksOneTime == ResetSpec => ResetLinksAreOneTime
  BY LinksInvariant, OneTimeInit, OneTimeStep, PTL
     DEF ResetSpec, ResetLinksAreOneTime, OneTime!Spec

-----------------------------------------------------------------------------
(* The sessions behind a password reset.  A Reset revokes sessions in the   *)
(* steps of RevokeAll, but may break off when the other requests do not,    *)
(* so that the sessions seen with it are those of module Sessions with      *)
(* failures, whatever MayFail is.                                           *)

F == INSTANCE SessionsProofs WITH MayFail <- TRUE

LEMMA StartsSessions ==
  ASSUME NEW p \in Procs, Start(p)
  PROVE  F!Start(p)
  BY DEF Start, StartLogin, StartRefresh, StartLogout, StartRevokeAll, Begin, Fresh,
         NoRequest, Goto, F!Start, F!StartLogin, F!StartRefresh, F!StartLogout,
         F!StartRevokeAll, F!Begin, F!Fresh, F!NoRequest, F!Goto

LEMMA StepsSessions ==
  ASSUME NEW p \in Procs, Step(p)
  PROVE  F!Step(p)
<1> USE DEF Goto, F!Goto, Finish, F!Finish, NoRequest, F!NoRequest, Live, F!Live,
            F!Step, F!StoreRefreshToken
<1>1. CASE SetRefresh(p)
  BY <1>1 DEF SetRefresh, F!SetRefresh, SetRefreshKey, F!SetRefreshKey
<1>2. CASE TrackSession(p)
  BY <1>2 DEF TrackSession, F!TrackSession, AddUserSession, F!AddUserSession,
              AfterStore, F!AfterStore
<1>3. CASE SetSession(p)
  BY <1>3 DEF SetSession, F!SetSession, SetSessionKey, F!SetSessionKey
<1>4. CASE GetDel(p)
  BY <1>4 DEF GetDel, F!GetDel, GetDelRefreshKey, F!GetDelRefreshKey, DelRefreshKey,
              F!DelRefreshKey, NotConsumed, F!NotConsumed
<1>5. CASE Untrack(p)
  BY <1>5 DEF Untrack, F!Untrack, RemUserSession, F!RemUserSession
<1>6. CASE FindUser(p)
  BY <1>6 DEF FindUser, F!FindUser, Fresh, F!Fresh
<1>7. CASE DelSession(p)
  BY <1>7 DEF DelSession, F!DelSession, DelSessionKey, F!DelSessionKey
<1>8. CASE SMembers(p)
  BY <1>8 DEF SMembers, F!SMembers
<1>9. CASE DelRefresh(p)
  BY <1>9 DEF DelRefresh, F!DelRefresh, DelRefreshKey, F!DelRefreshKey
<1>10. CASE DelSet(p)
  BY <1>10 DEF DelSet, F!DelSet, DelUserSessions, F!DelUserSessions
<1> QED
  BY <1>1, <1>2, <1>3, <1>4, <1>5, <1>6, <1>7, <1>8, <1>9, <1>10
     DEF Step, StoreRefreshToken

(* A Reset runs RevokeAll's code for the account of its link; while it     *)
(* handles the link and the password no session request runs.              *)
StageOK ==
  \A p \in Procs :
    /\ pc[p] = "idle" => req[p] = NoRequest
    /\ stage[p] \in {"consume", "update"} => pc[p] = "idle"
    /\ stage[p] = "revoke" =>
         /\ account[p] \in Users
         /\ pc[p] \in F!RevokeLabels
         /\ req[p].op = "revokeAll" /\ req[p].usr = account[p]

Basic == F!Typed /\ LinksInv /\ StageOK

(* The session requests of one step of module PasswordReset. *)
Moves(p) == F!Start(p) \/ F!Step(p)

LEMMA UpdateMoves ==
  ASSUME Basic, NEW p \in Procs, UpdatePassword(p)
  PROVE  \/ /\ F!StartRevokeAll(p) /\ pc'[p] = "smembers"
            /\ req'[p] = [NoRequest EXCEPT !.op = "revokeAll", !.usr = account[p]]
            /\ stage'[p] = "revoke" /\ SetPassword(p) /\ UNCHANGED account
         \/ UNCHANGED vars /\ stage'[p] = "none"
<1>1. account[p] \in Users /\ stage \in [Procs -> {"none", "consume", "update", "revoke"}]
  BY DEF Basic, LinksInv, LinksTypeOK, Local, UpdatePassword
<1>2. pc \in [Procs -> Labels] /\ req \in [Procs -> Requests]
  BY DEF Basic, F!Typed, F!TypeOK, Labels, F!Labels, Requests, F!Requests, Ops, F!Ops
<1>3. CASE Answer(p) /\ UNCHANGED vars
  BY <1>1, <1>3 DEF Answer, Reach
<1>4. CASE /\ SetPassword(p)
           /\ Begin(p, [NoRequest EXCEPT !.op = "revokeAll", !.usr = account[p]],
                    "smembers")
           /\ Reach(p, "revoke")
           /\ UNCHANGED <<refresh, userSessions, sso, refreshCookie, ssoCookie,
                          root, revoked, using, account>>
  <2>1. F!StartRevokeAll(p)
    BY <1>1, <1>4 DEF F!StartRevokeAll, F!Begin, Begin, Goto, F!Goto, NoRequest, F!NoRequest
  <2> QED
    BY <1>1, <1>2, <1>4, <2>1 DEF Begin, Goto, Reach
<1> QED
  BY <1>3, <1>4 DEF UpdatePassword

LEMMA RevokeMoves ==
  ASSUME Basic, NEW p \in Procs, Revoke(p)
  PROVE  F!Step(p)
<1>1. CASE Step(p)
  BY <1>1, StepsSessions
<1>2. CASE Finish(p) /\ UNCHANGED <<refresh, userSessions, sso, refreshCookie, ssoCookie,
                                    root, revoked>>
  <2>1. pc[p] \in {"smembers", "delRefresh", "delSet"}
    BY DEF Basic, StageOK, Revoke, F!RevokeLabels
  <2> USE DEF Goto, F!Goto, Finish, F!Finish, NoRequest, F!NoRequest, F!Step
  <2>2. CASE pc[p] = "smembers"
    BY <1>2, <2>2 DEF F!SMembers
  <2>3. CASE pc[p] = "delRefresh"
    BY <1>2, <2>3 DEF F!DelRefresh
  <2>4. CASE pc[p] = "delSet"
    BY <1>2, <2>4 DEF F!DelSet
  <2> QED
    BY <2>1, <2>2, <2>3, <2>4
<1> QED
  BY <1>1, <1>2 DEF Revoke

LEMMA CrashMoves ==
  ASSUME Basic, CrashReset
  PROVE  F!Crash \/ UNCHANGED vars
<1>1. pc \in [Procs -> Labels] /\ req \in [Procs -> Requests]
  BY DEF Basic, F!Typed, F!TypeOK, Labels, F!Labels, Requests, F!Requests, Ops, F!Ops
<1>2. CASE \E p \in Procs : pc[p] # "idle"
  BY <1>2 DEF CrashReset, F!Crash, NoRequest, F!NoRequest
<1>3. CASE \A p \in Procs : pc[p] = "idle"
  <2>1. pc' = pc /\ req' = req
    BY <1>1, <1>3 DEF CrashReset, Basic, StageOK
  <2> QED
    BY <2>1 DEF CrashReset, vars
<1> QED
  BY <1>2, <1>3

LEMMA ExpireMoves ==
  ASSUME NEW t \in Tokens, ExpireToken(t)
  PROVE  F!Expire(t)
  BY DEF ExpireToken, Expire, F!Expire, Live, F!Live, DelRefreshKey, F!DelRefreshKey,
         DelSessionKey, F!DelSessionKey

(* What happens to the sessions when a request of module PasswordReset    *)
(* takes a step.                                                           *)
LEMMA RequestMoves ==
  ASSUME Basic, NEW p \in Procs, ResetStep(p)
  PROVE  Moves(p) \/ UNCHANGED vars
<1>1. CASE Other(p)
  BY <1>1, StartsSessions, StepsSessions DEF Other, Moves
<1>2. CASE Revoke(p)
  BY <1>2, RevokeMoves DEF Moves
<1>3. CASE UpdatePassword(p)
  BY <1>3, UpdateMoves DEF Moves, F!Start
<1>4. CASE ResetRequest(p) \/ StartReset(p) \/ ConsumeLink(p)
  BY <1>4 DEF ResetRequest, StartReset, ConsumeLink
<1> QED
  BY <1>1, <1>2, <1>3, <1>4 DEF ResetStep

LEMMA NextMoves ==
  ASSUME Basic, [ResetNext]_<<vars, resetVars>>
  PROVE  [F!Next]_F!vars
<1>1. F!vars = vars /\ F!vars' = vars'
  BY DEF vars, F!vars
<1>2. ASSUME NEW p \in Procs, ResetStep(p) PROVE [F!Next]_F!vars
  BY <1>1, <1>2, RequestMoves DEF Moves, F!Next
<1>3. ASSUME NEW l \in Links, ExpireLink(l) PROVE [F!Next]_F!vars
  BY <1>1, <1>3 DEF ExpireLink
<1>4. ASSUME NEW t \in Tokens, ExpireToken(t) PROVE [F!Next]_F!vars
  BY <1>4, ExpireMoves DEF F!Next
<1>5. CASE CrashReset
  BY <1>1, <1>5, CrashMoves DEF F!Next
<1>6. CASE UNCHANGED <<vars, resetVars>>
  BY <1>1, <1>6
<1> QED
  BY <1>2, <1>3, <1>4, <1>5, <1>6 DEF ResetNext

LEMMA MovesEnd ==
  ASSUME F!Typed, NEW p \in Procs, Moves(p)
  PROVE  /\ pc'[p] = "idle" => req'[p] = NoRequest
         /\ pc[p] \in F!RevokeLabels =>
              \/ pc'[p] = "idle"
              \/ /\ pc'[p] \in F!RevokeLabels
                 /\ req'[p].op = req[p].op /\ req'[p].usr = req[p].usr
<1> USE DEF F!Goto, F!Finish, F!Begin, NoRequest, F!NoRequest, F!RevokeLabels
<1>1. pc \in [Procs -> Labels] /\ req \in [Procs -> Requests]
  BY DEF F!Typed, F!TypeOK, Labels, F!Labels, Requests, F!Requests, Ops, F!Ops
<1>2. CASE F!Start(p)
  BY <1>1, <1>2
     DEF F!Start, F!StartLogin, F!StartRefresh, F!StartLogout, F!StartRevokeAll
<1>3. CASE F!StoreRefreshToken(p) \/ F!SetSession(p)
  BY <1>1, <1>3
     DEF F!StoreRefreshToken, F!SetRefresh, F!TrackSession, F!AfterStore, F!SetSession
<1>4. CASE F!GetDel(p) \/ F!Untrack(p)
  BY <1>1, <1>4 DEF F!GetDel, F!NotConsumed, F!Untrack
<1>5. CASE F!FindUser(p) \/ F!DelSession(p)
  BY <1>1, <1>5 DEF F!FindUser, F!DelSession
<1>6. CASE F!SMembers(p) \/ F!DelRefresh(p) \/ F!DelSet(p)
  <2>1. CASE F!SMembers(p)
    BY <1>1, <2>1 DEF F!SMembers, Requests
  <2>2. CASE F!DelRefresh(p)
    BY <1>1, <2>2 DEF F!DelRefresh, Requests
  <2>3. CASE F!DelSet(p)
    BY <1>1, <2>3 DEF F!DelSet
  <2> QED
    BY <1>6, <2>1, <2>2, <2>3
<1> QED
  BY <1>2, <1>3, <1>4, <1>5, <1>6 DEF Moves, F!Step

LEMMA StepOthers ==
  ASSUME Basic, NEW p \in Procs, ResetStep(p)
  PROVE  /\ OtherResets(p)
         /\ \A q \in Procs \ {p} : pc'[q] = pc[q] /\ req'[q] = req[q]
<1>1. LinksTypeOK /\ F!Typed
  BY DEF Basic, LinksInv
<1>2. OtherResets(p)
  <2>1. CASE Answer(p)
    BY <1>1, <2>1, Answers
  <2>2. CASE UNCHANGED local
    BY <2>2 DEF local, OtherResets
  <2>3. CASE Reach(p, "update") /\ UNCHANGED using
             /\ account' = [account EXCEPT ![p] = resetKey[using[p]]]
    BY <1>1, <2>3 DEF LinksTypeOK, Reach, OtherResets
  <2>4. CASE \/ /\ Reach(p, "consume") /\ UNCHANGED account
                /\ \E l \in Links : using' = [using EXCEPT ![p] = l]
             \/ Reach(p, "revoke") /\ UNCHANGED <<using, account>>
    BY <1>1, <2>4 DEF LinksTypeOK, Reach, OtherResets
  <2> QED
    BY <2>1, <2>2, <2>3, <2>4
       DEF ResetStep, ResetRequest, StartReset, ConsumeLink, UpdatePassword, Revoke, Other
<1>3. \A q \in Procs \ {p} : pc'[q] = pc[q] /\ req'[q] = req[q]
  <2>1. CASE Moves(p)
    BY <1>1, <2>1, F!OthersKeep, NoUserAssumption, NoTokenAssumption DEF Moves
  <2>2. CASE UNCHANGED vars
    BY <2>2 DEF vars
  <2> QED
    BY <2>1, <2>2, RequestMoves
<1> QED
  BY <1>2, <1>3

LEMMA StageStep ==
  ASSUME Basic, NEW p \in Procs, ResetStep(p)
  PROVE  StageOK'
<1>1. /\ OtherResets(p) /\ F!Typed /\ LinksTypeOK
      /\ \A q \in Procs \ {p} : pc'[q] = pc[q] /\ req'[q] = req[q]
  BY StepOthers DEF Basic, LinksInv
<1>2. ASSUME NEW q \in Procs \ {p}
      PROVE  /\ pc'[q] = pc[q] /\ req'[q] = req[q]
             /\ stage'[q] = stage[q] /\ account'[q] = account[q]
  BY <1>1 DEF OtherResets
<1> DEFINE OK == /\ pc[p] = "idle" => req[p] = NoRequest
                 /\ stage[p] \in {"consume", "update"} => pc[p] = "idle"
                 /\ stage[p] = "revoke" =>
                      /\ account[p] \in Users
                      /\ pc[p] \in F!RevokeLabels
                      /\ req[p].op = "revokeAll" /\ req[p].usr = account[p]
<1>3. OK
  BY DEF Basic, StageOK
<1>4. OK'
  <2>1. CASE Other(p)
    <3>1. Moves(p) /\ stage'[p] = "none"
      BY <2>1, StartsSessions, StepsSessions DEF Other, Moves, local
    <3> QED
      BY <1>1, <3>1, MovesEnd
  <2>2. CASE Revoke(p)
    <3>1. Moves(p) /\ stage[p] = "revoke"
      BY <2>2, RevokeMoves DEF Moves, Revoke
    <3>2. CASE pc'[p] = "idle" /\ Answer(p)
      BY <1>1, <3>1, <3>2, MovesEnd, Answers
    <3>3. CASE pc'[p] # "idle" /\ UNCHANGED local
      BY <1>1, <1>3, <3>1, <3>3, MovesEnd DEF local
    <3> QED
      BY <2>2, <3>2, <3>3 DEF Revoke
  <2>3. CASE UpdatePassword(p)
    <3>1. stage[p] = "update" /\ account[p] \in Users /\ pc[p] = "idle"
      BY <1>3, <2>3 DEF Basic, LinksInv, Local, UpdatePassword
    <3>2. CASE UNCHANGED vars /\ stage'[p] = "none"
      BY <1>3, <3>1, <3>2 DEF vars
    <3>3. CASE /\ pc'[p] = "smembers" /\ stage'[p] = "revoke" /\ UNCHANGED account
               /\ req'[p] = [NoRequest EXCEPT !.op = "revokeAll", !.usr = account[p]]
      BY <3>1, <3>3 DEF NoRequest, F!RevokeLabels
    <3> QED
      BY <2>3, <3>2, <3>3, UpdateMoves
  <2>4. CASE ResetRequest(p)
    BY <1>3, <2>4 DEF ResetRequest, vars, local
  <2>5. CASE StartReset(p)
    <3>1. stage'[p] = "consume"
      BY <1>1, <2>5 DEF StartReset, Reach, LinksTypeOK
    <3> QED
      BY <1>3, <2>5, <3>1 DEF StartReset, Idle, vars
  <2>6. CASE ConsumeLink(p)
    <3>1. stage[p] = "consume" /\ stage'[p] \in {"update", "none"} /\ UNCHANGED vars
      BY <1>1, <2>6, Answers DEF ConsumeLink, Reach, LinksTypeOK
    <3> QED
      BY <1>3, <3>1 DEF vars
  <2> QED
    BY <2>1, <2>2, <2>3, <2>4, <2>5, <2>6 DEF ResetStep
<1>5. ASSUME NEW q \in Procs \ {p}
      PROVE  /\ pc'[q] = "idle" => req'[q] = NoRequest
             /\ stage'[q] \in {"consume", "update"} => pc'[q] = "idle"
             /\ stage'[q] = "revoke" =>
                  /\ account'[q] \in Users
                  /\ pc'[q] \in F!RevokeLabels
                  /\ req'[q].op = "revokeAll" /\ req'[q].usr = account'[q]
  BY <1>2 DEF Basic, StageOK
<1> QED
  BY <1>4, <1>5 DEF StageOK, F!RevokeLabels

LEMMA BasicNext ==
  ASSUME Basic, [ResetNext]_<<vars, resetVars>>
  PROVE  Basic'
<1>1. F!Typed'
  BY NextMoves, F!TypedNext, NoUserAssumption, NoTokenAssumption DEF Basic
<1>2. LinksInv'
  BY StepInv DEF Basic
<1>3. StageOK'
  <2>1. ASSUME NEW l \in Links, ExpireLink(l) PROVE StageOK'
    BY <2>1 DEF Basic, StageOK, ExpireLink, vars, local
  <2>2. ASSUME NEW t \in Tokens, ExpireToken(t) PROVE StageOK'
    BY <2>2 DEF Basic, StageOK, ExpireToken, Expire, local
  <2>3. CASE CrashReset
    BY <2>3 DEF StageOK, CrashReset
  <2>4. CASE UNCHANGED <<vars, resetVars>>
    BY <2>4 DEF Basic, StageOK, vars, resetVars, local
  <2> QED
    BY <2>1, <2>2, <2>3, <2>4, StageStep DEF ResetNext
<1> QED
  BY <1>1, <1>2, <1>3 DEF Basic

LEMMA InitMoves == ResetInit => F!Init
  BY DEF ResetInit, Init, F!Init, StoreInit, F!StoreInit, NoRequest, F!NoRequest

LEMMA BasicInvariant == ResetSpec => []Basic
<1>1. ResetInit => Basic
  <2>1. ResetInit => F!Typed
    BY InitMoves, F!TypedInit, NoUserAssumption, NoTokenAssumption
  <2>2. ResetInit => StageOK
    BY DEF ResetInit, Init, StageOK
  <2> QED
    BY <2>1, <2>2, InitInv DEF Basic
<1>2. Basic /\ [ResetNext]_<<vars, resetVars>> => Basic'
  BY BasicNext
<1> QED
  BY <1>1, <1>2, PTL DEF ResetSpec

LEMMA ResetIsSessions == ResetSpec => F!Spec
<1>1. Basic /\ [ResetNext]_<<vars, resetVars>> => [F!Next]_F!vars
  BY NextMoves
<1> QED
  BY <1>1, InitMoves, BasicInvariant, PTL DEF ResetSpec, F!Spec

(* What the theorems of SessionsProofs say of these sessions. *)
Facts == F!Sound /\ F!PairsAgree /\ F!HeldOnce

LEMMA FactsInvariant == ResetSpec => []Facts
<1>1. F!Spec => []F!Sound
  BY F!SoundInvariant, NoUserAssumption, NoTokenAssumption
<1>2. F!Spec => []F!PairsAgree
  BY F!PairsInvariant, NoUserAssumption, NoTokenAssumption
<1>3. F!Spec => []F!HeldOnce
  BY F!HoldersInvariant, NoUserAssumption, NoTokenAssumption
<1> QED
  BY <1>1, <1>2, <1>3, ResetIsSessions, PTL DEF Facts

-----------------------------------------------------------------------------
(* The logins that are open.                                               *)

LEMMA FactParts ==
  ASSUME Facts
  PROVE  /\ F!Typed /\ F!Rooted /\ F!NoFork /\ F!OwnersAgree /\ F!Delivered
         /\ F!TrackedAfterSet
         /\ refreshCookie \subseteq Tokens
         /\ refresh \in [Tokens -> Users \cup {NoUser}]
         /\ root \in [Tokens -> Tokens \cup {NoToken}]
         /\ userSessions \in [Users -> SUBSET Tokens]
         /\ \A q \in Procs : /\ pc[q] \in F!IssueLabels => req[q].new \in Tokens
                             /\ pc[q] \in F!ConsumeLabels => req[q].old \in Tokens
                             /\ pc[q] \in F!UserLabels => req[q].usr \in Users
<1>1. F!Typed /\ F!Rooted /\ F!NoFork /\ F!OwnersAgree /\ F!Delivered /\ F!TrackedAfterSet
      /\ refreshCookie \subseteq Tokens
  BY F!Parts, NoUserAssumption, NoTokenAssumption DEF Facts
<1> QED
  BY <1>1, F!LocalTypes, NoUserAssumption, NoTokenAssumption
     DEF F!Typed, F!TypeOK, F!StoreTypeOK

(* A request in flight is one that holds its chain. *)
LEMMA FlightHolds ==
  ASSUME Facts, NEW p \in Procs
  PROVE  /\ \A u : InFlight(p, u) <=> F!Holding(p) /\ req[p].usr = u
         /\ F!Holding(p) => ChainOf(p) = F!ChainHeld(p) /\ req[p].usr \in Users
<1> USE DEF F!Holding, F!Renews, F!IssueLabels, F!ConsumeLabels, F!UserLabels
<1>1. F!HeldOnce /\ F!Rooted /\ (pc[p] \in F!UserLabels => req[p].usr \in Users)
  BY FactParts DEF Facts
<1>2. F!Holding(p) => req[p].op \in {"login", "verify", "refresh"}
  BY <1>1 DEF F!HeldOnce
<1>3. \A u : InFlight(p, u) <=> F!Holding(p) /\ req[p].usr = u
  BY <1>1, <1>2 DEF InFlight, F!HeldOnce, F!Rooted
<1>4. F!Holding(p) => ChainOf(p) = F!ChainHeld(p) /\ req[p].usr \in Users
  BY <1>1 DEF ChainOf, F!ChainHeld, F!HeldOnce
<1> QED
  BY <1>3, <1>4

AllOpen == UNION {Open(u) : u \in Users}

(* Open logins have begun; the login of a token that can be exchanged is   *)
(* open, and so is one that a request holds.                               *)
OpenOK ==
  /\ \A s \in AllOpen : s \in Tokens /\ root[s] # NoToken
  /\ \A t \in Tokens : F!Live(t) => root[t] \in AllOpen
  /\ \A p \in Procs : F!Holding(p) => F!ChainHeld(p) \in AllOpen

LEMMA OpenLogins == Facts => OpenOK
<1> SUFFICES ASSUME Facts PROVE OpenOK
  OBVIOUS
<1>1. /\ F!Rooted /\ F!Typed
      /\ refresh \in [Tokens -> Users \cup {NoUser}] /\ root \in [Tokens -> Tokens \cup {NoToken}]
  BY FactParts
<1>2. ASSUME NEW u \in Users, NEW t \in Tokens, refresh[t] = u
      PROVE  root[t] \in Tokens /\ root[root[t]] # NoToken
  BY <1>1, <1>2, NoUserAssumption DEF F!Rooted, F!Live
<1>3. ASSUME NEW u \in Users, NEW p \in Procs, InFlight(p, u)
      PROVE  ChainOf(p) \in Tokens /\ root[ChainOf(p)] # NoToken
  BY <1>3, FlightHolds, F!HeldIsRooted, NoUserAssumption, NoTokenAssumption DEF Facts
<1>4. \A s \in AllOpen : s \in Tokens /\ root[s] # NoToken
  BY <1>2, <1>3 DEF AllOpen, Open
<1>5. ASSUME NEW t \in Tokens, F!Live(t)
      PROVE  root[t] \in AllOpen
  BY <1>1, <1>5 DEF F!Live, Open, AllOpen
<1>6. ASSUME NEW p \in Procs, F!Holding(p)
      PROVE  F!ChainHeld(p) \in AllOpen
  <2>1. ChainOf(p) \in Open(req[p].usr) /\ req[p].usr \in Users /\ ChainOf(p) = F!ChainHeld(p)
    BY <1>6, FlightHolds DEF Open
  <2> QED
    BY <2>1 DEF AllOpen
<1> QED
  BY <1>4, <1>5, <1>6 DEF OpenOK

LEMMA OpenLoginsNext == Facts' => OpenOK'
  BY OpenLogins, PTL

(* The history is of open logins, and of users. *)
HistoryOK ==
  /\ stale \subseteq AllOpen
  /\ overlapped \subseteq AllOpen
  /\ cut \subseteq Users

LEMMA HistoryNext ==
  ASSUME Basic, HistoryOK, [ResetNext]_<<vars, resetVars>>
  PROVE  HistoryOK'
<1>1. CASE Remember
  <2>1. stale' \subseteq AllOpen' /\ overlapped' \subseteq AllOpen'
    BY <1>1 DEF Remember, AllOpen
  <2>2. \A q \in Procs : stage[q] \in {"update", "revoke"} => account[q] \in Users
    BY DEF Basic, LinksInv, Local, StageOK
  <2>3. cut' \subseteq Users
    BY <1>1, <2>2 DEF Remember, HistoryOK
  <2> QED
    BY <2>1, <2>3 DEF HistoryOK
<1>2. CASE UNCHANGED <<vars, resetVars>>
  BY <1>2 DEF vars, resetVars, audit, HistoryOK, AllOpen, Open, InFlight, ChainOf
<1> QED
  BY <1>1, <1>2 DEF ResetNext

LEMMA HistoryInvariant == ResetSpec => []HistoryOK
<1>1. ResetInit => HistoryOK
  BY DEF ResetInit, HistoryOK
<1>2. Basic /\ HistoryOK /\ [ResetNext]_<<vars, resetVars>> => HistoryOK'
  BY HistoryNext
<1> QED
  BY <1>1, <1>2, BasicInvariant, PTL DEF ResetSpec

(* The links, the sessions, the local variables of every request and the   *)
(* history keep their types, whatever fails.                               *)
THEOREM ResetTypeCorrect == ResetSpec => []ResetTypeOK
<1>1. F!Typed => TypeOK
  BY DEF F!Typed, F!TypeOK, TypeOK, F!StoreTypeOK, StoreTypeOK, Labels, F!Labels,
         Requests, F!Requests, Ops, F!Ops
<1>2. Basic /\ Facts /\ HistoryOK => ResetTypeOK
  BY <1>1, OpenLogins DEF OpenOK, Basic, LinksInv, LinksTypeOK, HistoryOK, ResetTypeOK
<1> QED
  BY <1>2, BasicInvariant, FactsInvariant, HistoryInvariant, PTL

-----------------------------------------------------------------------------
(* What a step does to delivered tokens, to requests that hold a login and  *)
(* to revocations.                                                          *)

TokensKept ==
  \A t \in refreshCookie :
    F!Live(t)' => F!Live(t) /\ refresh'[t] = refresh[t]

TokensDelivered ==
  \A t \in refreshCookie' \ refreshCookie :
    F!Live(t)' =>
      \E q \in Procs :
        /\ pc[q] \in {"sadd", "setSession"} /\ req[q].new = t
        /\ refresh[t] = req[q].usr /\ refresh'[t] = refresh[t]

HoldersMove ==
  \A q \in Procs : F!Holding(q)' =>
    \/ /\ F!Holding(q) /\ F!ChainHeld(q)' = F!ChainHeld(q)
       /\ req'[q].usr = req[q].usr
    \/ root[F!ChainHeld(q)'] = NoToken
    \/ \E t \in refreshCookie :
         F!Live(t) /\ root[t] = F!ChainHeld(q)' /\ refresh[t] = req'[q].usr

RevocationsMove ==
  \A r \in Procs :
    /\ pc'[r] = "delRefresh" =>
         /\ req[r].op = "revokeAll" /\ req'[r].usr = req[r].usr
         /\ \/ pc[r] = "smembers" /\ req'[r].todo = userSessions[req[r].usr]
            \/ /\ pc[r] = "delRefresh"
               /\ \A t \in req[r].todo : t \in req'[r].todo \/ refresh'[t] = NoUser
    /\ pc'[r] = "delSet" /\ pc[r] # "delSet" =>
         pc[r] = "delRefresh" /\ req[r].todo = {}

ChainsKept == \A t \in Tokens : root[t] # NoToken => root'[t] = root[t]

LEMMA RequestStep ==
  ASSUME Facts, NEW p \in Procs, Moves(p)
  PROVE  TokensKept /\ TokensDelivered /\ HoldersMove /\ RevocationsMove /\ ChainsKept
<1> USE NoUserAssumption, NoTokenAssumption
<1>1. F!Sound /\ F!Effects(p) /\ F!HoldEffects(p)
  BY F!StartEffects, F!StepEffects, F!MoveHolds DEF Facts, Moves
<1>2. /\ F!Typed /\ F!Rooted /\ F!Delivered /\ refreshCookie \subseteq Tokens
      /\ refresh \in [Tokens -> Users \cup {NoUser}]
      /\ \A q \in Procs : /\ pc[q] \in F!IssueLabels => req[q].new \in Tokens
                          /\ pc[q] \in F!ConsumeLabels => req[q].old \in Tokens
                          /\ pc[q] \in F!UserLabels => req[q].usr \in Users
  BY FactParts
<1>3. ChainsKept
  BY <1>2, F!RootIsFinal DEF ChainsKept, Moves, F!Next
<1>4. \A q \in Procs \ {p} : pc'[q] = pc[q] /\ req'[q] = req[q]
  BY <1>1 DEF F!Effects, F!Others
<1>5. TokensKept
  <2>1. ASSUME NEW t \in refreshCookie, F!Live(t)'
        PROVE  F!Live(t) /\ refresh'[t] = refresh[t]
    <3>1. ~(pc[p] = "setRefresh" /\ t = req[p].new)
      BY <1>2 DEF F!Delivered, F!IssueLabels
    <3> QED
      BY <1>1, <1>2, <2>1, <3>1 DEF F!Effects, F!KeyEffects, F!Live
  <2> QED
    BY <2>1 DEF TokensKept
<1>6. TokensDelivered
  <2>1. ASSUME NEW t \in refreshCookie' \ refreshCookie, F!Live(t)'
        PROVE  /\ pc[p] \in {"sadd", "setSession"} /\ req[p].new = t
               /\ refresh[t] = req[p].usr /\ refresh'[t] = refresh[t]
    <3>1. t = req[p].new /\ pc[p] \in {"sadd", "setSession"}
      BY <1>1 DEF F!Effects, F!DeliveryEffects
    <3>2. t \in Tokens /\ refresh'[t] = refresh[t]
      BY <1>1, <1>2, <2>1, <3>1 DEF F!Effects, F!KeyEffects, F!IssueLabels, F!Live
    <3> QED
      BY <2>1, <3>1, <3>2 DEF Facts, F!PairsAgree, F!Live
  <2> QED
    BY <2>1 DEF TokensDelivered
<1>7. HoldersMove
  <2>1. ASSUME NEW q \in Procs, F!Holding(q)', q # p
        PROVE  /\ F!Holding(q) /\ F!ChainHeld(q)' = F!ChainHeld(q)
               /\ req'[q].usr = req[q].usr
    <3>1. pc'[q] = pc[q] /\ req'[q] = req[q]
      BY <1>4, <2>1
    <3> QED
      BY <1>2, <1>3, <2>1, <3>1
         DEF F!Holding, F!ChainHeld, F!Renews, F!Rooted, F!ConsumeLabels, ChainsKept
  <2>2. ASSUME F!Takes(p)
        PROVE  \E t \in refreshCookie :
                 F!Live(t) /\ root[t] = F!ChainHeld(p)' /\ refresh[t] = req'[p].usr
    <3>1. /\ req[p].old \in refreshCookie /\ req[p].old \in Tokens /\ F!Live(req[p].old)
          /\ root[req[p].old] # NoToken
      BY <1>2, <2>2 DEF F!Takes, F!Delivered, F!Rooted, F!ConsumeLabels
    <3>2. F!ChainHeld(p)' = root[req[p].old]
      BY <1>3, <2>2, <3>1 DEF F!Takes, F!ChainHeld, F!IssueLabels, ChainsKept
    <3> QED
      BY <2>2, <3>1, <3>2 DEF F!Takes
  <2> QED
    BY <1>1, <2>1, <2>2 DEF HoldersMove, F!HoldEffects
<1>8. RevocationsMove
  <2>1. ASSUME NEW r \in Procs, r # p
        PROVE  pc'[r] = pc[r] /\ req'[r] = req[r]
               /\ (pc[r] = "delRefresh" => req[r].op = "revokeAll")
    BY <1>2, <1>4, <2>1 DEF F!Delivered, F!RevokeLabels
  <2>2. /\ F!RevokeEffects(p)
        /\ pc[p] \in {"smembers", "delRefresh"} => req[p].op = "revokeAll"
    BY <1>1, <1>2 DEF F!Effects, F!Delivered, F!RevokeLabels
  <2> QED
    BY <2>1, <2>2 DEF RevocationsMove, F!RevokeEffects
<1> QED
  BY <1>3, <1>5, <1>6, <1>7, <1>8

LEMMA SessionStep ==
  ASSUME Basic, Facts, [ResetNext]_<<vars, resetVars>>
  PROVE  TokensKept /\ TokensDelivered /\ HoldersMove /\ RevocationsMove /\ ChainsKept
<1>1. /\ refreshCookie \subseteq Tokens /\ refresh \in [Tokens -> Users \cup {NoUser}]
      /\ \A r \in Procs : pc[r] = "delRefresh" => req[r].op = "revokeAll"
  BY FactParts DEF F!Delivered, F!RevokeLabels
<1>2. CASE UNCHANGED vars
  BY <1>1, <1>2
     DEF vars, TokensKept, TokensDelivered, HoldersMove, RevocationsMove, ChainsKept,
         F!Live, F!Holding, F!ChainHeld, F!Renews
<1>3. ASSUME NEW s \in Tokens, ExpireToken(s)
      PROVE  TokensKept /\ TokensDelivered /\ HoldersMove /\ RevocationsMove /\ ChainsKept
  <2>1. /\ \A t \in Tokens : refresh'[t] \in {refresh[t], NoUser}
        /\ UNCHANGED <<refreshCookie, pc, req, root, userSessions>>
    BY <1>1, <1>3 DEF ExpireToken, Expire, DelRefreshKey
  <2> QED
    BY <1>1, <2>1
       DEF TokensKept, TokensDelivered, HoldersMove, RevocationsMove, ChainsKept,
           F!Live, F!Holding, F!ChainHeld, F!Renews
<1>4. CASE CrashReset
  <2>1. /\ UNCHANGED <<refresh, refreshCookie, root>>
        /\ \A q \in Procs : pc'[q] = "idle"
    BY <1>4 DEF CrashReset
  <2> QED
    BY <2>1
       DEF TokensKept, TokensDelivered, HoldersMove, RevocationsMove, ChainsKept,
           F!Live, F!Holding, F!Renews, F!IssueLabels
<1>5. ASSUME NEW p \in Procs, ResetStep(p)
      PROVE  Moves(p) \/ UNCHANGED vars
  BY <1>5, RequestMoves
<1> QED
  BY <1>2, <1>3, <1>4, <1>5, RequestStep DEF ResetNext, ExpireLink

-----------------------------------------------------------------------------
(* What a step does to the history.                                        *)

LEMMA OverlappedGrows ==
  ASSUME Facts, Remember
  PROVE  /\ \A s \in AllOpen' : s \in overlapped => s \in overlapped'
         /\ \A q, r \in Procs :
              /\ F!Holding(q) /\ F!ChainHeld(q) \in AllOpen'
              /\ req[r].op = "revokeAll" /\ req[r].usr = req[q].usr
              => F!ChainHeld(q) \in overlapped'
<1>1. overlapped' = (overlapped \cup Overlapping) \cap AllOpen'
  BY DEF Remember, AllOpen
<1>2. ASSUME NEW q \in Procs, NEW r \in Procs, F!Holding(q),
             req[r].op = "revokeAll", req[r].usr = req[q].usr
      PROVE  F!ChainHeld(q) \in Overlapping
  <2>1. InFlight(q, req[r].usr) /\ ChainOf(q) = F!ChainHeld(q)
    BY <1>2, FlightHolds
  <2> QED
    BY <1>2, <2>1 DEF Overlapping
<1> QED
  BY <1>1, <1>2

LEMMA StaleGrows ==
  ASSUME Remember, NEW s \in stale'
  PROVE  s \in stale \/ \E u \in Users : password'[u] # password[u] /\ s \in Open(u)
  BY DEF Remember

LEMMA CutKept ==
  ASSUME Remember, NEW u \in cut
  PROVE  \/ u \in cut'
         \/ \E r \in Procs : pc[r] = "delRefresh" /\ pc'[r] = "delSet" /\ req[r].usr = u
  BY DEF Remember

(* A password is replaced by a Reset that goes on to revoke, or has failed. *)
LEMMA Replaced ==
  ASSUME Basic, ResetNext, NEW u \in Users, password'[u] # password[u]
  PROVE  \/ u \in cut'
         \/ \E r \in Procs : stage'[r] = "revoke" /\ account'[r] = u /\ pc'[r] = "smembers"
<1>1. PICK p \in Procs : UpdatePassword(p)
  BY DEF ResetNext, ResetStep, ResetRequest, StartReset, ConsumeLink, Revoke, Other,
         ExpireLink, ExpireToken, CrashReset
<1>2. account[p] = u /\ stage[p] = "update"
  <2>1. SetPassword(p) \/ UNCHANGED password
    BY <1>1 DEF UpdatePassword
  <2> QED
    BY <1>1, <2>1 DEF UpdatePassword, SetPassword, Basic, LinksInv, LinksTypeOK
<1>3. CASE UNCHANGED vars /\ stage'[p] = "none"
  <2>1. \A q \in Procs : ~(pc[q] = "delRefresh" /\ pc'[q] = "delSet")
    BY <1>3 DEF vars
  <2> QED
    BY <1>2, <1>3, <2>1 DEF ResetNext, Remember
<1> QED
  BY <1>1, <1>2, <1>3, UpdateMoves

(* A Reset that has not yet come to the end of its revocation goes on with *)
(* it, or breaks off.                                                      *)
LEMMA StillRevoking ==
  ASSUME Basic, ResetNext, NEW r \in Procs, stage[r] = "revoke", pc[r] # "delSet"
  PROVE  \/ account[r] \in cut'
         \/ stage'[r] = "revoke" /\ account'[r] = account[r]
<1>1. ASSUME stage'[r] = "none",
             \A q \in Procs : ~(pc[q] = "delRefresh" /\ pc'[q] = "delSet")
      PROVE  account[r] \in cut'
  BY <1>1 DEF ResetNext, Remember
<1>2. ASSUME NEW p \in Procs, ResetStep(p), p # r
      PROVE  stage'[r] = "revoke" /\ account'[r] = account[r]
  BY <1>2, StepOthers DEF OtherResets
<1>3. CASE ResetStep(r)
  <2>1. Revoke(r)
    BY <1>3 DEF ResetStep, ResetRequest, StartReset, ConsumeLink, UpdatePassword, Other, Idle
  <2>2. CASE UNCHANGED local
    BY <2>2 DEF local
  <2>3. CASE pc'[r] = "idle" /\ Answer(r)
    <3>1. stage'[r] = "none"
      BY <2>3, Answers DEF Basic, LinksInv
    <3>2. \A q \in Procs : ~(pc[q] = "delRefresh" /\ pc'[q] = "delSet")
      BY <1>3, <2>3, StepOthers
    <3> QED
      BY <1>1, <3>1, <3>2
  <2> QED
    BY <2>1, <2>2, <2>3 DEF Revoke
<1>4. CASE CrashReset
  BY <1>1, <1>4 DEF CrashReset
<1>5. ASSUME UNCHANGED local
      PROVE  stage'[r] = "revoke" /\ account'[r] = account[r]
  BY <1>5 DEF local
<1> QED
  BY <1>2, <1>3, <1>4, <1>5 DEF ResetNext, ExpireLink, ExpireToken

-----------------------------------------------------------------------------
(* Why the old sessions are out.                                           *)

(* A Reset for u is at one of these labels of its revocation. *)
Revoker(u, L) == \E r \in Procs : stage[r] = "revoke" /\ account[r] = u /\ pc[r] \in L

(* Tokens of logins that had a request in flight during a revocation. *)
Excused == {t \in Tokens : root[t] \in overlapped}

(* What a revocation is about to delete: all delivered tokens of its user. *)
Planned ==
  \A r \in Procs : pc[r] = "delRefresh" =>
    \A t \in refreshCookie :
      F!Live(t) /\ refresh[t] = req[r].usr => t \in req[r].todo \cup Excused

(* A delivered token of an old login will be deleted, an old login that is *)
(* held by a request is in flight during the revocation to come.           *)
OldTokens ==
  \A t \in refreshCookie :
    F!Live(t) /\ root[t] \in stale =>
      \/ root[t] \in overlapped
      \/ refresh[t] \in cut
      \/ Revoker(refresh[t], {"smembers", "delRefresh"})

OldFlights ==
  \A q \in Procs :
    F!Holding(q) /\ F!ChainHeld(q) \in stale =>
      \/ F!ChainHeld(q) \in overlapped
      \/ req[q].usr \in cut
      \/ Revoker(req[q].usr, F!RevokeLabels)

Swept == F!FoundBut(Excused) /\ Planned /\ OldTokens /\ OldFlights

(* A login that was open when u's password was replaced is u's.            *)
LEMMA OneUser ==
  ASSUME Facts, NEW u \in Users, NEW s \in Open(u)
  PROVE  /\ \A t \in refreshCookie : F!Live(t) /\ root[t] = s => refresh[t] = u
         /\ \A q \in Procs : F!Holding(q) /\ F!ChainHeld(q) = s => req[q].usr = u
<1>1. /\ F!HeldOnce /\ F!NoFork /\ F!Delivered /\ refreshCookie \subseteq Tokens
      /\ F!PairsAgree
  BY FactParts DEF Facts
<1>2. \/ \E t \in Tokens : refresh[t] = u /\ root[t] = s
      \/ \E q \in Procs : F!Holding(q) /\ req[q].usr = u /\ F!ChainHeld(q) = s
  BY FlightHolds DEF Open
<1>3. \A q \in Procs, t \in Tokens :
        F!Holding(q) /\ F!ChainHeld(q) = s /\ F!Live(t) /\ root[t] = s
        => t = req[q].new /\ t \notin refreshCookie /\ refresh[t] = req[q].usr
  BY <1>1 DEF F!HeldOnce, F!Delivered, F!PairsAgree, F!IssueLabels, F!Live
<1>4. CASE \E t \in Tokens : refresh[t] = u /\ root[t] = s
  <2>1. PICK t \in Tokens : refresh[t] = u /\ root[t] = s
    BY <1>4
  <2>2. F!Live(t)
    BY <2>1, NoUserAssumption DEF F!Live
  <2> QED
    BY <1>1, <1>3, <2>1, <2>2 DEF F!NoFork
<1>5. CASE \E q \in Procs : F!Holding(q) /\ req[q].usr = u /\ F!ChainHeld(q) = s
  BY <1>1, <1>3, <1>5 DEF F!HeldOnce
<1> QED
  BY <1>2, <1>4, <1>5

(* When the revocation of its user is through, a delivered token is dead   *)
(* or excused; when that of an old login breaks off, the user is cut.      *)
LEMMA SweptTokens ==
  ASSUME Basic, Basic', Facts, ResetNext, Planned, NEW t \in refreshCookie, F!Live(t),
         root[t] \in AllOpen', NEW u, u = refresh[t]
  PROVE  /\ u \in cut => root[t] \in overlapped' \/ u \in cut'
         /\ Revoker(u, {"smembers", "delRefresh"}) =>
              \/ root[t] \in overlapped'
              \/ u \in cut'
              \/ Revoker(u, {"smembers", "delRefresh"})'
<1>1. Remember /\ RevocationsMove /\ refreshCookie \subseteq Tokens
  BY SessionStep, FactParts DEF ResetNext
<1>2. ASSUME NEW r \in Procs, pc[r] = "delRefresh", pc'[r] = "delSet",
             req[r].usr = u
      PROVE  root[t] \in overlapped'
  <2>1. req[r].todo = {}
    BY <1>1, <1>2 DEF RevocationsMove
  <2>2. root[t] \in overlapped
    BY <1>1, <1>2, <2>1 DEF Planned, Excused
  <2> QED
    BY <1>1, <2>2, OverlappedGrows
<1>3. u \in cut => root[t] \in overlapped' \/ u \in cut'
  BY <1>1, <1>2, CutKept
<1>4. ASSUME NEW r \in Procs, stage[r] = "revoke", account[r] = u,
             pc[r] \in {"smembers", "delRefresh"}
      PROVE  \/ root[t] \in overlapped'
             \/ u \in cut'
             \/ Revoker(u, {"smembers", "delRefresh"})'
  <2>1. CASE account[r] \in cut'
    BY <1>4, <2>1
  <2>2. CASE stage'[r] = "revoke" /\ account'[r] = account[r]
    <3>1. pc'[r] \in {"smembers", "delRefresh", "delSet"}
      BY <2>2 DEF Basic, StageOK, F!RevokeLabels
    <3>2. CASE pc'[r] = "delSet"
      <4>1. pc[r] = "delRefresh" /\ req[r].usr = u
        BY <1>1, <1>4, <3>2 DEF RevocationsMove, Basic, StageOK
      <4> QED
        BY <1>2, <3>2, <4>1
    <3>3. CASE pc'[r] \in {"smembers", "delRefresh"}
      <4>1. \E q \in Procs : /\ stage'[q] = "revoke" /\ account'[q] = u
                             /\ pc'[q] \in {"smembers", "delRefresh"}
        BY <1>4, <2>2, <3>3
      <4> QED
        BY <4>1 DEF Revoker
    <3> QED
      BY <3>1, <3>2, <3>3
  <2> QED
    BY <1>4, <2>1, <2>2, StillRevoking
<1> QED
  BY <1>3, <1>4 DEF Revoker

(* A request that holds an old login overlaps the revocation, so that its  *)
(* login is excused by the next step.                                      *)
LEMMA SweptFlights ==
  ASSUME Basic, Facts, Remember, OldFlights, NEW q \in Procs, F!Holding(q),
         F!ChainHeld(q) \in AllOpen', F!ChainHeld(q) \in stale
  PROVE  F!ChainHeld(q) \in overlapped' \/ req[q].usr \in cut'
<1>1. ASSUME NEW r \in Procs, req[r].op = "revokeAll", req[r].usr = req[q].usr
      PROVE  F!ChainHeld(q) \in overlapped'
  BY <1>1, OverlappedGrows
<1>2. CASE F!ChainHeld(q) \in overlapped
  BY <1>2, OverlappedGrows
<1>3. CASE req[q].usr \in cut
  <2>1. ASSUME NEW r \in Procs, pc[r] = "delRefresh", req[r].usr = req[q].usr
        PROVE  F!ChainHeld(q) \in overlapped'
    BY <1>1, <2>1, FactParts DEF F!Delivered, F!RevokeLabels
  <2> QED
    BY <1>3, <2>1, CutKept
<1>4. CASE Revoker(req[q].usr, F!RevokeLabels)
  BY <1>1, <1>4 DEF Revoker, Basic, StageOK
<1> QED
  BY <1>2, <1>3, <1>4 DEF OldFlights

(* A login becomes old when its user's password is replaced. *)
LEMMA BecomesOld ==
  ASSUME Basic, ResetNext, NEW s \in stale', s \notin stale
  PROVE  \E u \in Users :
           /\ s \in Open(u)
           /\ u \in cut' \/ \E r \in Procs :
                stage'[r] = "revoke" /\ account'[r] = u /\ pc'[r] = "smembers"
<1>1. PICK u \in Users : password'[u] # password[u] /\ s \in Open(u)
  BY StaleGrows DEF ResetNext
<1> QED
  BY <1>1, Replaced

LEMMA OldFlightsNext ==
  ASSUME Basic, Basic', Facts, Facts', HistoryOK, Swept, ResetNext
  PROVE  OldFlights'
<1>1. /\ Remember /\ OpenOK /\ OpenOK' /\ HoldersMove /\ HistoryOK
  BY SessionStep, OpenLogins, OpenLoginsNext DEF ResetNext
<1>2. ASSUME NEW q \in Procs, F!Holding(q)', NEW s, s = F!ChainHeld(q)', s \in stale',
             NEW u, u = req'[q].usr
      PROVE  s \in overlapped' \/ u \in cut' \/ Revoker(u, F!RevokeLabels)'
  <2>1. s \in AllOpen' /\ s \in AllOpen
    <3>1. s \in AllOpen'
      BY <1>1, <1>2 DEF OpenOK
    <3>2. s \in stale \/ \E v \in Users : s \in Open(v)
      BY <1>1, <1>2, StaleGrows
    <3> QED
      BY <1>1, <3>1, <3>2 DEF HistoryOK, AllOpen
  <2>2. root[s] # NoToken
    BY <1>1, <2>1 DEF OpenOK
  <2>3. \/ F!Holding(q) /\ s = F!ChainHeld(q) /\ u = req[q].usr
        \/ \E t \in refreshCookie : F!Live(t) /\ root[t] = s /\ refresh[t] = u
    BY <1>1, <1>2, <2>2 DEF HoldersMove
  <2>4. CASE s \notin stale
    <3>1. PICK v \in Users :
            /\ s \in Open(v)
            /\ v \in cut' \/ \E r \in Procs :
                 stage'[r] = "revoke" /\ account'[r] = v /\ pc'[r] = "smembers"
      BY <1>2, <2>4, BecomesOld
    <3>2. v = u
      BY <2>3, <3>1, OneUser
    <3> QED
      BY <3>1, <3>2 DEF Revoker, F!RevokeLabels
  <2>5. CASE s \in stale /\ F!Holding(q) /\ s = F!ChainHeld(q) /\ u = req[q].usr
    BY <1>1, <2>1, <2>5, SweptFlights DEF Swept
  <2>6. CASE s \in stale
             /\ \E t \in refreshCookie : F!Live(t) /\ root[t] = s /\ refresh[t] = u
    <3>1. PICK t \in refreshCookie : F!Live(t) /\ root[t] = s /\ refresh[t] = u
      BY <2>6
    <3>2. \/ s \in overlapped
          \/ u \in cut
          \/ Revoker(u, {"smembers", "delRefresh"})
      BY <2>6, <3>1 DEF Swept, OldTokens
    <3>3. \/ s \in overlapped'
          \/ u \in cut'
          \/ Revoker(u, {"smembers", "delRefresh"})'
      BY <1>1, <2>1, <3>1, <3>2, OverlappedGrows, SweptTokens DEF Swept
    <3> QED
      BY <3>3 DEF Revoker, F!RevokeLabels
  <2> QED
    BY <2>3, <2>4, <2>5, <2>6
<1>3. ASSUME NEW q \in Procs, F!Holding(q)', F!ChainHeld(q)' \in stale'
      PROVE  \/ F!ChainHeld(q)' \in overlapped'
             \/ req'[q].usr \in cut'
             \/ Revoker(req[q].usr, F!RevokeLabels)'
  <2>1. PICK s, u : s = F!ChainHeld(q)' /\ u = req'[q].usr
    OBVIOUS
  <2>2. s \in overlapped' \/ u \in cut' \/ Revoker(u, F!RevokeLabels)'
    BY <1>2, <1>3, <2>1
  <2> QED
    BY <2>1, <2>2 DEF Revoker
<1> QED
  BY <1>3 DEF OldFlights

LEMMA OldTokensNext ==
  ASSUME Basic, Basic', Facts, Facts', HistoryOK, Swept, ResetNext
  PROVE  OldTokens'
<1>1. /\ Remember /\ OpenOK /\ OpenOK' /\ HistoryOK
      /\ TokensKept /\ TokensDelivered /\ ChainsKept
      /\ refreshCookie \subseteq Tokens /\ refreshCookie' \subseteq Tokens
      /\ F!Rooted /\ F!HeldOnce
  BY SessionStep, OpenLogins, OpenLoginsNext, FactParts
     DEF ResetNext, Basic, F!Typed, F!TypeOK, Facts
<1>2. ASSUME NEW t \in refreshCookie', F!Live(t)', NEW s, s = root'[t], s \in stale',
             NEW u, u = refresh'[t]
      PROVE  s \in overlapped' \/ u \in cut' \/ Revoker(u, {"smembers", "delRefresh"})'
  <2>1. s \in AllOpen'
    BY <1>1, <1>2 DEF OpenOK
  <2>2. CASE t \in refreshCookie
    <3>1. F!Live(t) /\ root[t] = s /\ refresh[t] = u
      BY <1>1, <1>2, <2>2 DEF TokensKept, ChainsKept, F!Rooted
    <3>2. CASE s \notin stale
      <4>1. PICK v \in Users :
              /\ s \in Open(v)
              /\ v \in cut' \/ \E r \in Procs :
                   stage'[r] = "revoke" /\ account'[r] = v /\ pc'[r] = "smembers"
        BY <1>2, <3>2, BecomesOld
      <4>2. v = u
        BY <2>2, <3>1, <4>1, OneUser
      <4> QED
        BY <4>1, <4>2 DEF Revoker
    <3>3. CASE s \in stale
      <4>1. \/ s \in overlapped
            \/ u \in cut
            \/ Revoker(u, {"smembers", "delRefresh"})
        BY <2>2, <3>1, <3>3 DEF Swept, OldTokens
      <4> QED
        BY <1>1, <2>1, <2>2, <3>1, <4>1, OverlappedGrows, SweptTokens DEF Swept
    <3> QED
      BY <3>2, <3>3
  <2>3. CASE t \notin refreshCookie
    <3>1. PICK q \in Procs :
            /\ pc[q] \in {"sadd", "setSession"} /\ req[q].new = t
            /\ refresh[t] = req[q].usr /\ refresh'[t] = refresh[t]
      BY <1>1, <1>2, <2>3 DEF TokensDelivered
    <3>2. /\ F!Holding(q) /\ F!ChainHeld(q) = s /\ req[q].usr = u
      <4>1. root[t] # NoToken /\ t \in Tokens
        BY <1>1, <1>2, <3>1 DEF F!Rooted, F!IssueLabels
      <4> QED
        BY <1>1, <1>2, <3>1, <4>1 DEF F!Holding, F!ChainHeld, F!IssueLabels, ChainsKept
    <3>3. CASE s \notin stale
      <4>1. PICK v \in Users :
              /\ s \in Open(v)
              /\ v \in cut' \/ \E r \in Procs :
                   stage'[r] = "revoke" /\ account'[r] = v /\ pc'[r] = "smembers"
        BY <1>2, <3>3, BecomesOld
      <4>2. v = u
        BY <3>2, <4>1, OneUser
      <4> QED
        BY <4>1, <4>2 DEF Revoker
    <3>4. CASE s \in stale
      BY <1>1, <2>1, <3>2, <3>4, SweptFlights DEF Swept
    <3> QED
      BY <3>3, <3>4
  <2> QED
    BY <2>2, <2>3
<1>3. ASSUME NEW t \in refreshCookie', F!Live(t)', root'[t] \in stale'
      PROVE  \/ root'[t] \in overlapped'
             \/ refresh'[t] \in cut'
             \/ Revoker(refresh[t], {"smembers", "delRefresh"})'
  <2>1. PICK s, u : s = root'[t] /\ u = refresh'[t]
    OBVIOUS
  <2>2. s \in overlapped' \/ u \in cut' \/ Revoker(u, {"smembers", "delRefresh"})'
    BY <1>2, <1>3, <2>1
  <2> QED
    BY <2>1, <2>2 DEF Revoker
<1> QED
  BY <1>3 DEF OldTokens

LEMMA PlannedNext ==
  ASSUME Basic, Facts, Facts', Swept, ResetNext
  PROVE  Planned'
<1>1. /\ Remember /\ OpenOK'
      /\ TokensKept /\ TokensDelivered /\ ChainsKept /\ RevocationsMove
      /\ refreshCookie \subseteq Tokens /\ refreshCookie' \subseteq Tokens
      /\ F!Rooted
  BY SessionStep, OpenLoginsNext, FactParts
     DEF ResetNext, Facts, F!Sound, F!SessionInv, F!ChainInv, F!Typed, F!TypeOK
<1>2. ASSUME NEW r \in Procs, pc'[r] = "delRefresh", NEW t \in refreshCookie',
             F!Live(t)', refresh'[t] = req'[r].usr
      PROVE  t \in req'[r].todo \/ root'[t] \in overlapped'
  <2>1. root'[t] \in AllOpen' /\ t \in Tokens
    BY <1>1, <1>2 DEF OpenOK
  <2>2. CASE t \in refreshCookie
    <3>1. F!Live(t) /\ root'[t] = root[t] /\ refresh[t] = req[r].usr
      BY <1>1, <1>2, <2>2 DEF TokensKept, ChainsKept, F!Rooted, RevocationsMove
    <3>2. t \in req'[r].todo \/ t \in Excused
      <4>1. CASE pc[r] = "smembers" /\ req'[r].todo = userSessions[req[r].usr]
        BY <2>1, <2>2, <3>1, <4>1 DEF Swept, F!FoundBut, F!HandsOut
      <4>2. CASE /\ pc[r] = "delRefresh"
                 /\ \A x \in req[r].todo : x \in req'[r].todo \/ refresh'[x] = NoUser
        BY <1>2, <2>2, <3>1, <4>2 DEF Swept, Planned, F!Live
      <4> QED
        BY <1>1, <1>2, <4>1, <4>2 DEF RevocationsMove
    <3> QED
      BY <1>1, <2>1, <3>1, <3>2, OverlappedGrows DEF Excused
  <2>3. CASE t \notin refreshCookie
    <3>1. PICK q \in Procs :
            /\ pc[q] \in {"sadd", "setSession"} /\ req[q].new = t
            /\ refresh[t] = req[q].usr /\ refresh'[t] = refresh[t]
      BY <1>1, <1>2, <2>3 DEF TokensDelivered
    <3>2. F!Holding(q) /\ F!ChainHeld(q) = root'[t]
      <4>1. root[t] # NoToken
        BY <1>1, <3>1 DEF F!Rooted, F!IssueLabels
      <4> QED
        BY <1>1, <2>1, <3>1, <4>1 DEF F!Holding, F!ChainHeld, F!IssueLabels, ChainsKept
    <3>3. req[r].op = "revokeAll" /\ req[r].usr = req[q].usr
      BY <1>1, <1>2, <3>1 DEF RevocationsMove
    <3> QED
      BY <1>1, <2>1, <3>2, <3>3, OverlappedGrows
  <2> QED
    BY <2>2, <2>3
<1>3. ASSUME NEW r \in Procs, pc'[r] = "delRefresh", NEW t \in refreshCookie',
             F!Live(t)', refresh'[t] = req'[r].usr
      PROVE  t \in req'[r].todo \cup Excused'
  BY <1>1, <1>2, <1>3 DEF Excused
<1> QED
  BY <1>3 DEF Planned

LEMMA ResetFindsNext ==
  ASSUME Basic, Facts, Facts', HistoryOK, Swept, ResetNext
  PROVE  F!FoundBut(Excused)'
<1> USE NoUserAssumption, NoTokenAssumption
<1>1. /\ Remember /\ OpenOK /\ OpenOK' /\ ChainsKept /\ F!Rooted
      /\ refreshCookie \subseteq Tokens /\ userSessions \in [Users -> SUBSET Tokens]
      /\ refresh \in [Tokens -> Users \cup {NoUser}]
      /\ \A q \in Procs : /\ pc[q] \in F!IssueLabels => req[q].new \in Tokens
                          /\ pc[q] \in F!UserLabels => req[q].usr \in Users
      /\ F!FoundBut(Excused)
  BY SessionStep, OpenLogins, OpenLoginsNext, FactParts DEF ResetNext, Swept
<1>2. ASSUME NEW t \in Excused, F!Live(t)'
      PROVE  t \in Excused'
  <2>1. t \in Tokens /\ root[t] \in overlapped /\ root'[t] \in AllOpen'
    BY <1>1, <1>2 DEF Excused, OpenOK
  <2>2. root[t] # NoToken
    BY <1>1, <2>1 DEF HistoryOK, OpenOK
  <2> QED
    BY <1>1, <2>1, <2>2, OverlappedGrows DEF Excused, ChainsKept
<1>3. ASSUME NEW p \in Procs, Moves(p)
      PROVE  F!FoundBut(Excused)'
  <2>1. F!Sound /\ F!Sound' /\ F!Effects(p)
    BY <1>3, F!StartEffects, F!StepEffects DEF Facts, Moves
  <2>2. ASSUME NEW r \in Procs, F!Tracks(p), pc[r] \in {"delRefresh", "delSet"},
               req[r].usr = req[p].usr, refresh'[req[p].new] # NoUser
        PROVE  req[p].new \in Excused'
    <3>1. /\ F!Holding(p) /\ F!ChainHeld(p) = root[req[p].new]
          /\ req[p].new \in Tokens /\ root[req[p].new] # NoToken
      BY <1>1, <2>2 DEF F!Tracks, F!Holding, F!ChainHeld, F!Rooted, F!IssueLabels
    <3>2. root'[req[p].new] = root[req[p].new] /\ root'[req[p].new] \in AllOpen'
      BY <1>1, <2>2, <3>1 DEF ChainsKept, OpenOK, F!Live
    <3>3. req[r].op = "revokeAll"
      BY <2>2, FactParts DEF F!Delivered, F!RevokeLabels
    <3>4. root[req[p].new] \in overlapped'
      BY <1>1, <2>2, <3>1, <3>2, <3>3, OverlappedGrows
    <3> QED
      BY <3>1, <3>2, <3>4 DEF Excused
  <2>3. PICK E, G : E = Excused /\ G = Excused'
    OBVIOUS
  <2>4. F!FoundBut(G)'
    BY <1>1, <1>2, <2>1, <2>2, <2>3, F!FoundStep
  <2> QED
    BY <2>3, <2>4 DEF F!FoundBut
<1>4. ASSUME /\ UNCHANGED <<userSessions, refreshCookie>>
             /\ \A t \in Tokens : refresh'[t] \in {refresh[t], NoUser}
             /\ \A q \in Procs : \/ pc'[q] = "idle"
                               \/ (pc'[q] = pc[q] /\ req'[q] = req[q])
      PROVE  F!FoundBut(Excused)'
  <2>1. \A t \in Tokens : F!HandsOut(t)' => F!HandsOut(t)
    BY <1>4 DEF F!HandsOut
  <2>2. \A t \in Tokens : F!Live(t)' => F!Live(t) /\ refresh'[t] = refresh[t]
    BY <1>4 DEF F!Live
  <2>3. \A r \in Procs : pc[r] \in {"delRefresh", "delSet"} =>
          userSessions[req[r].usr] \subseteq Tokens
    BY <1>1 DEF F!UserLabels
  <2>4. ASSUME NEW t \in Tokens, F!HandsOut(t)', F!Live(t)'
        PROVE  t \in userSessions'[refresh'[t]] \cup Excused'
    BY <1>1, <1>2, <1>4, <2>1, <2>2, <2>4 DEF F!FoundBut
  <2>5. ASSUME NEW r \in Procs, pc'[r] \in {"delRefresh", "delSet"},
               NEW t \in userSessions'[req'[r].usr], F!Live(t)'
        PROVE  t \in req'[r].todo \cup Excused'
    <3>1. pc'[r] = pc[r] /\ req'[r] = req[r]
      BY <1>4, <2>5
    <3>2. t \in Tokens /\ F!Live(t)
      BY <1>4, <2>2, <2>3, <2>5, <3>1
    <3>3. t \in req[r].todo \cup Excused
      BY <1>1, <1>4, <2>5, <3>1, <3>2 DEF F!FoundBut
    <3> QED
      BY <1>2, <2>5, <3>1, <3>3
  <2> QED
    BY <2>4, <2>5 DEF F!FoundBut
<1>5. CASE UNCHANGED vars
  BY <1>4, <1>5 DEF vars
<1>6. ASSUME NEW s \in Tokens, ExpireToken(s)
      PROVE  F!FoundBut(Excused)'
  BY <1>1, <1>4, <1>6 DEF ExpireToken, Expire, DelRefreshKey
<1>7. CASE CrashReset
  <2>1. /\ UNCHANGED <<refresh, userSessions, refreshCookie>>
        /\ \A q \in Procs : pc'[q] = "idle"
    BY <1>7 DEF CrashReset
  <2> QED
    BY <1>4, <2>1
<1>8. ASSUME NEW p \in Procs, ResetStep(p)
      PROVE  Moves(p) \/ UNCHANGED vars
  BY <1>8, RequestMoves
<1> QED
  BY <1>3, <1>5, <1>6, <1>7, <1>8 DEF ResetNext, ExpireLink

LEMMA SweptStill ==
  ASSUME Swept, UNCHANGED <<vars, resetVars>>
  PROVE  Swept'
  BY DEF Swept, vars, resetVars, local, audit, F!FoundBut, F!HandsOut, F!Live, Excused,
         Planned, OldTokens, OldFlights, Revoker, F!Holding, F!ChainHeld, F!Renews

LEMMA SweptInvariant == ResetSpec => []Swept
<1>1. ResetInit => Swept
  BY DEF ResetInit, Init, StoreInit, Swept, F!FoundBut, F!HandsOut, F!Live, Planned,
         OldTokens, OldFlights
<1>2. /\ Basic /\ Basic' /\ Facts /\ Facts' /\ HistoryOK /\ Swept
      /\ [ResetNext]_<<vars, resetVars>>
      => Swept'
  <2>1. ASSUME Basic, Basic', Facts, Facts', HistoryOK, Swept, ResetNext
        PROVE  Swept'
    BY <2>1, ResetFindsNext, PlannedNext, OldTokensNext, OldFlightsNext DEF Swept
  <2> QED
    BY <2>1, SweptStill
<1> QED
  BY <1>1, <1>2, BasicInvariant, FactsInvariant, HistoryInvariant, PTL DEF ResetSpec

(* password-management/spec.md, "invalidates all existing sessions": once  *)
(* the Reset that replaced a password has answered, no delivered token of  *)
(* a login that was let in under the old one can be exchanged, unless a    *)
(* request of that login overlapped a revocation or the revocation broke   *)
(* off.                                                                    *)
THEOREM OldSessionsOut == ResetSpec => []OldSessionsAreOut
<1>1. Facts /\ Swept => OldSessionsAreOut
  <2> SUFFICES ASSUME Facts, Swept, NEW t \in refreshCookie, Live(t), root[t] \in stale
               PROVE  \/ \E p \in Procs : stage[p] = "revoke" /\ account[p] = refresh[t]
                      \/ root[t] \in overlapped
                      \/ refresh[t] \in cut
    BY DEF OldSessionsAreOut
  <2> QED
    BY DEF Swept, OldTokens, Revoker, Live, F!Live
<1> QED
  BY <1>1, FactsInvariant, SweptInvariant, PTL

=============================================================================
