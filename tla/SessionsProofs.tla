--------------------------- MODULE SessionsProofs ---------------------------
(* Theorems about module Sessions, for any sets of users, tokens and       *)
(* goroutines, with or without failures: its invariants, and that it       *)
(* implements SessionLifecycle.                                            *)
EXTENDS SessionsRefinement, TLAPS

(* The labels at which the handler has a token pair in hand, and those at  *)
(* which it knows its user.                                                *)
IssueLabels == {"setRefresh", "sadd", "setSession"}
ConsumeLabels == {"getdel", "srem", "findUser"}
UserLabels == IssueLabels \cup {"srem", "findUser", "smembers", "delRefresh", "delSet"}

(* A handler's locals are set when the label it is at needs them. *)
LocalsOK ==
  \A p \in Procs :
    /\ pc[p] \in IssueLabels => req[p].new \in Tokens
    /\ pc[p] \in ConsumeLabels => req[p].old \in Tokens
    /\ pc[p] \in UserLabels => req[p].usr \in Users

Typed == TypeOK /\ LocalsOK

LEMMA TypedInit == Init => Typed
  BY NoUserAssumption, NoTokenAssumption
     DEF Init, StoreInit, Typed, TypeOK, StoreTypeOK, LocalsOK, NoRequest,
         Requests, Ops, Labels, IssueLabels, ConsumeLabels, UserLabels

(* The handler at p begins with locals r, or goes on with locals r. *)
LEMMA TypedProcess ==
  ASSUME Typed, NEW p \in Procs, NEW r \in Requests, NEW label \in Labels,
         label \in IssueLabels => r.new \in Tokens,
         label \in ConsumeLabels => r.old \in Tokens,
         label \in UserLabels => r.usr \in Users,
         pc' = [pc EXCEPT ![p] = label],
         req' = [req EXCEPT ![p] = r]
  PROVE  pc' \in [Procs -> Labels] /\ req' \in [Procs -> Requests] /\ LocalsOK'
<1>1. pc' \in [Procs -> Labels] /\ req' \in [Procs -> Requests]
  BY DEF Typed, TypeOK
<1>2. ASSUME NEW q \in Procs
      PROVE  /\ pc'[q] \in IssueLabels => req'[q].new \in Tokens
             /\ pc'[q] \in ConsumeLabels => req'[q].old \in Tokens
             /\ pc'[q] \in UserLabels => req'[q].usr \in Users
  <2>1. CASE q = p
    BY <2>1 DEF Typed, TypeOK
  <2>2. CASE q # p
    BY <2>2 DEF Typed, TypeOK, LocalsOK
  <2> QED
    BY <2>1, <2>2
<1> QED
  BY <1>1, <1>2 DEF LocalsOK

LEMMA TypedGoto ==
  ASSUME Typed, NEW p \in Procs, NEW label \in Labels,
         label \in IssueLabels => req[p].new \in Tokens,
         label \in ConsumeLabels => req[p].old \in Tokens,
         label \in UserLabels => req[p].usr \in Users,
         Goto(p, label), UNCHANGED req
  PROVE  pc' \in [Procs -> Labels] /\ req' \in [Procs -> Requests] /\ LocalsOK'
<1>1. req[p] \in Requests /\ req' = [req EXCEPT ![p] = req[p]]
  BY DEF Typed, TypeOK
<1> QED
  BY <1>1, TypedProcess DEF Goto

LEMMA TypedFinish ==
  ASSUME Typed, NEW p \in Procs, Finish(p)
  PROVE  pc' \in [Procs -> Labels] /\ req' \in [Procs -> Requests] /\ LocalsOK'
<1>1. NoRequest \in Requests
  BY DEF Requests, NoRequest, Ops
<1> QED
  BY <1>1, TypedProcess
     DEF Finish, Goto, Labels, IssueLabels, ConsumeLabels, UserLabels

LEMMA TypedStart ==
  ASSUME Typed, NEW p \in Procs, Start(p)
  PROVE  Typed'
<1>1. ASSUME NEW r \in Requests, NEW label \in Labels, Begin(p, r, label),
             label \in IssueLabels => r.new \in Tokens,
             label \in ConsumeLabels => r.old \in Tokens,
             label \in UserLabels => r.usr \in Users,
             UNCHANGED <<refresh, userSessions, sso, refreshCookie, ssoCookie, revoked>>,
             root' \in [Tokens -> Tokens \cup {NoToken}]
      PROVE  Typed'
  <2>1. pc' \in [Procs -> Labels] /\ req' \in [Procs -> Requests] /\ LocalsOK'
    BY <1>1, TypedProcess DEF Begin, Goto
  <2> QED
    BY <1>1, <2>1 DEF Typed, TypeOK, StoreTypeOK
<1>2. CASE StartLogin(p)
  <2>1. PICK op \in {"login", "verify"}, u \in Users, t \in Tokens :
          /\ Begin(p, [NoRequest EXCEPT !.op = op, !.usr = u, !.new = t], "setRefresh")
          /\ root' = [root EXCEPT ![t] = t]
          /\ UNCHANGED <<refresh, userSessions, sso, refreshCookie, ssoCookie, revoked>>
    BY <1>2 DEF StartLogin
  <2> DEFINE r == [NoRequest EXCEPT !.op = op, !.usr = u, !.new = t]
  <2>2. r \in Requests /\ r.new \in Tokens /\ r.usr \in Users
    BY DEF Requests, NoRequest, Ops
  <2>3. root' \in [Tokens -> Tokens \cup {NoToken}]
    BY <2>1 DEF Typed, TypeOK
  <2>4. Begin(p, r, "setRefresh")
    BY <2>1
  <2> HIDE DEF r
  <2> QED
    BY <1>1, <2>1, <2>2, <2>3, <2>4 DEF Labels, IssueLabels, ConsumeLabels
<1>3. CASE StartRefresh(p)
  <2>1. PICK t \in refreshCookie :
          /\ Begin(p, [NoRequest EXCEPT !.op = "refresh", !.old = t], "getdel")
          /\ UNCHANGED <<refresh, userSessions, sso, refreshCookie, ssoCookie, root,
                         revoked>>
    BY <1>3 DEF StartRefresh
  <2> DEFINE r == [NoRequest EXCEPT !.op = "refresh", !.old = t]
  <2>2. r \in Requests /\ r.old \in Tokens
    BY DEF Requests, NoRequest, Ops, Typed, TypeOK
  <2>3. Begin(p, r, "getdel")
    BY <2>1
  <2> HIDE DEF r
  <2> QED
    BY <1>1, <2>1, <2>2, <2>3
       DEF Labels, IssueLabels, UserLabels, Typed, TypeOK
<1>4. CASE StartLogout(p)
  <2>1. PICK t \in refreshCookie \cup {NoToken}, s \in ssoCookie \cup {NoToken} :
          /\ Begin(p, [NoRequest EXCEPT !.op = "logout", !.old = t, !.sess = s],
                   IF t = NoToken THEN "delSession" ELSE "getdel")
          /\ UNCHANGED <<refresh, userSessions, sso, refreshCookie, ssoCookie, root,
                         revoked>>
    BY <1>4 DEF StartLogout
  <2> DEFINE r == [NoRequest EXCEPT !.op = "logout", !.old = t, !.sess = s]
             label == IF t = NoToken THEN "delSession" ELSE "getdel"
  <2>2. r \in Requests /\ (label = "getdel" => r.old \in Tokens)
    BY DEF Requests, NoRequest, Ops, Typed, TypeOK
  <2>3. Begin(p, r, label) /\ label \in {"delSession", "getdel"}
    BY <2>1
  <2> HIDE DEF r, label
  <2> QED
    BY <1>1, <2>1, <2>2, <2>3
       DEF Labels, IssueLabels, ConsumeLabels, UserLabels, Typed, TypeOK
<1>5. CASE StartRevokeAll(p)
  <2>1. PICK u \in Users :
          /\ Begin(p, [NoRequest EXCEPT !.op = "revokeAll", !.usr = u], "smembers")
          /\ UNCHANGED <<refresh, userSessions, sso, refreshCookie, ssoCookie, root,
                         revoked>>
    BY <1>5 DEF StartRevokeAll
  <2> DEFINE r == [NoRequest EXCEPT !.op = "revokeAll", !.usr = u]
  <2>2. r \in Requests /\ r.usr \in Users
    BY DEF Requests, NoRequest, Ops
  <2>3. Begin(p, r, "smembers")
    BY <2>1
  <2> HIDE DEF r
  <2> QED
    BY <1>1, <2>1, <2>2, <2>3
       DEF Labels, IssueLabels, ConsumeLabels, Typed, TypeOK
<1> QED
  BY <1>2, <1>3, <1>4, <1>5 DEF Start

(* The steps of a handler: the store keeps its type, and TypedProcess,     *)
(* TypedGoto or TypedFinish gives the rest.                                *)
LEMMA TypedStep ==
  ASSUME Typed, NEW p \in Procs, Step(p)
  PROVE  Typed'
<1> DEFINE Control == pc' \in [Procs -> Labels] /\ req' \in [Procs -> Requests] /\ LocalsOK'
           Store == /\ StoreTypeOK'
                    /\ refreshCookie' \subseteq Tokens
                    /\ ssoCookie' \subseteq Tokens
                    /\ root' \in [Tokens -> Tokens \cup {NoToken}]
                    /\ revoked' \subseteq Tokens
<1>a. /\ Finish(p) => Control
      /\ NotConsumed(p) => Control
  BY TypedFinish, TypedGoto
     DEF NotConsumed, Labels, IssueLabels, ConsumeLabels, UserLabels
<1>b. /\ pc[p] \in UserLabels => req[p].usr \in Users
      /\ pc[p] \in IssueLabels => req[p].new \in Tokens
      /\ pc[p] \in ConsumeLabels => req[p].old \in Tokens
      /\ req[p] \in Requests
  BY DEF Typed, TypeOK, LocalsOK
<1>1. CASE SetRefresh(p)
  <2>1. Store
    BY <1>1, <1>b
       DEF SetRefresh, SetRefreshKey, Typed, TypeOK, StoreTypeOK, UserLabels, IssueLabels
  <2>2. Control
    BY <1>1, <1>a, <1>b, TypedGoto
       DEF SetRefresh, Labels, IssueLabels, ConsumeLabels, UserLabels
  <2> QED
    BY <2>1, <2>2 DEF Typed, TypeOK
<1>2. CASE TrackSession(p)
  <2>1. Store
    BY <1>2, <1>b
       DEF TrackSession, AfterStore, AddUserSession, Typed, TypeOK, StoreTypeOK,
           UserLabels, IssueLabels
  <2>2. Control
    BY <1>2, <1>a, <1>b, TypedGoto
       DEF TrackSession, AfterStore, Labels, IssueLabels, ConsumeLabels, UserLabels
  <2> QED
    BY <2>1, <2>2 DEF Typed, TypeOK
<1>3. CASE SetSession(p)
  <2>1. Store
    BY <1>3, <1>b
       DEF SetSession, SetSessionKey, Typed, TypeOK, StoreTypeOK, UserLabels, IssueLabels
  <2> QED
    BY <1>3, <1>a, <2>1 DEF SetSession, Typed, TypeOK
<1>4. CASE GetDel(p)
  <2>1. Store
    BY <1>4
       DEF GetDel, GetDelRefreshKey, DelRefreshKey, Typed, TypeOK, StoreTypeOK
  <2>2. CASE NotConsumed(p)
    BY <1>a, <2>1, <2>2 DEF Typed, TypeOK
  <2>3. CASE /\ Live(req[p].old) /\ Goto(p, "srem")
              /\ req' = [req EXCEPT ![p].usr = refresh[req[p].old]]
    <3> DEFINE u == refresh[req[p].old]
               r == [req[p] EXCEPT !.usr = u]
    <3>1. req[p].old \in Tokens /\ u \in Users
      BY <1>4, <1>b, <2>3 DEF GetDel, Live, Typed, TypeOK, StoreTypeOK, ConsumeLabels
    <3>2. r \in Requests /\ r.usr \in Users /\ r.old \in Tokens
      BY <1>b, <3>1 DEF Requests
    <3>3. req' = [req EXCEPT ![p] = r]
      BY <2>3
    <3> HIDE DEF r
    <3>4. Control
      BY <2>3, <3>2, <3>3, TypedProcess DEF Goto, Labels, IssueLabels
    <3> QED
      BY <2>1, <3>4 DEF Typed, TypeOK
  <2> QED
    BY <1>4, <2>2, <2>3 DEF GetDel
<1>5. CASE Untrack(p)
  <2>1. Store
    BY <1>5 DEF Untrack, RemUserSession, Typed, TypeOK, StoreTypeOK
  <2> DEFINE label == IF req[p].op = "refresh" THEN "findUser" ELSE "delSession"
  <2>2. /\ label \in {"findUser", "delSession"}
        /\ Goto(p, label)
        /\ UNCHANGED req
        /\ req[p].usr \in Users
        /\ req[p].old \in Tokens
    BY <1>5, <1>b DEF Untrack, ConsumeLabels, UserLabels
  <2> HIDE DEF label
  <2>3. Control
    BY <2>2, TypedGoto DEF Labels, IssueLabels, ConsumeLabels, UserLabels
  <2> QED
    BY <2>1, <2>3 DEF Typed, TypeOK
<1>6. CASE FindUser(p)
  <2>1. CASE Finish(p) /\ UNCHANGED root
    BY <1>6, <1>a, <2>1 DEF FindUser, Typed, TypeOK, StoreTypeOK
  <2>2. ASSUME NEW t \in Tokens,
               req' = [req EXCEPT ![p].new = t],
               root' = [root EXCEPT ![t] = root[req[p].old]],
               Goto(p, "setRefresh")
        PROVE  Typed'
    <3> DEFINE r == [req[p] EXCEPT !.new = t]
    <3>1. req[p].old \in Tokens /\ req[p].usr \in Users
      BY <1>6, <1>b DEF FindUser, ConsumeLabels, UserLabels
    <3>2. root' \in [Tokens -> Tokens \cup {NoToken}]
      BY <2>2, <3>1 DEF Typed, TypeOK
    <3>3. r \in Requests /\ r.new \in Tokens /\ r.usr \in Users
      BY <1>b, <3>1 DEF Requests
    <3>4. req' = [req EXCEPT ![p] = r]
      BY <2>2
    <3> HIDE DEF r
    <3>5. Control
      BY <2>2, <3>3, <3>4, TypedProcess DEF Goto, Labels, ConsumeLabels
    <3> QED
      BY <1>6, <3>2, <3>5 DEF FindUser, Typed, TypeOK, StoreTypeOK
  <2> QED
    BY <1>6, <2>1, <2>2 DEF FindUser
<1>7. CASE DelSession(p)
  <2>1. Store
    BY <1>7 DEF DelSession, DelSessionKey, Typed, TypeOK, StoreTypeOK
  <2> QED
    BY <1>7, <1>a, <2>1 DEF DelSession, Typed, TypeOK
<1>8. CASE SMembers(p)
  <2>1. Store
    BY <1>8 DEF SMembers, Typed, TypeOK, StoreTypeOK
  <2>2. CASE Finish(p)
    BY <1>a, <2>1, <2>2 DEF Typed, TypeOK
  <2>3. CASE /\ req' = [req EXCEPT ![p].todo = userSessions[req[p].usr]]
             /\ Goto(p, "delRefresh")
    <3> DEFINE r == [req[p] EXCEPT !.todo = userSessions[req[p].usr]]
    <3>1. req[p].usr \in Users
      BY <1>8, <1>b DEF SMembers, UserLabels
    <3>2. r \in Requests /\ r.usr \in Users
      BY <1>b, <3>1 DEF Requests, Typed, TypeOK, StoreTypeOK
    <3>3. req' = [req EXCEPT ![p] = r]
      BY <2>3
    <3> HIDE DEF r
    <3>4. Control
      BY <2>3, <3>2, <3>3, TypedProcess DEF Goto, Labels, IssueLabels, ConsumeLabels
    <3> QED
      BY <2>1, <3>4 DEF Typed, TypeOK
  <2> QED
    BY <1>8, <2>2, <2>3 DEF SMembers
<1>9. CASE DelRefresh(p)
  <2>1. Store
    BY <1>9, <1>b
       DEF DelRefresh, DelRefreshKey, Requests, Typed, TypeOK, StoreTypeOK
  <2>2. CASE Finish(p)
    BY <1>a, <2>1, <2>2 DEF Typed, TypeOK
  <2>3. CASE Goto(p, "delSet") /\ UNCHANGED req
    <3>1. req[p].usr \in Users
      BY <1>9, <1>b DEF DelRefresh, UserLabels
    <3>2. Control
      BY <2>3, <3>1, TypedGoto DEF Labels, IssueLabels, ConsumeLabels
    <3> QED
      BY <2>1, <3>2 DEF Typed, TypeOK
  <2>4. ASSUME NEW t \in req[p].todo, req' = [req EXCEPT ![p].todo = @ \ {t}], UNCHANGED pc
        PROVE  Typed'
    <3> DEFINE r == [req[p] EXCEPT !.todo = @ \ {t}]
    <3>1. r \in Requests /\ r.usr \in Users
      BY <1>9, <1>b DEF DelRefresh, UserLabels, Requests
    <3>2. req' = [req EXCEPT ![p] = r] /\ pc' = [pc EXCEPT ![p] = "delRefresh"]
      BY <1>9, <2>4 DEF DelRefresh, Typed, TypeOK
    <3> HIDE DEF r
    <3>3. Control
      BY <3>1, <3>2, TypedProcess DEF Labels, IssueLabels, ConsumeLabels
    <3> QED
      BY <2>1, <3>3 DEF Typed, TypeOK
  <2> QED
    BY <1>9, <2>2, <2>3, <2>4 DEF DelRefresh
<1>10. CASE DelSet(p)
  <2>1. Store
    BY <1>10 DEF DelSet, DelUserSessions, Typed, TypeOK, StoreTypeOK
  <2> QED
    BY <1>10, <1>a, <2>1 DEF DelSet, Typed, TypeOK
<1> QED
  BY <1>1, <1>2, <1>3, <1>4, <1>5, <1>6, <1>7, <1>8, <1>9, <1>10
     DEF Step, StoreRefreshToken

LEMMA TypedNext == Typed /\ [Next]_vars => Typed'
<1> SUFFICES ASSUME Typed, [Next]_vars PROVE Typed'
  OBVIOUS
<1>1. CASE UNCHANGED vars
  BY <1>1 DEF vars, Typed, TypeOK, StoreTypeOK, LocalsOK
<1>2. ASSUME NEW t \in Tokens, Expire(t) PROVE Typed'
  BY <1>2, NoUserAssumption
     DEF Expire, DelRefreshKey, DelSessionKey, Typed, TypeOK, StoreTypeOK, LocalsOK
<1>3. CASE Crash
  <2>1. NoRequest \in Requests
    BY DEF Requests, NoRequest, Ops
  <2> QED
    BY <1>3, <2>1
       DEF Crash, Typed, TypeOK, StoreTypeOK, LocalsOK, Labels, IssueLabels,
           ConsumeLabels, UserLabels
<1> QED
  BY <1>1, <1>2, <1>3, TypedStart, TypedStep DEF Next

(* Every variable of the sessions keeps its type, and every handler has    *)
(* the locals its next round trip uses.                                    *)
THEOREM TypeCorrect == Spec => []TypeOK
<1>1. Typed => TypeOK
  BY DEF Typed
<1> QED
  BY <1>1, TypedInit, TypedNext, PTL DEF Spec

-----------------------------------------------------------------------------
(* Chains.                                                                 *)

(* A token that is stored, delivered or in a handler's hands has been      *)
(* generated, and so has the login token its chain began with: a fresh     *)
(* token is in no chain at all.                                            *)
Rooted ==
  /\ \A t \in Tokens :
       /\ Live(t) \/ t \in refreshCookie => root[t] # NoToken
       /\ root[t] # NoToken => root[root[t]] # NoToken
  /\ \A p \in Procs :
       /\ pc[p] \in IssueLabels => root[req[p].new] # NoToken
       /\ pc[p] \in ConsumeLabels => root[req[p].old] # NoToken
       /\ pc[p] = "findUser" => req[p].op = "refresh"

(* The chain of a token is chosen when the token is generated, for ever. *)
LEMMA RootIsFinal ==
  ASSUME Typed, [Next]_vars
  PROVE  \A t \in Tokens : root[t] # NoToken => root'[t] = root[t]
<1>1. ASSUME NEW p \in Procs, StartLogin(p)
      PROVE  \A t \in Tokens : root[t] # NoToken => root'[t] = root[t]
  BY <1>1 DEF StartLogin, Fresh, Typed, TypeOK
<1>2. ASSUME NEW p \in Procs, FindUser(p)
      PROVE  \A t \in Tokens : root[t] # NoToken => root'[t] = root[t]
  BY <1>2 DEF FindUser, Fresh, Typed, TypeOK
<1>3. CASE UNCHANGED root
  BY <1>3
<1>4. \/ UNCHANGED root
      \/ \E p \in Procs : StartLogin(p) \/ FindUser(p)
  BY DEF Next, vars, Start, StartRefresh, StartLogout, StartRevokeAll, Step,
         StoreRefreshToken, SetRefresh, TrackSession, SetSession, GetDel, Untrack,
         DelSession, SMembers, DelRefresh, DelSet, Expire, Crash
<1> QED
  BY <1>1, <1>2, <1>3, <1>4

(* The request that arrives, and what it has in hand. *)
LEMMA Begun ==
  ASSUME Typed, NEW p \in Procs, NEW r, NEW label, Begin(p, r, label)
  PROVE  pc'[p] = label /\ req'[p] = r
  BY DEF Begin, Goto, Typed, TypeOK

LEMMA RefreshArrives ==
  ASSUME Typed, NEW p \in Procs, StartRefresh(p)
  PROVE  /\ pc'[p] = "getdel" /\ req'[p].op = "refresh" /\ req'[p].old \in refreshCookie
         /\ UNCHANGED <<root, refresh, refreshCookie>>
<1>1. PICK t \in refreshCookie :
        Begin(p, [NoRequest EXCEPT !.op = "refresh", !.old = t], "getdel")
  BY DEF StartRefresh
<1>2. pc'[p] = "getdel" /\ req'[p] = [NoRequest EXCEPT !.op = "refresh", !.old = t]
  BY <1>1, Begun
<1>3. req'[p].op = "refresh" /\ req'[p].old = t
  BY <1>2 DEF NoRequest
<1> QED
  BY <1>2, <1>3 DEF StartRefresh

LEMMA LogoutArrives ==
  ASSUME Typed, NEW p \in Procs, StartLogout(p)
  PROVE  /\ \/ pc'[p] = "getdel" /\ req'[p].old \in refreshCookie
            \/ pc'[p] = "delSession"
         /\ req'[p].op = "logout"
         /\ UNCHANGED <<root, refresh, refreshCookie>>
<1>1. PICK t \in refreshCookie \cup {NoToken}, s \in ssoCookie \cup {NoToken} :
        Begin(p, [NoRequest EXCEPT !.op = "logout", !.old = t, !.sess = s],
              IF t = NoToken THEN "delSession" ELSE "getdel")
  BY DEF StartLogout
<1>2. /\ pc'[p] = IF t = NoToken THEN "delSession" ELSE "getdel"
      /\ req'[p] = [NoRequest EXCEPT !.op = "logout", !.old = t, !.sess = s]
  BY <1>1, Begun
<1>3. req'[p].op = "logout" /\ req'[p].old = t
  BY <1>2 DEF NoRequest
<1> QED
  BY <1>1, <1>2, <1>3 DEF StartLogout

LEMMA RevokeAllArrives ==
  ASSUME Typed, NEW p \in Procs, StartRevokeAll(p)
  PROVE  pc'[p] = "smembers" /\ UNCHANGED <<root, refresh, refreshCookie>>
  BY Begun DEF StartRevokeAll

LEMMA LoginArrives ==
  ASSUME Typed, NEW p \in Procs, StartLogin(p)
  PROVE  pc'[p] = "setRefresh"
  BY Begun DEF StartLogin

(* A step of p leaves the other goroutines alone. *)
LEMMA OthersKeep ==
  ASSUME Typed, NEW p \in Procs, Start(p) \/ Step(p)
  PROVE  \A q \in Procs \ {p} : pc'[q] = pc[q] /\ req'[q] = req[q]
<1> USE DEF Typed, TypeOK, Begin, Goto, Finish
<1>1. CASE Start(p)
  BY <1>1 DEF Start, StartLogin, StartRefresh, StartLogout, StartRevokeAll
<1>2. CASE StoreRefreshToken(p) \/ SetSession(p)
  BY <1>2 DEF StoreRefreshToken, SetRefresh, TrackSession, AfterStore, SetSession
<1>3. CASE GetDel(p) \/ Untrack(p)
  BY <1>3 DEF GetDel, NotConsumed, Untrack
<1>4. CASE FindUser(p) \/ DelSession(p)
  BY <1>4 DEF FindUser, DelSession
<1>5. CASE SMembers(p) \/ DelRefresh(p) \/ DelSet(p)
  BY <1>5 DEF SMembers, DelRefresh, DelSet
<1> QED
  BY <1>1, <1>2, <1>3, <1>4, <1>5 DEF Step

(* A step that moves no chain and stores no token cannot fork one. *)
LEMMA QuietStep ==
  ASSUME Typed, NoFork, NEW p \in Procs,
         UNCHANGED root,
         \A q \in Procs \ {p} : pc'[q] = pc[q] /\ req'[q] = req[q],
         \A t \in Tokens : Live(t)' => Live(t),
         Carries(p)' => Carries(p) /\ Carried(p)' = Carried(p)
  PROVE  NoFork'
<1>1. \A q \in Procs : Carries(q)' => Carries(q) /\ Carried(q)' = Carried(q)
  BY DEF Carries, Carried
<1> QED
  BY <1>1 DEF NoFork

LEMMA RootedInit == Init => Rooted
  BY NoTokenAssumption
     DEF Init, StoreInit, Rooted, Live, IssueLabels, ConsumeLabels

(* A step of p that generates no token stays rooted when what it stores,   *)
(* delivers or keeps in hand was in its hands, stored or delivered before. *)
LEMMA RootedProcess ==
  ASSUME Typed, Rooted, NEW p \in Procs,
         UNCHANGED root,
         \A q \in Procs \ {p} : pc'[q] = pc[q] /\ req'[q] = req[q],
         \A t \in Tokens :
           Live(t)' \/ t \in refreshCookie' =>
             \/ Live(t) \/ t \in refreshCookie
             \/ pc[p] \in IssueLabels /\ t = req[p].new,
         pc'[p] \in IssueLabels => pc[p] \in IssueLabels /\ req'[p].new = req[p].new,
         pc'[p] \in ConsumeLabels =>
           \/ req'[p].old \in refreshCookie
           \/ pc[p] \in ConsumeLabels /\ req'[p].old = req[p].old,
         pc'[p] = "findUser" => req'[p].op = "refresh"
  PROVE  Rooted'
<1>1. \A t \in refreshCookie : root[t] # NoToken
  BY DEF Rooted, Typed, TypeOK
<1>2. \A t \in Tokens : Live(t)' \/ t \in refreshCookie' => root[t] # NoToken
  BY <1>1 DEF Rooted
<1>3. /\ pc'[p] \in IssueLabels => root[req'[p].new] # NoToken
      /\ pc'[p] \in ConsumeLabels => root[req'[p].old] # NoToken
  BY <1>1 DEF Rooted
<1> QED
  BY <1>2, <1>3 DEF Rooted

LEMMA RootedNext ==
  ASSUME Typed, Rooted, [Next]_vars
  PROVE  Rooted'
<1> USE DEF IssueLabels, ConsumeLabels
<1>1. CASE UNCHANGED vars
  BY <1>1 DEF vars, Rooted, Live
<1>2. ASSUME NEW t \in Tokens, Expire(t)
      PROVE  Rooted'
  BY <1>2 DEF Expire, DelRefreshKey, Rooted, Live, Typed, TypeOK, StoreTypeOK
<1>3. CASE Crash
  BY <1>3 DEF Crash, Rooted, Live
<1>4. ASSUME NEW p \in Procs, Start(p)
      PROVE  Rooted'
  <2>1. CASE StartLogin(p)
    <3>a. PICK op \in {"login", "verify"}, u \in Users, t \in Tokens :
            /\ Fresh(t)
            /\ Begin(p, [NoRequest EXCEPT !.op = op, !.usr = u, !.new = t], "setRefresh")
            /\ root' = [root EXCEPT ![t] = t]
      BY <2>1 DEF StartLogin
    <3>1. /\ root[t] = NoToken
          /\ root' = [root EXCEPT ![t] = t]
          /\ pc' = [pc EXCEPT ![p] = "setRefresh"]
          /\ req'[p].new = t
      BY <3>a DEF Fresh, Begin, Goto, Typed, TypeOK, NoRequest
    <3>2. \A s \in Tokens : s # t => root'[s] = root[s]
      BY <3>1 DEF Typed, TypeOK
    <3>3. root'[t] = t /\ t # NoToken
      BY <3>1, NoTokenAssumption DEF Typed, TypeOK
    <3>4. UNCHANGED <<refresh, refreshCookie>>
      BY <2>1 DEF StartLogin
    <3>5. \A q \in Procs \ {p} : pc'[q] = pc[q] /\ req'[q] = req[q]
      BY <1>4, OthersKeep
    <3>6. pc'[p] = "setRefresh"
      BY <3>1 DEF Typed, TypeOK
    <3>7. \A q \in Procs :
            /\ pc[q] \in IssueLabels => req[q].new \in Tokens
            /\ pc[q] \in ConsumeLabels => req[q].old \in Tokens
      BY DEF Typed, LocalsOK
    <3>8. \A s \in Tokens : root[s] \in Tokens \cup {NoToken}
      BY DEF Typed, TypeOK
    <3> QED
      BY <3>1, <3>2, <3>3, <3>4, <3>5, <3>6, <3>7, <3>8 DEF Rooted, Live
  <2>2. CASE ~StartLogin(p)
    <3>1. /\ UNCHANGED <<root, refresh, refreshCookie>>
          /\ pc'[p] \notin IssueLabels
          /\ pc'[p] \in ConsumeLabels => req'[p].old \in refreshCookie
          /\ pc'[p] # "findUser"
      BY <1>4, <2>2, RefreshArrives, LogoutArrives, RevokeAllArrives DEF Start
    <3> QED
      BY <1>4, <3>1, OthersKeep, RootedProcess DEF Live
  <2> QED
    BY <2>1, <2>2
<1>5. ASSUME NEW p \in Procs, Step(p)
      PROVE  Rooted'
  <2>1. CASE FindUser(p) /\ ~UNCHANGED root
    <3>1. PICK t \in Tokens :
            /\ root[t] = NoToken
            /\ root' = [root EXCEPT ![t] = root[req[p].old]]
            /\ pc' = [pc EXCEPT ![p] = "setRefresh"]
            /\ req' = [req EXCEPT ![p].new = t]
      BY <2>1 DEF FindUser, Fresh, Goto
    <3>2. \A s \in Tokens : s # t => root'[s] = root[s]
      BY <3>1 DEF Typed, TypeOK
    <3>3. root'[t] = root[req[p].old] /\ root[req[p].old] \in Tokens
          /\ root[root[req[p].old]] # NoToken
      BY <2>1, <3>1 DEF FindUser, Rooted, Typed, TypeOK, LocalsOK
    <3>4. UNCHANGED <<refresh, refreshCookie>>
      BY <2>1 DEF FindUser
    <3>5. \A q \in Procs \ {p} : pc'[q] = pc[q] /\ req'[q] = req[q]
      BY <1>5, OthersKeep
    <3>6. pc'[p] = "setRefresh" /\ req'[p].new = t
      BY <3>1 DEF Typed, TypeOK, Requests
    <3>7. \A q \in Procs :
            /\ pc[q] \in IssueLabels => req[q].new \in Tokens
            /\ pc[q] \in ConsumeLabels => req[q].old \in Tokens
      BY DEF Typed, LocalsOK
    <3>8. \A s \in Tokens : root[s] \in Tokens \cup {NoToken}
      BY DEF Typed, TypeOK
    <3>9. \A s \in Tokens :
            /\ Live(s) \/ s \in refreshCookie => root'[s] # NoToken
            /\ root'[s] # NoToken => root'[root'[s]] # NoToken
      BY <3>1, <3>2, <3>3, <3>8, NoTokenAssumption DEF Rooted
    <3>10. \A q \in Procs :
            /\ pc'[q] \in IssueLabels => root'[req'[q].new] # NoToken
            /\ pc'[q] \in ConsumeLabels => root'[req'[q].old] # NoToken
            /\ pc'[q] = "findUser" => req'[q].op = "refresh"
      BY <3>1, <3>2, <3>3, <3>5, <3>6, <3>7, NoTokenAssumption DEF Rooted
    <3> QED
      BY <3>4, <3>9, <3>10 DEF Rooted, Live
  <2>2. CASE ~FindUser(p) \/ UNCHANGED root
    <3> DEFINE TokensStored ==
                 \A t \in Tokens :
                   Live(t)' \/ t \in refreshCookie' =>
                     \/ Live(t) \/ t \in refreshCookie
                     \/ pc[p] \in IssueLabels /\ t = req[p].new
               InHand ==
                 /\ pc'[p] \in IssueLabels =>
                      pc[p] \in IssueLabels /\ req'[p].new = req[p].new
                 /\ pc'[p] \in ConsumeLabels =>
                      pc[p] \in ConsumeLabels /\ req'[p].old = req[p].old
                 /\ pc'[p] = "findUser" => req'[p].op = "refresh"
    <3> USE DEF Typed, TypeOK, StoreTypeOK, Requests, Goto, Finish
    <3>1. CASE StoreRefreshToken(p)
      <4>1. UNCHANGED root /\ TokensStored
        BY <3>1 DEF StoreRefreshToken, SetRefresh, TrackSession, AfterStore, SetRefreshKey, Live
      <4>2. InHand
        BY <3>1 DEF StoreRefreshToken, SetRefresh, TrackSession, AfterStore
      <4> QED
        BY <1>5, <4>1, <4>2, OthersKeep, RootedProcess
    <3>2. CASE SetSession(p)
      <4>1. UNCHANGED root /\ TokensStored /\ InHand
        BY <3>2 DEF SetSession, Live
      <4> QED
        BY <1>5, <4>1, OthersKeep, RootedProcess
    <3>3. CASE GetDel(p)
      <4>1. UNCHANGED root /\ TokensStored
        BY <3>3 DEF GetDel, GetDelRefreshKey, DelRefreshKey, Live
      <4>2. InHand
        BY <3>3 DEF GetDel, NotConsumed
      <4> QED
        BY <1>5, <4>1, <4>2, OthersKeep, RootedProcess
    <3>4. CASE Untrack(p)
      <4>1. UNCHANGED root /\ TokensStored /\ InHand
        BY <3>4 DEF Untrack, Live
      <4> QED
        BY <1>5, <4>1, OthersKeep, RootedProcess
    <3>5. CASE FindUser(p)
      <4>1. CASE Finish(p)
        <5>1. UNCHANGED root /\ TokensStored /\ InHand
          BY <2>2, <3>5, <4>1 DEF FindUser, Live
        <5> QED
          BY <1>5, <5>1, OthersKeep, RootedProcess
      <4>2. CASE ~Finish(p)
        <5>1. PICK t \in Tokens :
                root[t] = NoToken /\ root' = [root EXCEPT ![t] = root[req[p].old]]
          BY <3>5, <4>2 DEF FindUser, Fresh
        <5>2. root[req[p].old] # NoToken
          BY <3>5 DEF FindUser, Rooted
        <5> QED
          BY <2>2, <3>5, <5>1, <5>2
      <4> QED
        BY <4>1, <4>2
    <3>6. CASE DelSession(p) \/ SMembers(p) \/ DelSet(p)
      <4>1. UNCHANGED root /\ TokensStored /\ InHand
        BY <3>6 DEF DelSession, SMembers, DelSet, Live
      <4> QED
        BY <1>5, <4>1, OthersKeep, RootedProcess
    <3>7. CASE DelRefresh(p)
      <4>1. UNCHANGED root /\ TokensStored
        BY <3>7 DEF DelRefresh, DelRefreshKey, Live
      <4>2. InHand
        BY <3>7 DEF DelRefresh
      <4> QED
        BY <1>5, <4>1, <4>2, OthersKeep, RootedProcess
    <3> QED
      BY <1>5, <3>1, <3>2, <3>3, <3>4, <3>5, <3>6, <3>7 DEF Step
  <2> QED
    BY <2>1, <2>2
<1> QED
  BY <1>1, <1>2, <1>3, <1>4, <1>5 DEF Next

LEMMA NoForkInit == Init => NoFork
  BY DEF Init, StoreInit, NoFork, Live, Carries

(* A fresh token t enters the hands of p, as the next or the first of its  *)
(* chain c, when no live token and no other request is of that chain.      *)
LEMMA DrawStep ==
  ASSUME Typed, Rooted, NoFork, NEW p \in Procs, NEW t \in Tokens, NEW c \in Tokens,
         root[t] = NoToken,
         root' = [root EXCEPT ![t] = c],
         UNCHANGED refresh,
         \A q \in Procs \ {p} : pc'[q] = pc[q] /\ req'[q] = req[q],
         pc'[p] = "setRefresh",
         req'[p].new = t,
         \A s \in Tokens : Live(s) => root[s] # c,
         \A q \in Procs \ {p} : Carries(q) => Carried(q) # c
  PROVE  NoFork'
<1>1. \A s \in Tokens : Live(s) => s # t
  BY DEF Rooted
<1>2. \A s \in Tokens : s # t => root'[s] = root[s]
  BY DEF Typed, TypeOK
<1>3. Carries(p)' /\ Carried(p)' = c
  BY DEF Carries, Carried, Typed, TypeOK
<1>4. \A q \in Procs \ {p} : Carries(q)' => Carries(q) /\ Carried(q)' = Carried(q)
  <2> SUFFICES ASSUME NEW q \in Procs \ {p}, Carries(q)'
               PROVE  Carries(q) /\ Carried(q)' = Carried(q)
    OBVIOUS
  <2>1. Carries(q)
    BY DEF Carries
  <2>2. CASE pc[q] = "setRefresh"
    <3>1. req[q].new \in Tokens /\ req[q].new # t
      BY <2>2 DEF Typed, LocalsOK, Rooted, IssueLabels
    <3> QED
      BY <1>2, <2>1, <2>2, <3>1 DEF Carried
  <2>3. CASE pc[q] # "setRefresh"
    <3>1. req[q].old \in Tokens /\ req[q].old # t
      BY <2>1, <2>3 DEF Carries, Typed, LocalsOK, Rooted, ConsumeLabels
    <3> QED
      BY <1>2, <2>1, <2>3, <3>1 DEF Carried
  <2> QED
    BY <2>2, <2>3
<1>5. \A s \in Tokens : Live(s)' = Live(s)
  BY DEF Live
<1>6. \A s, u \in Tokens : Live(s)' /\ Live(u)' /\ root'[s] = root'[u] => s = u
  BY <1>1, <1>2, <1>5 DEF NoFork
<1>7. \A q \in Procs, s \in Tokens : Carries(q)' /\ Live(s)' => root'[s] # Carried(q)'
  BY <1>1, <1>2, <1>3, <1>4, <1>5 DEF NoFork
<1>8. \A q, r \in Procs : Carries(q)' /\ Carries(r)' /\ Carried(q)' = Carried(r)' => q = r
  BY <1>3, <1>4 DEF NoFork
<1> QED
  BY <1>6, <1>7, <1>8 DEF NoFork

LEMMA RefreshDraws ==
  ASSUME Typed, Rooted, NoFork, NEW p \in Procs, NEW t \in Tokens, FindUser(p), Fresh(t),
         req' = [req EXCEPT ![p].new = t],
         root' = [root EXCEPT ![t] = root[req[p].old]],
         Goto(p, "setRefresh"),
         \A q \in Procs \ {p} : pc'[q] = pc[q] /\ req'[q] = req[q]
  PROVE  NoFork'
<1>1. pc[p] = "findUser" /\ req[p].old \in Tokens
  BY DEF FindUser, Typed, LocalsOK, ConsumeLabels
<1>2. req[p].op = "refresh" /\ root[req[p].old] # NoToken
  BY <1>1 DEF Rooted, ConsumeLabels
<1>3. PICK c \in Tokens : c = root[req[p].old]
  BY <1>1, <1>2 DEF Typed, TypeOK
<1>4. Carries(p) /\ Carried(p) = c
  BY <1>1, <1>2, <1>3 DEF Carries, Carried
<1>5. pc'[p] = "setRefresh" /\ root[t] = NoToken /\ UNCHANGED refresh
  BY DEF FindUser, Fresh, Goto, Typed, TypeOK
<1>6. req'[p].new = t
  <2>1. req[p] \in Requests /\ req'[p] = [req[p] EXCEPT !.new = t]
    BY DEF Typed, TypeOK
  <2> QED
    BY <2>1 DEF Requests
<1>7. \A s \in Tokens : Live(s) => root[s] # c
  BY <1>4 DEF NoFork
<1>8. \A q \in Procs \ {p} : Carries(q) => Carried(q) # c
  BY <1>4 DEF NoFork
<1>9. root' = [root EXCEPT ![t] = c]
  BY <1>3
<1> QED
  BY <1>5, <1>6, <1>7, <1>8, <1>9, DrawStep

LEMMA NoForkNext ==
  ASSUME Typed, Rooted, NoFork, [Next]_vars
  PROVE  NoFork'
<1>1. CASE UNCHANGED vars
  BY <1>1 DEF vars, NoFork, Live, Carries, Carried
<1>2. ASSUME NEW t \in Tokens, Expire(t)
      PROVE  NoFork'
  BY <1>2
     DEF Expire, DelRefreshKey, NoFork, Live, Carries, Carried, Typed, TypeOK, StoreTypeOK
<1>3. CASE Crash
  BY <1>3 DEF Crash, NoFork, Live, Carries
<1>4. ASSUME NEW p \in Procs, Start(p)
      PROVE  NoFork'
  <2>1. CASE StartLogin(p)
    <3>1. PICK op \in {"login", "verify"}, u \in Users, t \in Tokens :
            /\ Fresh(t)
            /\ Begin(p, [NoRequest EXCEPT !.op = op, !.usr = u, !.new = t], "setRefresh")
            /\ root' = [root EXCEPT ![t] = t]
            /\ UNCHANGED refresh
      BY <2>1 DEF StartLogin
    <3>2. root[t] = NoToken /\ pc'[p] = "setRefresh" /\ req'[p].new = t
      BY <3>1 DEF Fresh, Begin, Goto, Typed, TypeOK, NoRequest
    <3>3. \A s \in Tokens : root[s] # t
      BY <3>2, NoTokenAssumption DEF Rooted
    <3>4. \A q \in Procs : Carries(q) => Carried(q) # t
      BY <3>3
         DEF Carries, Carried, Typed, LocalsOK, IssueLabels, ConsumeLabels
    <3> QED
      BY <1>4, <3>1, <3>2, <3>3, <3>4, OthersKeep, DrawStep
  <2>2. CASE ~StartLogin(p)
    <3>1. UNCHANGED <<root, refresh>> /\ ~Carries(p)'
      BY <1>4, <2>2
         DEF Start, StartRefresh, StartLogout, StartRevokeAll, Begin, Goto, Carries,
             Typed, TypeOK
    <3> QED
      BY <1>4, <3>1, OthersKeep, QuietStep DEF Live
  <2> QED
    BY <2>1, <2>2
<1>5. ASSUME NEW p \in Procs, Step(p)
      PROVE  NoFork'
  <2> USE DEF Typed, TypeOK, StoreTypeOK, Requests, Goto, Finish
  <2>1. \A q \in Procs \ {p} : pc'[q] = pc[q] /\ req'[q] = req[q]
    BY <1>5, OthersKeep
  <2>2. CASE SetRefresh(p)
    (* The token in hand becomes the live token of its chain, or is lost. *)
    <3>1. Carries(p) /\ Carried(p) = root[req[p].new] /\ req[p].new \in Tokens
      BY <2>2 DEF SetRefresh, Carries, Carried, LocalsOK, IssueLabels
    <3>2. UNCHANGED root /\ ~Carries(p)'
      BY <2>2 DEF SetRefresh, Carries
    <3>3. \A t \in Tokens : Live(t)' => Live(t) \/ t = req[p].new
      BY <2>2 DEF SetRefresh, SetRefreshKey, Live
    <3>4. \A q \in Procs : Carries(q)' =>
             q # p /\ Carries(q) /\ Carried(q)' = Carried(q)
      BY <2>1, <3>2 DEF Carries, Carried
    <3> QED
      BY <3>1, <3>2, <3>3, <3>4 DEF NoFork
  <2>3. CASE TrackSession(p) \/ SetSession(p)
    <3>1. UNCHANGED <<root, refresh>> /\ ~Carries(p)'
      BY <2>3 DEF TrackSession, AfterStore, SetSession, Carries
    <3> QED
      BY <2>1, <3>1, QuietStep DEF Live
  <2>4. CASE GetDel(p)
    (* The chain leaves its live token for the request that consumed it. *)
    <3>1. CASE NotConsumed(p)
      <4>1. UNCHANGED root /\ ~Carries(p)'
        BY <2>4, <3>1 DEF GetDel, NotConsumed, Carries
      <4>2. \A t \in Tokens : Live(t)' => Live(t)
        BY <2>4 DEF GetDel, GetDelRefreshKey, DelRefreshKey, Live
      <4> QED
        BY <2>1, <4>1, <4>2, QuietStep
    <3>2. CASE ~NotConsumed(p)
      <4> DEFINE old == req[p].old
      <4>1. /\ old \in Tokens
            /\ Live(old)
            /\ refresh' = [refresh EXCEPT ![old] = NoUser]
            /\ UNCHANGED root
            /\ pc'[p] = "srem"
            /\ req'[p].old = old
        BY <2>4, <3>2
           DEF GetDel, GetDelRefreshKey, DelRefreshKey, LocalsOK, ConsumeLabels
      <4> HIDE DEF old
      <4>2. \A t \in Tokens : Live(t)' => Live(t) /\ t # old
        BY <4>1 DEF Live
      <4>3. Carries(p)' => Carried(p)' = root[old]
        BY <4>1 DEF Carried
      <4>4. \A q \in Procs \ {p} : Carries(q)' => Carries(q) /\ Carried(q)' = Carried(q)
        BY <2>1, <4>1 DEF Carries, Carried
      <4>5. \A s, t \in Tokens : Live(s)' /\ Live(t)' /\ root'[s] = root'[t] => s = t
        BY <4>1, <4>2 DEF NoFork
      <4>6. \A q \in Procs, t \in Tokens : Carries(q)' /\ Live(t)' => root'[t] # Carried(q)'
        BY <4>1, <4>2, <4>3, <4>4 DEF NoFork
      <4>7. \A q, r \in Procs :
              Carries(q)' /\ Carries(r)' /\ Carried(q)' = Carried(r)' => q = r
        BY <4>1, <4>3, <4>4 DEF NoFork
      <4> QED
        BY <4>5, <4>6, <4>7 DEF NoFork
    <3> QED
      BY <3>1, <3>2
  <2>5. CASE Untrack(p)
    <3>1. UNCHANGED <<root, refresh>> /\ (Carries(p)' => Carries(p) /\ Carried(p)' = Carried(p))
      BY <2>5 DEF Untrack, Carries, Carried
    <3> QED
      BY <2>1, <3>1, QuietStep DEF Live
  <2>6. CASE FindUser(p)
    <3>1. CASE Finish(p) /\ UNCHANGED root
      <4>1. UNCHANGED refresh /\ ~Carries(p)'
        BY <2>6, <3>1 DEF FindUser, Carries
      <4> QED
        BY <2>1, <3>1, <4>1, QuietStep DEF Live
    <3>2. ASSUME NEW t \in Tokens,
                 Fresh(t),
                 req' = [req EXCEPT ![p].new = t],
                 root' = [root EXCEPT ![t] = root[req[p].old]],
                 Goto(p, "setRefresh")
          PROVE  NoFork'
      BY <2>1, <2>6, <3>2, RefreshDraws
    <3> QED
      BY <2>6, <3>1, <3>2 DEF FindUser
  <2>7. CASE DelSession(p) \/ SMembers(p) \/ DelSet(p)
    <3>1. UNCHANGED <<root, refresh>> /\ ~Carries(p)'
      BY <2>7 DEF DelSession, SMembers, DelSet, Carries
    <3> QED
      BY <2>1, <3>1, QuietStep DEF Live
  <2>8. CASE DelRefresh(p)
    <3>1. UNCHANGED root /\ ~Carries(p)'
      BY <2>8 DEF DelRefresh, Carries
    <3>2. \A t \in Tokens : Live(t)' => Live(t)
      BY <2>8 DEF DelRefresh, DelRefreshKey, Live
    <3> QED
      BY <2>1, <3>1, <3>2, QuietStep
  <2> QED
    BY <1>5, <2>2, <2>3, <2>4, <2>5, <2>6, <2>7, <2>8 DEF Step, StoreRefreshToken
<1> QED
  BY <1>1, <1>2, <1>3, <1>4, <1>5 DEF Next

(* The inductive invariant behind NoFork. *)
ChainInv == Typed /\ Rooted /\ NoFork

LEMMA ChainInvariant == Spec => []ChainInv
<1>1. Init => ChainInv
  BY TypedInit, RootedInit, NoForkInit DEF ChainInv
<1>2. ChainInv /\ [Next]_vars => ChainInv'
  BY TypedNext, RootedNext, NoForkNext DEF ChainInv
<1> QED
  BY <1>1, <1>2, PTL DEF Spec

(* However many requests race with the cookies of one login, at most one   *)
(* of its refresh tokens can be exchanged at any time.                     *)
THEOREM LoginsNeverFork == Spec => []NoFork
<1>1. ChainInv => NoFork
  BY DEF ChainInv
<1> QED
  BY <1>1, ChainInvariant, PTL

-----------------------------------------------------------------------------
(* Revocation.                                                             *)

(* A revocation has deleted t, is going to, or would find it. *)
Seen(t) ==
  \/ t \in revoked
  \/ \E u \in Users : t \in userSessions[u]
  \/ \E p \in Procs : t \in req[p].todo

(* A token is seen only after the one SET of its key, because the SADD     *)
(* follows the SET in StoreRefreshToken: no request is about to SET it.    *)
TrackedAfterSet ==
  /\ RevokedStaysRevoked
  /\ \A t \in Tokens : Seen(t) =>
       /\ root[t] # NoToken
       /\ \A p \in Procs : pc[p] = "setRefresh" => req[p].new # t
  /\ \A p, q \in Procs :
       pc[p] \in IssueLabels /\ pc[q] \in IssueLabels /\ req[p].new = req[q].new => p = q

LEMMA TrackedInit == Init => TrackedAfterSet
  BY DEF Init, StoreInit, TrackedAfterSet, RevokedStaysRevoked, Seen, NoRequest, IssueLabels

(* What a step of p may do to tokens that are, or become, seen. *)
LEMMA TrackedProcess ==
  ASSUME Typed, Typed', Rooted, TrackedAfterSet, NEW p \in Procs,
         \A q \in Procs \ {p} : pc'[q] = pc[q] /\ req'[q] = req[q],
         \A t \in Tokens : root[t] # NoToken => root'[t] # NoToken,
         pc'[p] = "setRefresh" => root[req'[p].new] = NoToken,
         pc'[p] \in IssueLabels =>
           \/ pc'[p] = "setRefresh"
           \/ pc[p] \in IssueLabels /\ req'[p].new = req[p].new,
         \A u \in Users : \A t \in userSessions'[u] :
           t \in userSessions[u] \/ (pc[p] = "sadd" /\ t = req[p].new),
         \A t \in req'[p].todo :
           t \in req[p].todo \/ \E u \in Users : t \in userSessions[u],
         \A t \in revoked' :
           t \in revoked \/ (t \in req[p].todo /\ ~Live(t)'),
         \A t \in Tokens :
           Live(t)' => Live(t) \/ (pc[p] = "setRefresh" /\ t = req[p].new)
  PROVE  TrackedAfterSet'
<1>1. \A t \in Tokens :
        Seen(t)' => Seen(t) \/ (pc[p] = "sadd" /\ t = req[p].new)
  BY DEF Seen
<1>2. \A q \in Procs : pc[q] \in IssueLabels => req[q].new \in Tokens /\ root[req[q].new] # NoToken
  BY DEF Typed, LocalsOK, Rooted
<1>3. RevokedStaysRevoked'
  <2> SUFFICES ASSUME NEW t \in revoked', Live(t)' PROVE FALSE
    BY DEF RevokedStaysRevoked
  <2>1. t \in revoked /\ t \in Tokens
    BY DEF Typed, TypeOK
  <2>2. ~Live(t)
    BY <2>1 DEF TrackedAfterSet, RevokedStaysRevoked
  <2>3. Seen(t)
    BY <2>1 DEF Seen
  <2> QED
    BY <2>1, <2>2, <2>3 DEF TrackedAfterSet
<1>4. ASSUME NEW t \in Tokens, Seen(t)'
      PROVE  root'[t] # NoToken
             /\ \A q \in Procs : pc'[q] = "setRefresh" => req'[q].new # t
  <2>1. root[t] # NoToken
    BY <1>1, <1>2, <1>4 DEF TrackedAfterSet, IssueLabels
  <2>2. ASSUME NEW q \in Procs, pc'[q] = "setRefresh"
        PROVE  req'[q].new # t
    <3>1. CASE q = p
      BY <2>1, <2>2, <3>1
    <3>2. CASE q # p
      <4>1. pc[q] = "setRefresh" /\ req'[q].new = req[q].new
        BY <2>2, <3>2
      <4>2. CASE Seen(t)
        BY <4>1, <4>2 DEF TrackedAfterSet
      <4>3. CASE pc[p] = "sadd" /\ t = req[p].new
        BY <3>2, <4>1, <4>3 DEF TrackedAfterSet, IssueLabels
      <4> QED
        BY <1>1, <1>4, <4>2, <4>3
    <3> QED
      BY <3>1, <3>2
  <2> QED
    BY <2>1, <2>2
<1>5. ASSUME NEW q \in Procs, NEW r \in Procs, q # r,
             pc'[q] \in IssueLabels, pc'[r] \in IssueLabels
      PROVE  req'[q].new # req'[r].new
  <2>1. ASSUME NEW s \in Procs, s # p, pc'[s] \in IssueLabels, pc'[p] \in IssueLabels
        PROVE  req'[s].new # req'[p].new
    <3>1. pc[s] \in IssueLabels /\ req'[s].new = req[s].new
      BY <2>1
    <3> QED
      BY <1>2, <2>1, <3>1 DEF TrackedAfterSet
  <2>2. CASE q # p /\ r # p
    BY <1>5, <2>2 DEF TrackedAfterSet
  <2> QED
    BY <1>5, <2>1, <2>2
<1> QED
  BY <1>3, <1>4, <1>5 DEF TrackedAfterSet

LEMMA TrackedNext ==
  ASSUME Typed, Typed', Rooted, TrackedAfterSet, [Next]_vars
  PROVE  TrackedAfterSet'
<1>1. CASE UNCHANGED vars
  BY <1>1 DEF vars, TrackedAfterSet, RevokedStaysRevoked, Seen, Live
<1>2. ASSUME NEW t \in Tokens, Expire(t)
      PROVE  TrackedAfterSet'
  <2>1. UNCHANGED <<userSessions, pc, req, root, revoked>>
    BY <1>2 DEF Expire
  <2>2. \A s \in Tokens : Live(s)' => Live(s)
    BY <1>2 DEF Expire, DelRefreshKey, Live, Typed, TypeOK, StoreTypeOK
  <2>3. revoked \subseteq Tokens
    BY DEF Typed, TypeOK
  <2> QED
    BY <2>1, <2>2, <2>3 DEF TrackedAfterSet, RevokedStaysRevoked, Seen
<1>3. CASE Crash
  BY <1>3
     DEF Crash, TrackedAfterSet, RevokedStaysRevoked, Seen, Live, NoRequest, IssueLabels
<1>4. ASSUME NEW p \in Procs, Start(p) \/ Step(p)
      PROVE  TrackedAfterSet'
  <2>1. /\ \A q \in Procs \ {p} : pc'[q] = pc[q] /\ req'[q] = req[q]
        /\ \A t \in Tokens : root[t] # NoToken => root'[t] # NoToken
    BY <1>4, OthersKeep, RootIsFinal DEF Next
  <2> USE DEF Typed, TypeOK, StoreTypeOK, Requests, Goto, Finish, IssueLabels
  <2> DEFINE Issues ==
               /\ pc'[p] = "setRefresh" => root[req'[p].new] = NoToken
               /\ pc'[p] \in IssueLabels =>
                    \/ pc'[p] = "setRefresh"
                    \/ pc[p] \in IssueLabels /\ req'[p].new = req[p].new
             Tracks ==
               /\ \A u \in Users : \A t \in userSessions'[u] :
                    t \in userSessions[u] \/ (pc[p] = "sadd" /\ t = req[p].new)
               /\ \A t \in req'[p].todo :
                    t \in req[p].todo \/ \E u \in Users : t \in userSessions[u]
             Deletes ==
               /\ \A t \in revoked' : t \in revoked \/ (t \in req[p].todo /\ ~Live(t)')
               /\ \A t \in Tokens :
                    Live(t)' => Live(t) \/ (pc[p] = "setRefresh" /\ t = req[p].new)
  <2>2. CASE Start(p)
    <3>1. CASE StartLogin(p)
      <4>1. PICK op \in {"login", "verify"}, u \in Users, t \in Tokens :
              /\ Fresh(t)
              /\ Begin(p, [NoRequest EXCEPT !.op = op, !.usr = u, !.new = t], "setRefresh")
        BY <3>1 DEF StartLogin
      <4>2. req'[p].new = t /\ req'[p].todo = {} /\ root[t] = NoToken /\ pc'[p] = "setRefresh"
        BY <4>1 DEF Fresh, Begin, NoRequest
      <4>3. UNCHANGED <<refresh, userSessions, revoked>>
        BY <3>1 DEF StartLogin
      <4>4. Issues /\ Tracks /\ Deletes
        BY <4>2, <4>3 DEF Live
      <4> QED
        BY <2>1, <4>4, TrackedProcess
    <3>2. CASE ~StartLogin(p)
      <4>a. StartRefresh(p) \/ StartLogout(p) \/ StartRevokeAll(p)
        BY <2>2, <3>2 DEF Start
      <4>b. UNCHANGED <<refresh, userSessions, revoked>>
        BY <4>a DEF StartRefresh, StartLogout, StartRevokeAll
      <4>c. StartRefresh(p) => pc'[p] = "getdel" /\ req'[p].todo = {}
        BY DEF StartRefresh, Begin, NoRequest
      <4>d. StartLogout(p) => pc'[p] \in {"getdel", "delSession"} /\ req'[p].todo = {}
        BY DEF StartLogout, Begin, NoRequest
      <4>e. StartRevokeAll(p) => pc'[p] = "smembers" /\ req'[p].todo = {}
        BY DEF StartRevokeAll, Begin, NoRequest
      <4>1. /\ UNCHANGED <<refresh, userSessions, revoked>>
            /\ req'[p].todo = {}
            /\ pc'[p] \notin IssueLabels
        BY <4>a, <4>b, <4>c, <4>d, <4>e
      <4>2. Issues /\ Tracks /\ Deletes
        BY <4>1 DEF Live
      <4> QED
        BY <2>1, <4>2, TrackedProcess
    <3> QED
      BY <3>1, <3>2
  <2>3. CASE SetRefresh(p)
    <3>1. Issues /\ Tracks
      BY <2>3 DEF SetRefresh, NoRequest
    <3>2. Deletes
      BY <2>3 DEF SetRefresh, SetRefreshKey, Live
    <3> QED
      BY <2>1, <3>1, <3>2, TrackedProcess
  <2>4. CASE TrackSession(p)
    <3>1. Issues
      BY <2>4 DEF TrackSession, AfterStore, NoRequest
    <3>2. Tracks
      BY <2>4 DEF TrackSession, AfterStore, AddUserSession, NoRequest
    <3>3. Deletes
      BY <2>4 DEF TrackSession, Live
    <3> QED
      BY <2>1, <3>1, <3>2, <3>3, TrackedProcess
  <2>5. CASE SetSession(p) \/ DelSession(p)
    <3>1. Issues /\ Tracks /\ Deletes
      BY <2>5 DEF SetSession, DelSession, NoRequest, Live
    <3> QED
      BY <2>1, <3>1, TrackedProcess
  <2>6. CASE GetDel(p)
    <3>1. Issues /\ Tracks
      BY <2>6 DEF GetDel, NotConsumed, NoRequest
    <3>2. Deletes
      BY <2>6 DEF GetDel, GetDelRefreshKey, DelRefreshKey, Live
    <3> QED
      BY <2>1, <3>1, <3>2, TrackedProcess
  <2>7. CASE Untrack(p) \/ DelSet(p)
    <3>1. Issues
      BY <2>7 DEF Untrack, DelSet
    <3>2. Tracks
      BY <2>7 DEF Untrack, RemUserSession, DelSet, DelUserSessions, NoRequest
    <3>3. Deletes
      BY <2>7 DEF Untrack, DelSet, Live
    <3> QED
      BY <2>1, <3>1, <3>2, <3>3, TrackedProcess
  <2>8. CASE FindUser(p)
    <3>1. Issues
      BY <2>8 DEF FindUser, Fresh
    <3>2. Tracks /\ Deletes
      BY <2>8 DEF FindUser, NoRequest, Live
    <3> QED
      BY <2>1, <3>1, <3>2, TrackedProcess
  <2>9. CASE SMembers(p)
    <3>1. req[p].usr \in Users
      BY <2>9 DEF SMembers, LocalsOK, UserLabels
    <3>2. Issues /\ Deletes
      BY <2>9 DEF SMembers, Live
    <3>3. Tracks
      BY <2>9, <3>1 DEF SMembers, NoRequest
    <3> QED
      BY <2>1, <3>2, <3>3, TrackedProcess
  <2>10. CASE DelRefresh(p)
    <3>1. Issues
      BY <2>10 DEF DelRefresh
    <3>2. Tracks
      BY <2>10 DEF DelRefresh, NoRequest
    <3>3. Deletes
      BY <2>10 DEF DelRefresh, DelRefreshKey, Live
    <3> QED
      BY <2>1, <3>1, <3>2, <3>3, TrackedProcess
  <2> QED
    BY <1>4, <2>2, <2>3, <2>4, <2>5, <2>6, <2>7, <2>8, <2>9, <2>10
       DEF Step, StoreRefreshToken
<1> QED
  BY <1>1, <1>2, <1>3, <1>4 DEF Next

(* What RevokeAllUserSessions has deleted no request in flight brings back. *)
THEOREM RevocationIsFinal == Spec => []RevokedStaysRevoked
<1>1. Init => TrackedAfterSet
  BY TrackedInit
<1>2. ChainInv /\ ChainInv' /\ TrackedAfterSet /\ [Next]_vars => TrackedAfterSet'
  BY TrackedNext DEF ChainInv
<1>3. TrackedAfterSet => RevokedStaysRevoked
  BY DEF TrackedAfterSet
<1> QED
  BY <1>1, <1>2, <1>3, ChainInvariant, PTL DEF Spec

-----------------------------------------------------------------------------
(* Whom a revocation hits.                                                 *)

(* A snapshot is only held while its pipeline runs, and a token about to   *)
(* be tracked belongs to the user it will be tracked for.                  *)
OwnersAgree ==
  /\ RevocationHitsOwnUser
  /\ \A p \in Procs :
       /\ req[p].todo # {} => pc[p] = "delRefresh"
       /\ pc[p] = "sadd" => refresh[req[p].new] \in {req[p].usr, NoUser}

LEMMA OwnedInit == Init => OwnersAgree
  BY DEF Init, StoreInit, OwnersAgree, RevocationHitsOwnUser, NoRequest

(* What a step of p may do to the owners of tokens. *)
LEMMA OwnedProcess ==
  ASSUME Typed, Typed', TrackedAfterSet, OwnersAgree, NEW p \in Procs,
         \A q \in Procs \ {p} : pc'[q] = pc[q] /\ req'[q] = req[q],
         \A t \in Tokens :
           \/ refresh'[t] \in {refresh[t], NoUser}
           \/ pc[p] = "setRefresh" /\ t = req[p].new,
         \A u \in Users : \A t \in userSessions'[u] :
           \/ t \in userSessions[u]
           \/ pc[p] = "sadd" /\ t = req[p].new /\ u = req[p].usr,
         req'[p].todo # {} => pc'[p] = "delRefresh",
         \A t \in req'[p].todo :
           \/ t \in req[p].todo /\ req'[p].usr = req[p].usr
           \/ t \in userSessions[req'[p].usr],
         pc'[p] = "sadd" => refresh'[req'[p].new] \in {req'[p].usr, NoUser}
  PROVE  OwnersAgree'
<1>1. \A q \in Procs : /\ req[q].todo \subseteq Tokens /\ req'[q].todo \subseteq Tokens
                       /\ pc[q] \in IssueLabels => req[q].new \in Tokens
                       /\ pc'[q] \in UserLabels => req'[q].usr \in Users
  BY DEF Typed, TypeOK, Requests, LocalsOK
<1>2. \A u \in Users : userSessions[u] \subseteq Tokens /\ userSessions'[u] \subseteq Tokens
  BY DEF Typed, TypeOK, StoreTypeOK
<1>3. ASSUME NEW t \in Tokens, Seen(t) PROVE refresh'[t] \in {refresh[t], NoUser}
  BY <1>3 DEF TrackedAfterSet
<1>4. ASSUME NEW u \in Users, NEW t \in userSessions'[u]
      PROVE  refresh'[t] \in {u, NoUser}
  <2>1. CASE t \in userSessions[u]
    <3>1. t \in Tokens /\ Seen(t) /\ refresh[t] \in {u, NoUser}
      BY <1>2, <2>1 DEF Seen, OwnersAgree, RevocationHitsOwnUser
    <3> QED
      BY <1>3, <3>1
  <2>2. CASE pc[p] = "sadd" /\ t = req[p].new /\ u = req[p].usr
    BY <1>2, <2>2 DEF OwnersAgree
  <2> QED
    BY <2>1, <2>2
<1>5. ASSUME NEW q \in Procs, NEW t \in req'[q].todo
      PROVE  refresh'[t] \in {req'[q].usr, NoUser}
  <2>1. CASE t \in req[q].todo /\ req'[q].usr = req[q].usr
    <3>1. t \in Tokens /\ Seen(t) /\ refresh[t] \in {req[q].usr, NoUser}
      BY <1>1, <2>1 DEF Seen, OwnersAgree, RevocationHitsOwnUser
    <3> QED
      BY <1>3, <2>1, <3>1
  <2>2. CASE q = p /\ t \in userSessions[req'[p].usr]
    <3>1. req'[p].usr \in Users
      BY <1>1, <1>5, <2>2 DEF UserLabels
    <3>2. t \in Tokens /\ Seen(t) /\ refresh[t] \in {req'[p].usr, NoUser}
      BY <1>2, <2>2, <3>1 DEF Seen, OwnersAgree, RevocationHitsOwnUser
    <3> QED
      BY <1>3, <2>2, <3>2
  <2> QED
    BY <1>5, <2>1, <2>2
<1>6. ASSUME NEW q \in Procs \ {p}, pc[q] = "sadd"
      PROVE  refresh'[req[q].new] \in {req[q].usr, NoUser}
  <2>1. req[q].new \in Tokens /\ refresh[req[q].new] \in {req[q].usr, NoUser}
    BY <1>1, <1>6 DEF OwnersAgree, IssueLabels
  <2>2. ~(pc[p] = "setRefresh" /\ req[q].new = req[p].new)
    BY <1>6 DEF TrackedAfterSet, IssueLabels
  <2> QED
    BY <2>1, <2>2
<1>7. ASSUME NEW q \in Procs
      PROVE  /\ req'[q].todo # {} => pc'[q] = "delRefresh"
             /\ pc'[q] = "sadd" => refresh'[req'[q].new] \in {req'[q].usr, NoUser}
  <2>1. CASE q = p
    BY <2>1
  <2>2. CASE q # p
    BY <1>6, <2>2 DEF OwnersAgree
  <2> QED
    BY <2>1, <2>2
<1> QED
  BY <1>4, <1>5, <1>7 DEF OwnersAgree, RevocationHitsOwnUser

LEMMA OwnedNext ==
  ASSUME Typed, Typed', TrackedAfterSet, OwnersAgree, [Next]_vars
  PROVE  OwnersAgree'
<1>1. CASE UNCHANGED vars
  BY <1>1 DEF vars, OwnersAgree, RevocationHitsOwnUser
<1>2. ASSUME NEW t \in Tokens, Expire(t)
      PROVE  OwnersAgree'
  <2>1. UNCHANGED <<userSessions, pc, req>>
    BY <1>2 DEF Expire
  <2>2. \A s \in Tokens : refresh'[s] \in {refresh[s], NoUser}
    BY <1>2 DEF Expire, DelRefreshKey, Typed, TypeOK, StoreTypeOK
  <2>3. /\ \A u \in Users : userSessions[u] \subseteq Tokens
        /\ \A p \in Procs : /\ req[p].todo \subseteq Tokens
                            /\ pc[p] = "sadd" => req[p].new \in Tokens
    BY DEF Typed, TypeOK, StoreTypeOK, Requests, LocalsOK, IssueLabels
  <2> QED
    BY <2>1, <2>2, <2>3 DEF OwnersAgree, RevocationHitsOwnUser
<1>3. CASE Crash
  BY <1>3 DEF Crash, OwnersAgree, RevocationHitsOwnUser, NoRequest
<1>4. ASSUME NEW p \in Procs, Start(p) \/ Step(p)
      PROVE  OwnersAgree'
  <2>1. \A q \in Procs \ {p} : pc'[q] = pc[q] /\ req'[q] = req[q]
    BY <1>4, OthersKeep
  <2> USE DEF Typed, TypeOK, StoreTypeOK, Requests, Goto, Finish
  <2> DEFINE Keys == \A t \in Tokens :
                       \/ refresh'[t] \in {refresh[t], NoUser}
                       \/ pc[p] = "setRefresh" /\ t = req[p].new
             Sets == \A u \in Users : \A t \in userSessions'[u] :
                       \/ t \in userSessions[u]
                       \/ pc[p] = "sadd" /\ t = req[p].new /\ u = req[p].usr
             Todo == /\ req'[p].todo # {} => pc'[p] = "delRefresh"
                     /\ \A t \in req'[p].todo :
                          \/ t \in req[p].todo /\ req'[p].usr = req[p].usr
                          \/ t \in userSessions[req'[p].usr]
             Adds == pc'[p] = "sadd" =>
                       refresh'[req'[p].new] \in {req'[p].usr, NoUser}
  <2>a. pc[p] # "delRefresh" => req[p].todo = {}
    BY DEF OwnersAgree
  <2>2. CASE Start(p)
    <3>1. UNCHANGED <<refresh, userSessions>>
      BY <2>2 DEF Start, StartLogin, StartRefresh, StartLogout, StartRevokeAll
    <3>2. req'[p].todo = {} /\ pc'[p] # "sadd"
      <4>1. CASE StartLogin(p)
        BY <4>1 DEF StartLogin, Begin, NoRequest
      <4>2. CASE StartRefresh(p)
        BY <4>2 DEF StartRefresh, Begin, NoRequest
      <4>3. CASE StartLogout(p)
        BY <4>3 DEF StartLogout, Begin, NoRequest
      <4>4. CASE StartRevokeAll(p)
        BY <4>4 DEF StartRevokeAll, Begin, NoRequest
      <4> QED
        BY <2>2, <4>1, <4>2, <4>3, <4>4 DEF Start
    <3>3. Keys /\ Sets /\ Todo /\ Adds
      BY <3>1, <3>2
    <3> QED
      BY <2>1, <3>3, OwnedProcess
  <2>3. CASE SetRefresh(p)
    <3>1. Keys /\ Sets
      BY <2>3 DEF SetRefresh, SetRefreshKey
    <3>2. Todo
      BY <2>a, <2>3 DEF SetRefresh, NoRequest
    <3>3. Adds
      <4>1. req[p].new \in Tokens
        BY <2>3 DEF SetRefresh, LocalsOK, IssueLabels
      <4> QED
        BY <2>3, <4>1 DEF SetRefresh, SetRefreshKey, NoRequest
    <3> QED
      BY <2>1, <3>1, <3>2, <3>3, OwnedProcess
  <2>4. CASE TrackSession(p)
    <3>1. Keys /\ Sets
      BY <2>4 DEF TrackSession, AddUserSession
    <3>2. Todo
      BY <2>a, <2>4 DEF TrackSession, AfterStore, NoRequest
    <3>3. Adds
      BY <2>4 DEF TrackSession, AfterStore
    <3> QED
      BY <2>1, <3>1, <3>2, <3>3, OwnedProcess
  <2>5. CASE SetSession(p) \/ DelSession(p)
    <3>1. Keys /\ Sets /\ Adds
      BY <2>5 DEF SetSession, DelSession
    <3>2. Todo
      BY <2>5 DEF SetSession, DelSession, NoRequest
    <3> QED
      BY <2>1, <3>1, <3>2, OwnedProcess
  <2>6. CASE GetDel(p)
    <3>1. Keys /\ Sets
      BY <2>6 DEF GetDel, GetDelRefreshKey, DelRefreshKey
    <3>2. Todo
      BY <2>a, <2>6 DEF GetDel, NotConsumed, NoRequest
    <3>3. Adds
      BY <2>6 DEF GetDel, NotConsumed
    <3> QED
      BY <2>1, <3>1, <3>2, <3>3, OwnedProcess
  <2>7. CASE Untrack(p) \/ DelSet(p)
    <3>1. Keys /\ Sets
      BY <2>7 DEF Untrack, RemUserSession, DelSet, DelUserSessions
    <3>2. Todo
      BY <2>a, <2>7 DEF Untrack, DelSet, NoRequest
    <3>3. Adds
      BY <2>7 DEF Untrack, DelSet
    <3> QED
      BY <2>1, <3>1, <3>2, <3>3, OwnedProcess
  <2>8. CASE FindUser(p)
    <3>1. Keys /\ Sets /\ Adds
      BY <2>8 DEF FindUser
    <3>2. Todo
      BY <2>a, <2>8 DEF FindUser, NoRequest
    <3> QED
      BY <2>1, <3>1, <3>2, OwnedProcess
  <2>9. CASE SMembers(p)
    <3>1. Keys /\ Sets /\ Adds
      BY <2>9 DEF SMembers
    <3>2. Todo
      BY <2>9 DEF SMembers, NoRequest
    <3> QED
      BY <2>1, <3>1, <3>2, OwnedProcess
  <2>10. CASE DelRefresh(p)
    <3>1. Keys
      BY <2>10 DEF DelRefresh, DelRefreshKey
    <3>2. Sets /\ Adds
      BY <2>10 DEF DelRefresh
    <3>3. Todo
      BY <2>10 DEF DelRefresh, NoRequest
    <3> QED
      BY <2>1, <3>1, <3>2, <3>3, OwnedProcess
  <2> QED
    BY <1>4, <2>2, <2>3, <2>4, <2>5, <2>6, <2>7, <2>8, <2>9, <2>10
       DEF Step, StoreRefreshToken
<1> QED
  BY <1>1, <1>2, <1>3, <1>4 DEF Next

LEMMA OwnersInvariant == Spec => [](TrackedAfterSet /\ OwnersAgree)
<1>1. Init => TrackedAfterSet /\ OwnersAgree
  BY TrackedInit, OwnedInit
<1>2. ChainInv /\ ChainInv' /\ TrackedAfterSet /\ OwnersAgree /\ [Next]_vars
      => TrackedAfterSet' /\ OwnersAgree'
  BY TrackedNext, OwnedNext DEF ChainInv
<1> QED
  BY <1>1, <1>2, ChainInvariant, PTL DEF Spec

(* A revocation logs nobody out but the user it is for, whatever is stored *)
(* or consumed between its commands.                                       *)
THEOREM RevocationHitsItsUser == Spec => []RevocationHitsOwnUser
<1>1. OwnersAgree => RevocationHitsOwnUser
  BY DEF OwnersAgree
<1> QED
  BY <1>1, OwnersInvariant, PTL

-----------------------------------------------------------------------------
(* Refinement: every round trip of every handler, successful or not, is one *)
(* step of the lifecycle or a stutter.                                      *)

Renews(p) == pc[p] \in {"srem", "findUser"} /\ req[p].op = "refresh"

Draws(p) == pc[p] = "setRefresh"

(* Refresh tokens as keys good for one use: the tokens whose SET was sent,  *)
(* those whose key is there, and the Refresh requests that have consumed a  *)
(* token and not drawn the next one.                                        *)
TokensGiven == {t \in Tokens : root[t] # NoToken /\ ~Drawn(t)}
TokensStored == {t \in Tokens : Live(t)}
TokenUsers == [t \in Tokens |-> {p \in Procs : Renews(p) /\ req[p].old = t}]

Promise == INSTANCE PromiseProofs
             WITH status <- Status, chain <- root, renewing <- Renewing,
                  Keys <- Tokens, Holders <- Procs,
                  given <- TokensGiven, stored <- TokensStored, held <- TokenUsers

(* One chain has one holder, and revoked tokens stay behind their SET.      *)
SessionInv == ChainInv /\ TrackedAfterSet

LEMMA SessionInvariant == Spec => []SessionInv
<1>1. Init => TrackedAfterSet
  BY TrackedInit
<1>2. ChainInv /\ ChainInv' /\ TrackedAfterSet /\ [Next]_vars => TrackedAfterSet'
  BY TrackedNext DEF ChainInv
<1> QED
  BY <1>1, <1>2, ChainInvariant, PTL DEF Spec, SessionInv

-----------------------------------------------------------------------------
(* Delivery, and what one step can do.                                     *)

RevokeLabels == {"smembers", "delRefresh", "delSet"}

(* A token is delivered after the last command that stores it, and only    *)
(* delivered tokens are presented; one that is consumed is dead.           *)
Delivered ==
  \A p \in Procs :
    /\ pc[p] \in IssueLabels => req[p].new \notin refreshCookie
    /\ pc[p] \in ConsumeLabels => req[p].old \in refreshCookie
    /\ pc[p] = "srem" => ~Live(req[p].old)
    /\ pc[p] \in RevokeLabels => req[p].op = "revokeAll"

Sound == SessionInv /\ OwnersAgree /\ Delivered

-----------------------------------------------------------------------------
(* What one step of the request at p can do.                               *)

Others(p) == \A q \in Procs \ {p} : pc'[q] = pc[q] /\ req'[q] = req[q]

KeyEffects(p) ==
  /\ \A t \in Tokens :
       \/ refresh'[t] \in {refresh[t], NoUser}
       \/ pc[p] = "setRefresh" /\ t = req[p].new
  /\ pc'[p] = "srem" => refresh'[req'[p].old] = NoUser

(* The SADD at p is done or has failed. *)
Tracks(p) == pc[p] = "sadd" /\ pc'[p] # "sadd"

SetEffects(p) ==
  \A u \in Users, t \in Tokens :
    /\ t \in userSessions'[u] =>
         \/ t \in userSessions[u]
         \/ Tracks(p) /\ t = req[p].new /\ u = req[p].usr
    /\ t \in userSessions[u] =>
         \/ t \in userSessions'[u]
         \/ pc[p] = "srem" /\ t = req[p].old
         \/ pc[p] = "delSet" /\ u = req[p].usr

DeliveryEffects(p) ==
  /\ refreshCookie \subseteq refreshCookie'
  /\ \A t \in refreshCookie' \ refreshCookie :
       /\ t = req[p].new
       /\ pc'[p] = "idle"
       /\ \/ pc[p] = "setSession"
          \/ pc[p] = "sadd" /\ t \in userSessions'[req[p].usr]
  /\ pc'[p] \in IssueLabels =>
       \/ pc'[p] = "setRefresh" /\ root[req'[p].new] = NoToken
       \/ pc[p] \in IssueLabels /\ req'[p].new = req[p].new
  /\ pc'[p] = "setSession" => pc[p] = "sadd" /\ req[p].new \in userSessions'[req[p].usr]
  /\ pc'[p] \in ConsumeLabels => req'[p].old \in refreshCookie

RevokeEffects(p) ==
  /\ pc'[p] \in RevokeLabels => req'[p].op = "revokeAll"
  /\ pc'[p] = "smembers" =>
       pc[p] = "idle" /\ UNCHANGED <<refresh, refreshCookie, root>>
  /\ pc'[p] = "delRefresh" =>
       /\ req'[p].usr = req[p].usr
       /\ \/ pc[p] = "smembers" /\ req'[p].todo = userSessions[req[p].usr]
          \/ /\ pc[p] = "delRefresh"
             /\ \A t \in req[p].todo : t \in req'[p].todo \/ refresh'[t] = NoUser
  /\ pc'[p] = "delSet" =>
       pc[p] = "delRefresh" /\ req'[p].usr = req[p].usr /\ req[p].todo = {}

(* p takes over a chain, with its token. *)
Takes(p) ==
  /\ pc[p] = "getdel" /\ Live(req[p].old)
  /\ pc'[p] = "srem" /\ req'[p].op = "refresh"
  /\ req'[p].old = req[p].old /\ req'[p].usr = refresh[req[p].old]

CarryEffects(p) ==
  Carries(p)' =>
    \/ Carries(p) /\ Carried(p)' = Carried(p)
    \/ \E t \in Tokens : root[t] = NoToken /\ Carried(p)' = t
    \/ Takes(p)

Effects(p) ==
  /\ Others(p)
  /\ KeyEffects(p)
  /\ SetEffects(p)
  /\ DeliveryEffects(p)
  /\ RevokeEffects(p)
  /\ CarryEffects(p)

LEMMA LocalTypes ==
  ASSUME Typed, NEW p \in Procs
  PROVE  /\ req[p] \in Requests
         /\ req[p].todo \subseteq Tokens
         /\ pc[p] \in Labels
         /\ pc[p] \in IssueLabels => req[p].new \in Tokens
         /\ pc[p] \in ConsumeLabels => req[p].old \in Tokens
         /\ pc[p] \in UserLabels => req[p].usr \in Users
  BY DEF Typed, TypeOK, LocalsOK, Requests

LEMMA StartEffects ==
  ASSUME Sound, NEW p \in Procs, Start(p)
  PROVE  Effects(p)
<1> USE DEF KeyEffects, SetEffects, DeliveryEffects, RevokeEffects, CarryEffects,
            IssueLabels, ConsumeLabels, RevokeLabels, Goto, Begin
<1>1. Typed
  BY DEF Sound, SessionInv, ChainInv
<1>2. pc \in [Procs -> Labels] /\ req \in [Procs -> Requests]
      /\ root \in [Tokens -> Tokens \cup {NoToken}]
  BY <1>1 DEF Typed, TypeOK
<1>3. Others(p)
  BY <1>1, OthersKeep DEF Others
<1>4. UNCHANGED <<refresh, userSessions, refreshCookie>> /\ pc[p] = "idle"
  BY DEF Start, StartLogin, StartRefresh, StartLogout, StartRevokeAll
<1>5. CASE StartLogin(p)
  <2>1. PICK t \in Tokens :
          /\ root[t] = NoToken /\ pc'[p] = "setRefresh" /\ req'[p].new = t /\ root'[t] = t
    BY <1>2, <1>5 DEF StartLogin, Fresh, NoRequest
  <2>2. CarryEffects(p)
    BY <2>1 DEF Carried
  <2> QED
    BY <1>3, <1>4, <2>1, <2>2 DEF Effects, Tracks
<1>6. CASE StartRefresh(p)
  <2>1. pc'[p] = "getdel" /\ req'[p].old \in refreshCookie
    BY <1>2, <1>6 DEF StartRefresh, NoRequest
  <2> QED
    BY <1>3, <1>4, <2>1 DEF Effects, Tracks, Carries
<1>7. CASE StartLogout(p)
  <2>1. \/ pc'[p] = "getdel" /\ req'[p].old \in refreshCookie
        \/ pc'[p] = "delSession"
    BY <1>2, <1>7 DEF StartLogout, NoRequest
  <2> QED
    BY <1>3, <1>4, <2>1 DEF Effects, Tracks, Carries
<1>8. CASE StartRevokeAll(p)
  <2>1. pc'[p] = "smembers" /\ req'[p].op = "revokeAll" /\ UNCHANGED root
    BY <1>2, <1>8 DEF StartRevokeAll, NoRequest
  <2> QED
    BY <1>3, <1>4, <2>1 DEF Effects, Tracks, Carries
<1> QED
  BY <1>5, <1>6, <1>7, <1>8 DEF Start

LEMMA StepEffects ==
  ASSUME Sound, NEW p \in Procs, Step(p)
  PROVE  Effects(p)
<1> USE DEF IssueLabels, ConsumeLabels, RevokeLabels, Goto, Finish, Tracks
<1>1. Typed /\ Rooted
  BY DEF Sound, SessionInv, ChainInv
<1>2. /\ pc \in [Procs -> Labels] /\ req \in [Procs -> Requests]
      /\ root \in [Tokens -> Tokens \cup {NoToken}]
      /\ refresh \in [Tokens -> Users \cup {NoUser}]
      /\ userSessions \in [Users -> SUBSET Tokens]
  BY <1>1 DEF Typed, TypeOK, StoreTypeOK
<1>3. Others(p)
  BY <1>1, OthersKeep DEF Others
<1>4. /\ pc[p] \in IssueLabels => req[p].new \in Tokens
      /\ pc[p] \in ConsumeLabels => req[p].old \in Tokens
      /\ pc[p] \in UserLabels => req[p].usr \in Users
  BY <1>1, LocalTypes
<1>5. /\ pc[p] \in ConsumeLabels => req[p].old \in refreshCookie
      /\ pc[p] = "srem" => refresh[req[p].old] = NoUser
      /\ pc[p] \in RevokeLabels => req[p].op = "revokeAll"
  BY DEF Sound, Delivered, Live
<1>6. CASE SetRefresh(p)
  <2>1. KeyEffects(p) /\ SetEffects(p)
    BY <1>2, <1>4, <1>6 DEF SetRefresh, SetRefreshKey, KeyEffects, SetEffects
  <2>2. DeliveryEffects(p) /\ RevokeEffects(p)
    BY <1>2, <1>6 DEF SetRefresh, DeliveryEffects, RevokeEffects
  <2>3. CarryEffects(p)
    BY <1>2, <1>6 DEF SetRefresh, CarryEffects, Carries
  <2> QED
    BY <1>3, <2>1, <2>2, <2>3 DEF Effects
<1>7. CASE TrackSession(p)
  <2>1. KeyEffects(p) /\ SetEffects(p)
    BY <1>2, <1>4, <1>7
       DEF TrackSession, AfterStore, AddUserSession, KeyEffects, SetEffects, UserLabels
  <2>2. DeliveryEffects(p)
    BY <1>2, <1>4, <1>7
       DEF TrackSession, AfterStore, AddUserSession, DeliveryEffects, UserLabels
  <2>3. RevokeEffects(p) /\ CarryEffects(p)
    BY <1>2, <1>7 DEF TrackSession, AfterStore, RevokeEffects, CarryEffects, Carries
  <2> QED
    BY <1>3, <2>1, <2>2, <2>3 DEF Effects
<1>8. CASE SetSession(p)
  BY <1>2, <1>3, <1>8
     DEF SetSession, Effects, KeyEffects, SetEffects, DeliveryEffects, RevokeEffects,
         CarryEffects, Carries
<1>9. CASE DelSession(p)
  BY <1>2, <1>3, <1>9
     DEF DelSession, Effects, KeyEffects, SetEffects, DeliveryEffects, RevokeEffects,
         CarryEffects, Carries
<1>10. CASE GetDel(p)
  <2>1. /\ UNCHANGED <<userSessions, refreshCookie, root>>
        /\ pc[p] = "getdel"
        /\ \/ /\ pc'[p] = "srem" /\ Live(req[p].old)
              /\ refresh' = [refresh EXCEPT ![req[p].old] = NoUser]
              /\ req'[p].old = req[p].old /\ req'[p].op = req[p].op
              /\ req'[p].usr = refresh[req[p].old]
           \/ /\ pc'[p] \in {"idle", "delSession"}
              /\ refresh' \in {refresh, [refresh EXCEPT ![req[p].old] = NoUser]}
    BY <1>2, <1>10 DEF GetDel, NotConsumed, GetDelRefreshKey, DelRefreshKey, Requests
  <2>2. KeyEffects(p) /\ SetEffects(p)
    BY <1>2, <1>4, <2>1 DEF KeyEffects, SetEffects
  <2>3. DeliveryEffects(p) /\ RevokeEffects(p)
    BY <1>5, <2>1 DEF DeliveryEffects, RevokeEffects
  <2>4. CarryEffects(p)
    BY <2>1 DEF CarryEffects, Carries, Takes
  <2> QED
    BY <1>3, <2>2, <2>3, <2>4 DEF Effects
<1>11. CASE Untrack(p)
  <2>1. /\ UNCHANGED <<refresh, refreshCookie, root, req>>
        /\ pc[p] = "srem"
        /\ pc'[p] = IF req[p].op = "refresh" THEN "findUser" ELSE "delSession"
        /\ \/ UNCHANGED userSessions
           \/ userSessions' = [userSessions EXCEPT ![req[p].usr] = @ \ {req[p].old}]
    BY <1>2, <1>11 DEF Untrack, RemUserSession
  <2>2. KeyEffects(p) /\ SetEffects(p)
    BY <1>2, <1>4, <2>1 DEF KeyEffects, SetEffects, UserLabels
  <2>3. DeliveryEffects(p) /\ RevokeEffects(p)
    BY <1>5, <2>1 DEF DeliveryEffects, RevokeEffects
  <2>4. CarryEffects(p)
    BY <2>1 DEF CarryEffects, Carries, Carried
  <2> QED
    BY <1>3, <2>2, <2>3, <2>4 DEF Effects
<1>12. CASE FindUser(p)
  <2>1. /\ UNCHANGED <<refresh, userSessions, refreshCookie>>
        /\ pc[p] = "findUser"
        /\ \/ \E t \in Tokens : /\ root[t] = NoToken /\ pc'[p] = "setRefresh"
                                /\ req'[p].new = t /\ root'[t] = root[req[p].old]
           \/ pc'[p] = "idle" /\ UNCHANGED root
    BY <1>2, <1>12 DEF FindUser, Fresh, Requests
  <2>2. KeyEffects(p) /\ SetEffects(p) /\ DeliveryEffects(p) /\ RevokeEffects(p)
    BY <2>1 DEF KeyEffects, SetEffects, DeliveryEffects, RevokeEffects
  <2>3. req[p].op = "refresh"
    BY <1>1, <2>1 DEF Rooted
  <2>4. CarryEffects(p)
    BY <2>1, <2>3 DEF CarryEffects, Carries, Carried
  <2> QED
    BY <1>3, <2>2, <2>4 DEF Effects
<1>13. CASE SMembers(p)
  <2>1. /\ UNCHANGED <<refresh, userSessions, refreshCookie, root>>
        /\ pc[p] = "smembers"
        /\ \/ /\ pc'[p] = "delRefresh"
              /\ req'[p].op = req[p].op /\ req'[p].usr = req[p].usr
              /\ req'[p].todo = userSessions[req[p].usr]
           \/ pc'[p] = "idle"
    BY <1>2, <1>13 DEF SMembers, Requests
  <2>2. KeyEffects(p) /\ SetEffects(p) /\ DeliveryEffects(p) /\ RevokeEffects(p)
    BY <1>5, <2>1 DEF KeyEffects, SetEffects, DeliveryEffects, RevokeEffects
  <2>3. CarryEffects(p)
    BY <2>1 DEF CarryEffects, Carries
  <2> QED
    BY <1>3, <2>2, <2>3 DEF Effects
<1>14. CASE DelRefresh(p)
  <2>1. /\ UNCHANGED <<userSessions, refreshCookie, root>>
        /\ pc[p] = "delRefresh"
        /\ \/ \E t \in req[p].todo :
                /\ refresh' = [refresh EXCEPT ![t] = NoUser]
                /\ pc'[p] = "delRefresh"
                /\ req'[p].op = req[p].op /\ req'[p].usr = req[p].usr
                /\ req'[p].todo = req[p].todo \ {t}
           \/ /\ pc'[p] = "delSet" /\ req[p].todo = {}
              /\ UNCHANGED <<refresh, req>>
           \/ pc'[p] = "idle" /\ UNCHANGED refresh
    <3>1. /\ UNCHANGED <<userSessions, refreshCookie, root>>
          /\ pc[p] = "delRefresh"
      BY <1>14 DEF DelRefresh
    <3>2. ASSUME NEW t \in req[p].todo, DelRefreshKey(t), UNCHANGED pc,
                 req' = [req EXCEPT ![p].todo = req[p].todo \ {t}]
          PROVE  /\ refresh' = [refresh EXCEPT ![t] = NoUser]
                 /\ pc'[p] = "delRefresh"
                 /\ req'[p].op = req[p].op /\ req'[p].usr = req[p].usr
                 /\ req'[p].todo = req[p].todo \ {t}
      <4>1. req'[p] = [req[p] EXCEPT !.todo = req[p].todo \ {t}] /\ req[p] \in Requests
        BY <1>2, <3>2
      <4>2. /\ req'[p].op = req[p].op /\ req'[p].usr = req[p].usr
            /\ req'[p].todo = req[p].todo \ {t}
        BY <4>1 DEF Requests
      <4> QED
        BY <3>1, <3>2, <4>2 DEF DelRefreshKey
    <3>3. req[p].todo = {} /\ Goto(p, "delSet") => pc'[p] = "delSet"
      BY <1>2
    <3>4. Finish(p) => pc'[p] = "idle"
      BY <1>2
    <3> QED
      BY <1>14, <3>1, <3>2, <3>3, <3>4 DEF DelRefresh
  <2>2. req[p].todo \subseteq Tokens
    BY <1>1, LocalTypes
  <2>3. /\ \A t \in Tokens : refresh'[t] \in {refresh[t], NoUser}
        /\ pc'[p] \in {"delRefresh", "delSet", "idle"}
    <3>1. CASE UNCHANGED refresh
      BY <2>1, <3>1
    <3>2. CASE pc'[p] = "delRefresh" /\ \E t \in req[p].todo :
                 refresh' = [refresh EXCEPT ![t] = NoUser]
      <4>1. PICK t \in req[p].todo : refresh' = [refresh EXCEPT ![t] = NoUser]
        BY <3>2
      <4> QED
        BY <1>2, <3>2, <4>1
    <3> QED
      BY <2>1, <3>1, <3>2
  <2>4. KeyEffects(p)
    BY <2>3 DEF KeyEffects
  <2>5. SetEffects(p) /\ DeliveryEffects(p)
    BY <2>1, <2>3 DEF SetEffects, DeliveryEffects
  <2>6. RevokeEffects(p)
    BY <1>2, <1>5, <2>1, <2>2 DEF RevokeEffects
  <2>7. CarryEffects(p)
    BY <2>1 DEF CarryEffects, Carries
  <2> QED
    BY <1>3, <2>4, <2>5, <2>6, <2>7 DEF Effects
<1>15. CASE DelSet(p)
  <2>1. KeyEffects(p) /\ SetEffects(p)
    BY <1>2, <1>4, <1>15 DEF DelSet, DelUserSessions, KeyEffects, SetEffects, UserLabels
  <2>2. DeliveryEffects(p) /\ RevokeEffects(p) /\ CarryEffects(p)
    BY <1>2, <1>15 DEF DelSet, DeliveryEffects, RevokeEffects, CarryEffects, Carries
  <2> QED
    BY <1>3, <2>1, <2>2 DEF Effects
<1> QED
  BY <1>6, <1>7, <1>8, <1>9, <1>10, <1>11, <1>12, <1>13, <1>14, <1>15
     DEF Step, StoreRefreshToken

-----------------------------------------------------------------------------
(* Delivery.                                                               *)

LEMMA Parts ==
  ASSUME Sound
  PROVE  /\ Typed /\ Rooted /\ NoFork /\ TrackedAfterSet
         /\ OwnersAgree /\ RevocationHitsOwnUser /\ Delivered
         /\ refreshCookie \subseteq Tokens
         /\ \A t \in Tokens : refresh[t] \in Users \cup {NoUser}
         /\ \A u \in Users : userSessions[u] \subseteq Tokens
  BY DEF Sound, SessionInv, ChainInv, OwnersAgree, Typed, TypeOK, StoreTypeOK

(* No token comes to life but the one a request has drawn and nobody knows. *)
LEMMA Revived ==
  ASSUME Sound, NEW p \in Procs, Effects(p), NEW t \in Tokens, Live(t)', ~Live(t)
  PROVE  /\ pc[p] = "setRefresh" /\ t = req[p].new
         /\ t \notin refreshCookie
         /\ ~Seen(t)
<1>1. pc[p] = "setRefresh" /\ t = req[p].new
  BY DEF Effects, KeyEffects, Live
<1> QED
  BY <1>1, Parts DEF Delivered, TrackedAfterSet, IssueLabels

LEMMA DeliveredStep ==
  ASSUME Sound, NEW p \in Procs, Effects(p)
  PROVE  Delivered'
<1>1. /\ \A q \in Procs : /\ pc[q] \in IssueLabels => req[q].new \in Tokens
                          /\ pc[q] \in ConsumeLabels => req[q].old \in Tokens
      /\ Rooted /\ Delivered /\ refreshCookie \subseteq Tokens
  BY Parts, LocalTypes
<1>2. /\ KeyEffects(p) /\ DeliveryEffects(p) /\ RevokeEffects(p)
      /\ \A q \in Procs \ {p} : pc'[q] = pc[q] /\ req'[q] = req[q]
  BY DEF Effects, Others
<1>3. ASSUME NEW q \in Procs, pc'[q] \in IssueLabels
      PROVE  req'[q].new \notin refreshCookie'
  <2>1. CASE q = p
    BY <1>1, <1>2, <1>3, <2>1 DEF DeliveryEffects, Rooted, Delivered, IssueLabels
  <2>2. CASE q # p
    <3>1. ~(pc[p] \in IssueLabels /\ req[p].new = req[q].new)
      BY <1>2, <1>3, <2>2, Parts DEF TrackedAfterSet
    <3> QED
      BY <1>1, <1>2, <1>3, <2>2, <3>1 DEF DeliveryEffects, Delivered, IssueLabels
  <2> QED
    BY <2>1, <2>2
<1>4. ASSUME NEW q \in Procs
      PROVE  /\ pc'[q] \in ConsumeLabels => req'[q].old \in refreshCookie'
             /\ pc'[q] \in RevokeLabels => req'[q].op = "revokeAll"
  BY <1>1, <1>2 DEF DeliveryEffects, RevokeEffects, Delivered
<1>5. ASSUME NEW q \in Procs, pc'[q] = "srem"
      PROVE  refresh'[req'[q].old] = NoUser
  <2>1. CASE q = p
    BY <1>2, <1>5, <2>1 DEF KeyEffects, Live
  <2>2. CASE q # p
    <3>1. req[q].old \in refreshCookie /\ ~Live(req[q].old) /\ req'[q] = req[q]
      BY <1>1, <1>2, <1>5, <2>2 DEF Delivered, ConsumeLabels
    <3> DEFINE t == req[q].old
    <3>2. t \in Tokens /\ ~Live(t)'
      BY <1>1, <3>1, Revived
    <3> QED
      BY <3>1, <3>2 DEF Live
  <2> QED
    BY <2>1, <2>2
<1> QED
  BY <1>3, <1>4, <1>5 DEF Delivered, Live

LEMMA DeliveredNext ==
  ASSUME Sound, [Next]_vars
  PROVE  Delivered'
<1>1. ASSUME NEW p \in Procs, Start(p) \/ Step(p)
      PROVE  Delivered'
  BY <1>1, StartEffects, StepEffects, DeliveredStep
<1>2. ASSUME NEW t \in Tokens, Expire(t)
      PROVE  Delivered'
  <2>1. \A p \in Procs : pc[p] = "srem" => req[p].old \in Tokens
    BY Parts, LocalTypes DEF ConsumeLabels
  <2> QED
    BY <1>2, <2>1, Parts
       DEF Expire, DelRefreshKey, Delivered, Live, Typed, TypeOK, StoreTypeOK
<1>3. CASE Crash
  BY <1>3 DEF Crash, Delivered, IssueLabels, ConsumeLabels, RevokeLabels
<1>4. CASE UNCHANGED vars
  BY <1>4, Parts DEF vars, Delivered, Live
<1> QED
  BY <1>1, <1>2, <1>3, <1>4 DEF Next

LEMMA SoundInvariant == Spec => []Sound
<1>1. Init => Delivered
  BY DEF Init, Delivered, IssueLabels, ConsumeLabels, RevokeLabels
<1>2. SessionInv /\ OwnersAgree /\ Delivered /\ [Next]_vars => Delivered'
  BY DeliveredNext DEF Sound
<1> QED
  BY <1>1, <1>2, SessionInvariant, OwnersInvariant, PTL DEF Spec, Sound

-----------------------------------------------------------------------------
(* Token pairs.                                                            *)

(* What a request does to the SSO sessions.                                *)

(* A key comes to life only by the SET that ends a login, whose token      *)
(* nobody has yet.                                                         *)
SsoEffects(p) ==
  /\ \A t \in Tokens :
       \/ sso'[t] \in {sso[t], NoUser}
       \/ pc[p] = "setSession" /\ t = req[p].new /\ sso'[t] = req[p].usr
  /\ ssoCookie \subseteq ssoCookie'
  /\ \A t \in ssoCookie' \ ssoCookie :
       pc[p] = "setSession" /\ t = req[p].new /\ t \in refreshCookie'

(* What a request carries: it may be answered, keeps what it has, or draws *)
(* a token, for a chain of its own or for the one it holds.                *)
DrawsFor(p, t, s) ==
  /\ t \in Tokens /\ root[t] = NoToken
  /\ pc'[p] = "setRefresh" /\ req'[p].new = t /\ root'[t] = s

LocalEffects(p) ==
  \/ pc'[p] = "idle" /\ req'[p] = NoRequest
  \/ /\ pc'[p] # "idle" /\ pc[p] # "idle"
     /\ req'[p].op = req[p].op /\ req'[p].sess = req[p].sess /\ req'[p].old = req[p].old
     /\ \/ req'[p].new = req[p].new
        \/ req[p].old \in Tokens /\ DrawsFor(p, req'[p].new, root[req[p].old])

(* The owner of a token pair stays who it is while it is issued.           *)
OwnerEffects(p) ==
  /\ pc'[p] \in IssueLabels =>
       \/ root[req'[p].new] = NoToken /\ pc'[p] = "setRefresh" /\ req'[p].new \in Tokens
       \/ /\ pc[p] \in IssueLabels /\ pc[p] # "setSession"
          /\ req'[p].new = req[p].new /\ req'[p].usr = req[p].usr
          /\ UNCHANGED sso
          /\ pc[p] = "setRefresh" => pc'[p] = "sadd" /\ refresh'[req[p].new] = req[p].usr
  /\ pc[p] = "setRefresh" => refresh'[req[p].new] \in {refresh[req[p].new], req[p].usr}

LEMMA StepSso ==
  ASSUME Sound, NEW p \in Procs, Step(p)
  PROVE  SsoEffects(p) /\ LocalEffects(p) /\ OwnerEffects(p)
<1> USE DEF Goto, Finish, IssueLabels
<1>1. Typed /\ Rooted
  BY Parts
<1>2. /\ pc \in [Procs -> Labels] /\ req \in [Procs -> Requests]
      /\ root \in [Tokens -> Tokens \cup {NoToken}]
      /\ refresh \in [Tokens -> Users \cup {NoUser}]
      /\ sso \in [Tokens -> Users \cup {NoUser}]
  BY <1>1 DEF Typed, TypeOK, StoreTypeOK
<1>3. /\ pc[p] \in IssueLabels => req[p].new \in Tokens
      /\ pc[p] \in ConsumeLabels => req[p].old \in Tokens
  BY <1>1, LocalTypes
<1>4. CASE SetRefresh(p)
  <2>1. SsoEffects(p)
    BY <1>4 DEF SetRefresh, SsoEffects
  <2>2. LocalEffects(p)
    BY <1>2, <1>4 DEF SetRefresh, LocalEffects
  <2>3. OwnerEffects(p)
    BY <1>2, <1>3, <1>4 DEF SetRefresh, SetRefreshKey, OwnerEffects
  <2> QED
    BY <2>1, <2>2, <2>3
<1>5. CASE TrackSession(p)
  <2>1. SsoEffects(p)
    BY <1>5 DEF TrackSession, SsoEffects
  <2>2. LocalEffects(p)
    BY <1>2, <1>5 DEF TrackSession, AfterStore, LocalEffects
  <2>3. OwnerEffects(p)
    BY <1>2, <1>5 DEF TrackSession, AfterStore, OwnerEffects
  <2> QED
    BY <2>1, <2>2, <2>3
<1>6. CASE SetSession(p)
  <2>1. SsoEffects(p)
    BY <1>2, <1>3, <1>6 DEF SetSession, SetSessionKey, SsoEffects
  <2>2. LocalEffects(p) /\ OwnerEffects(p)
    BY <1>2, <1>6 DEF SetSession, LocalEffects, OwnerEffects
  <2> QED
    BY <2>1, <2>2
<1>7. CASE GetDel(p) \/ Untrack(p) \/ SMembers(p) \/ DelRefresh(p) \/ DelSet(p)
  <2>1. SsoEffects(p)
    BY <1>7 DEF GetDel, Untrack, SMembers, DelRefresh, DelSet, SsoEffects
  <2>2. /\ pc[p] \notin IssueLabels \cup {"idle"}
        /\ \/ pc'[p] = "idle" /\ req'[p] = NoRequest
           \/ /\ pc'[p] \notin IssueLabels \cup {"idle"}
              /\ req'[p].op = req[p].op /\ req'[p].sess = req[p].sess
              /\ req'[p].old = req[p].old /\ req'[p].new = req[p].new
    BY <1>2, <1>7 DEF GetDel, NotConsumed, Untrack, SMembers, DelRefresh, DelSet, Requests
  <2> QED
    BY <2>1, <2>2 DEF LocalEffects, OwnerEffects
<1>8. CASE FindUser(p)
  <2>1. SsoEffects(p)
    BY <1>8 DEF FindUser, SsoEffects
  <2>2. /\ pc[p] = "findUser"
        /\ \/ pc'[p] = "idle" /\ req'[p] = NoRequest
           \/ \E t \in Tokens :
                /\ root[t] = NoToken /\ root'[t] = root[req[p].old]
                /\ pc'[p] = "setRefresh" /\ req'[p] = [req[p] EXCEPT !.new = t]
    BY <1>2, <1>8 DEF FindUser, Fresh
  <2>3. req[p] \in Requests /\ req[p].old \in Tokens
    BY <1>2, <1>3, <2>2 DEF ConsumeLabels
  <2>4. LocalEffects(p)
    BY <2>2, <2>3 DEF LocalEffects, DrawsFor, Requests
  <2>5. OwnerEffects(p)
    BY <2>2, <2>3 DEF OwnerEffects, Requests
  <2> QED
    BY <2>1, <2>4, <2>5
<1>9. CASE DelSession(p)
  <2>1. SsoEffects(p)
    BY <1>2, <1>9 DEF DelSession, DelSessionKey, SsoEffects
  <2>2. LocalEffects(p) /\ OwnerEffects(p)
    BY <1>2, <1>9 DEF DelSession, LocalEffects, OwnerEffects
  <2> QED
    BY <2>1, <2>2
<1> QED
  BY <1>4, <1>5, <1>6, <1>7, <1>8, <1>9 DEF Step, StoreRefreshToken

(* A request begins with the tokens its client presents, or draws one.     *)
LEMMA StartSso ==
  ASSUME Sound, NEW p \in Procs, Start(p)
  PROVE  /\ UNCHANGED <<refresh, sso, refreshCookie, ssoCookie>>
         /\ pc[p] = "idle" /\ pc'[p] # "idle"
         /\ \/ /\ pc'[p] \notin IssueLabels /\ UNCHANGED root
               /\ req'[p].new = NoToken
               /\ req'[p].op \in {"refresh", "logout", "revokeAll"}
               /\ req'[p].op = "revokeAll" => req'[p].old = NoToken
            \/ /\ DrawsFor(p, req'[p].new, req'[p].new)
               /\ req'[p].old = NoToken /\ req'[p].op \in {"login", "verify"}
<1>1. /\ pc \in [Procs -> Labels] /\ req \in [Procs -> Requests]
      /\ root \in [Tokens -> Tokens \cup {NoToken}]
  BY Parts DEF Typed, TypeOK
<1>2. CASE StartLogin(p)
  BY <1>1, <1>2 DEF StartLogin, Begin, Goto, Fresh, DrawsFor, NoRequest
<1>3. CASE StartRefresh(p)
  BY <1>1, <1>3 DEF StartRefresh, Begin, Goto, NoRequest, IssueLabels
<1>4. CASE StartLogout(p)
  BY <1>1, <1>4 DEF StartLogout, Begin, Goto, NoRequest, IssueLabels
<1>5. CASE StartRevokeAll(p)
  BY <1>1, <1>5 DEF StartRevokeAll, Begin, Goto, NoRequest, IssueLabels
<1> QED
  BY <1>2, <1>3, <1>4, <1>5 DEF Start

(* The two keys of a token pair.                                           *)

(* An SSO token goes out with its refresh token; it has no key before its  *)
(* SET, and never one of another user than its refresh token's.            *)
PairsAgree ==
  /\ ssoCookie \subseteq refreshCookie
  /\ \A p \in Procs :
       /\ pc[p] = "idle" => req[p] = NoRequest
       /\ pc[p] \in IssueLabels => sso[req[p].new] = NoUser
       /\ pc[p] \in {"sadd", "setSession"} => refresh[req[p].new] \in {req[p].usr, NoUser}
  /\ \A t \in Tokens :
       /\ sso[t] # NoUser => root[t] # NoToken
       /\ refresh[t] = NoUser \/ sso[t] = NoUser \/ refresh[t] = sso[t]

LEMMA PairsInit == Init => PairsAgree
  BY DEF Init, StoreInit, PairsAgree, IssueLabels

(* A delivered SSO token that has died stays dead.                         *)
LEMMA SsoDeadStays ==
  ASSUME Sound, PairsAgree, [Next]_vars, NEW t \in ssoCookie, sso[t] = NoUser
  PROVE  sso'[t] = NoUser /\ t \in ssoCookie'
<1>0. ssoCookie \subseteq Tokens /\ t \in refreshCookie /\ sso \in [Tokens -> Users \cup {NoUser}]
  BY Parts DEF PairsAgree, Typed, TypeOK, StoreTypeOK
<1>1. ASSUME NEW p \in Procs, Step(p)
      PROVE  sso'[t] = NoUser /\ t \in ssoCookie'
  <2>1. ~(pc[p] = "setSession" /\ t = req[p].new)
    BY <1>0, Parts DEF Delivered, IssueLabels
  <2> QED
    BY <1>0, <1>1, <2>1, StepSso DEF SsoEffects
<1>2. ASSUME NEW p \in Procs, Start(p)
      PROVE  sso'[t] = NoUser /\ t \in ssoCookie'
  BY <1>2, StartSso
<1>3. ASSUME NEW s \in Tokens, Expire(s)
      PROVE  sso'[t] = NoUser /\ t \in ssoCookie'
  BY <1>0, <1>3 DEF Expire, DelSessionKey
<1>4. CASE Crash \/ UNCHANGED vars
  BY <1>4 DEF Crash, vars
<1> QED
  BY <1>1, <1>2, <1>3, <1>4 DEF Next

LEMMA PairsStart ==
  ASSUME Sound, PairsAgree, NEW p \in Procs, Start(p)
  PROVE  PairsAgree'
<1>1. /\ \A q \in Procs \ {p} : pc'[q] = pc[q] /\ req'[q] = req[q]
      /\ \A t \in Tokens : root[t] # NoToken => root'[t] = root[t]
  BY OthersKeep, RootIsFinal, Parts DEF Next
<1>2. pc'[p] \in IssueLabels =>
        req'[p].new \in Tokens /\ sso[req'[p].new] = NoUser /\ pc'[p] = "setRefresh"
  BY StartSso DEF DrawsFor, PairsAgree
<1>3. UNCHANGED <<refresh, sso, refreshCookie, ssoCookie>> /\ pc'[p] # "idle"
  BY StartSso
<1>4. /\ \A q \in Procs :
           /\ pc'[q] = "idle" => req'[q] = NoRequest
           /\ pc'[q] \in IssueLabels => sso'[req'[q].new] = NoUser
           /\ pc'[q] \in {"sadd", "setSession"} => refresh'[req'[q].new] \in {req'[q].usr, NoUser}
  BY <1>1, <1>2, <1>3 DEF PairsAgree, IssueLabels
<1> QED
  BY <1>1, <1>3, <1>4 DEF PairsAgree

LEMMA PairsStep ==
  ASSUME Sound, PairsAgree, NEW p \in Procs, Step(p)
  PROVE  PairsAgree'
<1>1. /\ \A q \in Procs \ {p} : pc'[q] = pc[q] /\ req'[q] = req[q]
      /\ \A t \in Tokens : root[t] # NoToken => root'[t] = root[t]
  BY OthersKeep, RootIsFinal, Parts DEF Next
<1>2. /\ Typed /\ Rooted /\ TrackedAfterSet
      /\ KeyEffects(p) /\ DeliveryEffects(p) /\ SsoEffects(p) /\ LocalEffects(p)
      /\ OwnerEffects(p)
  BY StepSso, StepEffects, Parts DEF Effects
<1>3. /\ \A q \in Procs : pc[q] \in IssueLabels =>
           req[q].new \in Tokens /\ root[req[q].new] # NoToken
      /\ \A q \in Procs \ {p} : pc[p] \in IssueLabels /\ pc[q] \in IssueLabels
                                  => req[q].new # req[p].new
  BY <1>2, LocalTypes DEF Rooted, TrackedAfterSet
<1>4. ssoCookie' \subseteq refreshCookie'
  BY <1>2 DEF SsoEffects, DeliveryEffects, PairsAgree
<1>5. \A q \in Procs : pc'[q] = "idle" => req'[q] = NoRequest
  BY <1>1, <1>2 DEF LocalEffects, PairsAgree
<1>6. ASSUME NEW q \in Procs, pc'[q] \in IssueLabels
      PROVE  sso'[req'[q].new] = NoUser
  <2>1. CASE q # p
    BY <1>1, <1>2, <1>3, <1>6, <2>1 DEF SsoEffects, PairsAgree, IssueLabels
  <2>2. CASE q = p
    <3>1. CASE root[req'[p].new] = NoToken /\ req'[p].new \in Tokens
      <4>1. ~(pc[p] = "setSession" /\ req'[p].new = req[p].new)
        BY <1>3, <3>1 DEF IssueLabels
      <4> QED
        BY <1>2, <2>2, <3>1, <4>1 DEF SsoEffects, PairsAgree
    <3> QED
      BY <1>2, <1>6, <2>2, <3>1 DEF OwnerEffects, PairsAgree
  <2> QED
    BY <2>1, <2>2
<1>7. ASSUME NEW q \in Procs, pc'[q] \in {"sadd", "setSession"}
      PROVE  refresh'[req'[q].new] \in {req'[q].usr, NoUser}
  <2>1. CASE q # p
    BY <1>1, <1>2, <1>3, <1>7, <2>1 DEF KeyEffects, PairsAgree, IssueLabels
  <2>2. CASE q = p
    <3>1. /\ pc[p] \in IssueLabels /\ pc[p] # "setSession"
          /\ req'[p].new = req[p].new /\ req'[p].usr = req[p].usr
          /\ pc[p] = "setRefresh" => refresh'[req[p].new] = req[p].usr
      BY <1>2, <1>7, <2>2 DEF OwnerEffects, IssueLabels
    <3> QED
      BY <1>2, <1>3, <2>2, <3>1 DEF KeyEffects, PairsAgree, IssueLabels
  <2> QED
    BY <2>1, <2>2
<1>8. ASSUME NEW t \in Tokens
      PROVE  /\ sso'[t] # NoUser => root'[t] # NoToken
             /\ refresh'[t] = NoUser \/ sso'[t] = NoUser \/ refresh'[t] = sso'[t]
  <2>1. CASE pc[p] \in IssueLabels /\ t = req[p].new
    <3>1. root'[t] # NoToken
      BY <1>1, <1>3, <2>1
    <3>2. CASE pc[p] = "setRefresh"
      <4>1. sso'[t] = NoUser
        BY <1>2, <2>1, <3>2 DEF SsoEffects, PairsAgree, IssueLabels
      <4> QED
        BY <3>1, <4>1
    <3>3. CASE pc[p] # "setRefresh"
      <4>1. refresh'[t] \in {req[p].usr, NoUser} /\ sso'[t] \in {req[p].usr, NoUser}
        BY <1>2, <2>1, <3>3 DEF KeyEffects, SsoEffects, PairsAgree, IssueLabels
      <4> QED
        BY <3>1, <4>1
    <3> QED
      BY <3>2, <3>3
  <2>2. CASE ~(pc[p] \in IssueLabels /\ t = req[p].new)
    <3>1. refresh'[t] \in {refresh[t], NoUser} /\ sso'[t] \in {sso[t], NoUser}
      BY <1>2, <2>2 DEF KeyEffects, SsoEffects, IssueLabels
    <3> QED
      BY <1>1, <3>1 DEF PairsAgree
  <2> QED
    BY <2>1, <2>2
<1> QED
  BY <1>4, <1>5, <1>6, <1>7, <1>8 DEF PairsAgree

LEMMA PairsNext ==
  ASSUME Sound, PairsAgree, [Next]_vars
  PROVE  PairsAgree'
<1>1. ASSUME NEW t \in Tokens, Expire(t)
      PROVE  PairsAgree'
  <2>1. /\ \A s \in Tokens : refresh'[s] \in {refresh[s], NoUser} /\ sso'[s] \in {sso[s], NoUser}
        /\ UNCHANGED <<refreshCookie, ssoCookie, pc, req, root>>
    BY <1>1, Parts DEF Expire, DelRefreshKey, DelSessionKey, Typed, TypeOK, StoreTypeOK
  <2>2. \A q \in Procs : pc[q] \in IssueLabels => req[q].new \in Tokens
    BY Parts, LocalTypes
  <2> QED
    BY <2>1, <2>2 DEF PairsAgree, IssueLabels
<1>2. CASE Crash
  BY <1>2 DEF Crash, PairsAgree, IssueLabels
<1>3. CASE UNCHANGED vars
  BY <1>3 DEF vars, PairsAgree
<1> QED
  BY <1>1, <1>2, <1>3, PairsStart, PairsStep DEF Next

LEMMA PairsInvariant == Spec => []PairsAgree
  BY PairsInit, PairsNext, SoundInvariant, PTL DEF Spec

-----------------------------------------------------------------------------
(* What a revocation can find.                                             *)

(* t is delivered, or its user's set has it and it is about to be.         *)
HandsOut(t) ==
  \/ t \in refreshCookie
  \/ \E p \in Procs : pc[p] = "setSession" /\ req[p].new = t

(* But for the tokens of E, a live token is in its user's set, and what is *)
(* in that set is in the snapshot of a pipeline that will delete the set.  *)
FoundBut(E) ==
  /\ \A t \in Tokens :
       HandsOut(t) /\ Live(t) => t \in userSessions[refresh[t]] \cup E
  /\ \A r \in Procs : pc[r] \in {"delRefresh", "delSet"} =>
       \A t \in userSessions[req[r].usr] : Live(t) => t \in req[r].todo \cup E

LEMMA FoundStep ==
  ASSUME Sound, Sound', NEW p \in Procs, Effects(p), NEW E, NEW G, FoundBut(E),
         \A t \in E : Live(t)' => t \in G,
         \A r \in Procs :
           /\ Tracks(p) /\ pc[r] \in {"delRefresh", "delSet"}
           /\ req[r].usr = req[p].usr /\ refresh'[req[p].new] # NoUser
           => req[p].new \in G
  PROVE  FoundBut(G)'
<1>1. /\ Typed /\ TrackedAfterSet /\ OwnersAgree /\ RevocationHitsOwnUser /\ Delivered
      /\ refreshCookie \subseteq Tokens
      /\ \A t \in Tokens : refresh[t] \in Users \cup {NoUser}
      /\ \A u \in Users : userSessions[u] \subseteq Tokens
  BY Parts
<1>2. \A q \in Procs : /\ pc[q] \in IssueLabels => req[q].new \in Tokens
                       /\ pc[q] \in ConsumeLabels => req[q].old \in Tokens
                       /\ pc[q] \in UserLabels => req[q].usr \in Users
  BY <1>1, LocalTypes
<1>3. /\ KeyEffects(p) /\ SetEffects(p) /\ DeliveryEffects(p) /\ RevokeEffects(p)
      /\ \A q \in Procs \ {p} : pc'[q] = pc[q] /\ req'[q] = req[q]
  BY DEF Effects, Others
<1>7. \A u \in Users : userSessions'[u] \subseteq Tokens
  BY Parts DEF Sound, SessionInv, ChainInv, Typed, TypeOK, StoreTypeOK
<1>5. ASSUME NEW t \in Tokens, HandsOut(t)', Live(t)'
      PROVE  t \in userSessions'[refresh'[t]] \cup G
  <2>1. CASE HandsOut(t)
    <3>1. Live(t) /\ refresh'[t] = refresh[t] /\ refresh[t] \in Users
      <4>1. ~(pc[p] = "setRefresh" /\ t = req[p].new)
        BY <1>1, <2>1 DEF HandsOut, Delivered, TrackedAfterSet, IssueLabels
      <4> QED
        BY <1>1, <1>3, <1>5, <4>1 DEF KeyEffects, Live
    <3>2. t \in userSessions[refresh[t]] \cup E
      BY <2>1, <3>1 DEF FoundBut
    <3>3. CASE t \in E
      BY <1>5, <3>3
    <3>4. CASE t \in userSessions'[refresh[t]]
      BY <3>1, <3>4
    <3>5. CASE t \in userSessions[refresh[t]] /\ t \notin userSessions'[refresh[t]]
      <4>1. \/ pc[p] = "srem" /\ t = req[p].old
            \/ pc[p] = "delSet" /\ refresh[t] = req[p].usr
        BY <1>3, <3>1, <3>5 DEF SetEffects
      <4>2. ~(pc[p] = "srem" /\ t = req[p].old)
        BY <1>1, <3>1 DEF Delivered
      <4>3. req[p].todo = {}
        BY <1>1, <4>1, <4>2 DEF OwnersAgree
      <4> QED
        BY <1>5, <3>1, <3>5, <4>1, <4>2, <4>3 DEF FoundBut
    <3> QED
      BY <3>2, <3>3, <3>4, <3>5
  <2>2. CASE ~HandsOut(t)
    (* p hands it out: its SADD is done, for the user of the key. *)
    <3>1. /\ t = req[p].new /\ pc[p] = "sadd"
          /\ t \in userSessions'[req[p].usr]
      BY <1>3, <1>5, <2>2 DEF HandsOut, DeliveryEffects, IssueLabels
    <3>2. refresh'[t] = refresh[t] /\ refresh[t] = req[p].usr
      BY <1>1, <1>3, <1>5, <3>1 DEF KeyEffects, OwnersAgree, Live
    <3> QED
      BY <3>1, <3>2
  <2> QED
    BY <2>1, <2>2
<1>6. ASSUME NEW r \in Procs, pc'[r] \in {"delRefresh", "delSet"},
             NEW t \in userSessions'[req'[r].usr], Live(t)'
      PROVE  t \in req'[r].todo \cup G
  <2>0. req'[r].usr = req[r].usr /\ pc[r] \in RevokeLabels /\ req[r].usr \in Users
    <3>1. pc'[r] = "delRefresh" \/ pc'[r] = "delSet"
      BY <1>6
    <3>2. req'[r].usr = req[r].usr /\ pc[r] \in RevokeLabels
      <4>1. CASE r = p
        BY <1>3, <3>1, <4>1 DEF RevokeEffects, RevokeLabels
      <4>2. CASE r # p
        <5>1. pc'[r] = pc[r] /\ req'[r] = req[r]
          BY <1>3, <4>2
        <5> QED
          BY <3>1, <5>1 DEF RevokeLabels
      <4> QED
        BY <4>1, <4>2
    <3>3. pc[r] \in UserLabels
      BY <3>2 DEF RevokeLabels, UserLabels
    <3>4. req[r].usr \in Users
      BY <1>2, <3>3
    <3> QED
      BY <3>2, <3>4
  <2>1. CASE t \notin userSessions[req[r].usr]
    <3>0. t \in Tokens
      BY <1>6, <1>7, <2>0
    <3>1. Tracks(p) /\ t = req[p].new /\ req[r].usr = req[p].usr
      BY <1>3, <1>6, <2>0, <2>1, <3>0 DEF SetEffects
    <3>2. pc[r] \in {"delRefresh", "delSet"}
      BY <1>3, <1>6, <2>0, <3>1 DEF Tracks, RevokeLabels
    <3> QED
      BY <1>6, <3>1, <3>2 DEF Live
  <2>2. CASE t \in userSessions[req[r].usr]
    <3>1. t \in Tokens /\ Seen(t)
      BY <1>1, <2>0, <2>2 DEF Seen
    <3>2. Live(t)
      BY <1>6, <3>1, Revived
    <3>3. CASE r # p
      BY <1>3, <1>6, <2>0, <2>2, <3>2, <3>3 DEF FoundBut
    <3>4. CASE r = p
      BY <1>3, <1>6, <2>0, <2>2, <3>2, <3>4 DEF FoundBut, RevokeEffects, RevokeLabels, Live
    <3> QED
      BY <3>3, <3>4
  <2> QED
    BY <2>1, <2>2
<1> QED
  BY <1>5, <1>6 DEF FoundBut

-----------------------------------------------------------------------------
(* Who holds a login.                                                      *)

(* The request at p has consumed the token of a chain or begun the chain,  *)
(* and has not delivered the next token: it holds the chain.               *)
Holding(p) == pc[p] \in IssueLabels \/ Renews(p)
ChainHeld(p) == IF pc[p] \in IssueLabels THEN root[req[p].new] ELSE root[req[p].old]

(* One request at most holds a chain, and beside it no token of the chain  *)
(* can be exchanged but the one it is about to deliver.  Only the handlers *)
(* that do so issue and consume tokens.                                    *)
HeldOnce ==
  /\ \A q \in Procs : pc[q] \in ConsumeLabels => req[q].op \in {"refresh", "logout"}
  /\ \A q \in Procs : pc[q] \in IssueLabels =>
       /\ req[q].op \in {"login", "verify", "refresh"}
       /\ req[q].op = "refresh" =>
            req[q].old \in Tokens /\ root[req[q].old] = root[req[q].new]
  /\ \A q \in Procs, t \in Tokens :
       Holding(q) /\ Live(t) /\ root[t] = ChainHeld(q)
       => pc[q] \in {"sadd", "setSession"} /\ t = req[q].new
  /\ \A q, r \in Procs :
       Holding(q) /\ Holding(r) /\ ChainHeld(q) = ChainHeld(r) => q = r

(* What a step does to the chain that p holds. *)
HoldEffects(p) ==
  Holding(p)' =>
    \/ /\ Holding(p) /\ ChainHeld(p)' = ChainHeld(p)
       /\ req'[p].usr = req[p].usr
       /\ pc'[p] \in {"sadd", "setSession"} => req'[p].new = req[p].new
    \/ \E t \in Tokens : root[t] = NoToken /\ ChainHeld(p)' = t
    \/ Takes(p)

LEMMA HeldIsRooted ==
  ASSUME Sound, NEW q \in Procs, Holding(q)
  PROVE  ChainHeld(q) \in Tokens /\ root[ChainHeld(q)] # NoToken
<1>1. Typed /\ Rooted /\ root \in [Tokens -> Tokens \cup {NoToken}]
  BY Parts DEF Typed, TypeOK
<1>2. /\ pc[q] \in IssueLabels => req[q].new \in Tokens /\ root[req[q].new] # NoToken
      /\ pc[q] \in ConsumeLabels => req[q].old \in Tokens /\ root[req[q].old] # NoToken
  BY <1>1, LocalTypes DEF Rooted
<1> QED
  BY <1>1, <1>2 DEF Holding, ChainHeld, Renews, ConsumeLabels, Rooted

LEMMA UserKept ==
  ASSUME Sound, NEW p \in Procs, Step(p), pc[p] # "getdel", pc'[p] # "idle"
  PROVE  req'[p].usr = req[p].usr
<1>1. /\ pc \in [Procs -> Labels] /\ req \in [Procs -> Requests]
  BY Parts DEF Typed, TypeOK
<1>2. CASE SetRefresh(p) \/ TrackSession(p) \/ SetSession(p)
  BY <1>1, <1>2 DEF SetRefresh, TrackSession, AfterStore, SetSession, Goto, Finish
<1>3. CASE Untrack(p) \/ FindUser(p) \/ DelSession(p)
  BY <1>1, <1>3 DEF Untrack, FindUser, DelSession, Goto, Finish, Requests
<1>4. CASE SMembers(p) \/ DelRefresh(p) \/ DelSet(p)
  BY <1>1, <1>4 DEF SMembers, DelRefresh, DelSet, Goto, Finish, Requests
<1> QED
  BY <1>2, <1>3, <1>4 DEF Step, StoreRefreshToken, GetDel

LEMMA MoveHolds ==
  ASSUME Sound, NEW p \in Procs, Start(p) \/ Step(p)
  PROVE  HoldEffects(p)
<1>1. Effects(p) /\ Typed /\ Rooted
  BY StartEffects, StepEffects, Parts
<1>2. \A t \in Tokens : root[t] # NoToken => root'[t] = root[t]
  BY <1>1, RootIsFinal DEF Next
<1>3. Start(p) => pc[p] = "idle"
  BY StartSso
<1>4. CASE Carries(p)'
  <2>1. ChainHeld(p)' = Carried(p)'
    BY <1>4 DEF ChainHeld, Carried, Carries, IssueLabels
  <2>2. CASE Carries(p) /\ Carried(p)' = Carried(p)
    <3>1. Holding(p) /\ ChainHeld(p) = Carried(p) /\ pc[p] \notin {"getdel", "idle"}
      BY <2>2 DEF Holding, Renews, ChainHeld, Carried, Carries, IssueLabels
    <3>2. req'[p].usr = req[p].usr
      BY <1>3, <1>4, <3>1, UserKept DEF Carries
    <3> QED
      BY <1>4, <2>1, <2>2, <3>1, <3>2 DEF HoldEffects, Carries
  <2> QED
    BY <1>1, <1>4, <2>1, <2>2 DEF Effects, CarryEffects, HoldEffects
<1>5. CASE pc'[p] \in {"sadd", "setSession"}
  <2>1. pc[p] \in IssueLabels /\ req'[p].new = req[p].new
    BY <1>1, <1>5 DEF Effects, DeliveryEffects, IssueLabels
  <2>2. req[p].new \in Tokens /\ root'[req[p].new] = root[req[p].new]
    BY <1>1, <1>2, <2>1, LocalTypes DEF Rooted
  <2>3. req'[p].usr = req[p].usr
    BY <1>3, <1>5, <2>1, UserKept DEF IssueLabels
  <2> QED
    BY <1>5, <2>1, <2>2, <2>3 DEF HoldEffects, Holding, ChainHeld, IssueLabels
<1>6. Holding(p)' => Carries(p)' \/ pc'[p] \in {"sadd", "setSession"}
  BY DEF Holding, Renews, Carries, IssueLabels
<1> QED
  BY <1>4, <1>5, <1>6 DEF HoldEffects

LEMMA ConsumersKept ==
  ASSUME Sound, HeldOnce, NEW p \in Procs, Start(p) \/ Step(p), pc'[p] \in ConsumeLabels
  PROVE  req'[p].op \in {"refresh", "logout"}
<1>1. pc \in [Procs -> Labels] /\ req \in [Procs -> Requests]
  BY Parts DEF Typed, TypeOK
<1>2. CASE Start(p)
  BY <1>2, Parts, LoginArrives, RefreshArrives, LogoutArrives, RevokeAllArrives
     DEF Start, ConsumeLabels
<1>3. CASE Step(p)
  <2>1. pc[p] \in ConsumeLabels /\ pc'[p] # "idle"
    BY <1>1, <1>3
       DEF Step, StoreRefreshToken, SetRefresh, TrackSession, AfterStore, SetSession,
           GetDel, NotConsumed, Untrack, FindUser, DelSession, SMembers, DelRefresh,
           DelSet, Goto, Finish, ConsumeLabels
  <2>2. req'[p].op = req[p].op
    BY <1>3, <2>1, StepSso DEF LocalEffects, NoRequest, ConsumeLabels
  <2> QED
    BY <2>1, <2>2 DEF HeldOnce
<1> QED
  BY <1>2, <1>3

LEMMA IssuersKept ==
  ASSUME Sound, HeldOnce, NEW p \in Procs, Start(p) \/ Step(p), pc'[p] \in IssueLabels
  PROVE  /\ req'[p].op \in {"login", "verify", "refresh"}
         /\ req'[p].op = "refresh" =>
              req'[p].old \in Tokens /\ root'[req'[p].old] = root'[req'[p].new]
<1>1. /\ Typed /\ Rooted
      /\ pc \in [Procs -> Labels] /\ req \in [Procs -> Requests]
  BY Parts DEF Typed, TypeOK
<1>2. \A t \in Tokens : root[t] # NoToken => root'[t] = root[t]
  BY <1>1, RootIsFinal DEF Next
<1>3. CASE Start(p)
  BY <1>3, StartSso
<1>4. CASE Step(p) /\ pc[p] \in IssueLabels
  <2>1. /\ req'[p].op = req[p].op /\ req'[p].old = req[p].old
        /\ req'[p].new = req[p].new
    <3>1. LocalEffects(p) /\ OwnerEffects(p) /\ pc'[p] # "idle" /\ pc'[p] # "setRefresh"
      BY <1>1, <1>4, StepSso
         DEF Step, StoreRefreshToken, SetRefresh, TrackSession, AfterStore, SetSession,
             GetDel, Untrack, FindUser, DelSession, SMembers, DelRefresh, DelSet,
             Goto, Finish, IssueLabels
    <3> QED
      BY <3>1 DEF LocalEffects, OwnerEffects
  <2>2. req[p].new \in Tokens /\ root[req[p].new] # NoToken
    BY <1>1, <1>4, LocalTypes DEF Rooted
  <2> QED
    BY <1>2, <1>4, <2>1, <2>2 DEF HeldOnce
<1>5. CASE Step(p) /\ pc[p] \notin IssueLabels
  <2>1. FindUser(p)
    BY <1>1, <1>5
       DEF Step, StoreRefreshToken, SetRefresh, TrackSession, SetSession, GetDel,
           NotConsumed, Untrack, DelSession, SMembers, DelRefresh, DelSet, Goto, Finish,
           IssueLabels
  <2>2. PICK t \in Tokens : /\ Fresh(t)
                            /\ req' = [req EXCEPT ![p].new = t]
                            /\ root' = [root EXCEPT ![t] = root[req[p].old]]
    BY <1>1, <2>1 DEF FindUser, Finish, Goto, IssueLabels
  <2>3. /\ req'[p].op = req[p].op /\ req'[p].old = req[p].old /\ req'[p].new = t
    BY <1>1, <2>2 DEF Requests
  <2>4. req[p].op = "refresh" /\ req[p].old \in Tokens /\ root[req[p].old] # NoToken
    BY <1>1, <2>1, LocalTypes DEF FindUser, Rooted, ConsumeLabels
  <2>5. root'[t] = root[req[p].old]
    BY <1>1, <2>2 DEF Typed, TypeOK
  <2> QED
    BY <1>2, <2>3, <2>4, <2>5
<1> QED
  BY <1>3, <1>4, <1>5

LEMMA HoldersInit == Init => HeldOnce
  BY DEF Init, HeldOnce, Holding, Renews, IssueLabels, ConsumeLabels

LEMMA HoldersStep ==
  ASSUME Sound, Sound', HeldOnce, NEW p \in Procs, Start(p) \/ Step(p)
  PROVE  HeldOnce'
<1>1. /\ Effects(p) /\ HoldEffects(p) /\ Typed /\ Rooted /\ NoFork' /\ Delivered
      /\ \A q \in Procs \ {p} : pc'[q] = pc[q] /\ req'[q] = req[q]
      /\ refreshCookie \subseteq Tokens
  BY StartEffects, StepEffects, MoveHolds, OthersKeep, Parts DEF Sound, SessionInv, ChainInv
<1>2. \A t \in Tokens : root[t] # NoToken => root'[t] = root[t]
  BY <1>1, RootIsFinal DEF Next
<1>3. \A q \in Procs :
        /\ pc[q] \in IssueLabels => req[q].new \in Tokens /\ root[req[q].new] # NoToken
        /\ pc[q] \in ConsumeLabels => req[q].old \in Tokens /\ root[req[q].old] # NoToken
  BY <1>1, LocalTypes DEF Rooted
<1>4. ASSUME NEW q \in Procs \ {p}, Holding(q)'
      PROVE  Holding(q) /\ ChainHeld(q)' = ChainHeld(q)
  <2>1. pc'[q] = pc[q] /\ req'[q] = req[q]
    BY <1>1
  <2> QED
    BY <1>2, <1>3, <1>4, <2>1 DEF Holding, ChainHeld, Renews, ConsumeLabels
<1>5. ASSUME NEW q \in Procs, pc'[q] \in IssueLabels
      PROVE  /\ req'[q].op \in {"login", "verify", "refresh"}
             /\ req'[q].op = "refresh" =>
                  req'[q].old \in Tokens /\ root'[req'[q].old] = root'[req'[q].new]
  <2>1. CASE q = p
    BY <1>5, <2>1, IssuersKept
  <2>2. CASE q # p
    BY <1>1, <1>2, <1>3, <1>5, <2>2 DEF HeldOnce
  <2> QED
    BY <2>1, <2>2
<1>6. ASSUME NEW q \in Procs, pc'[q] \in ConsumeLabels
      PROVE  req'[q].op \in {"refresh", "logout"}
  <2>1. CASE q = p
    BY <1>6, <2>1, ConsumersKept
  <2>2. CASE q # p
    BY <1>1, <1>6, <2>2 DEF HeldOnce
  <2> QED
    BY <2>1, <2>2
<1>7. ASSUME NEW q \in Procs, NEW t \in Tokens,
             Holding(q)', Live(t)', root'[t] = ChainHeld(q)'
      PROVE  pc'[q] \in {"sadd", "setSession"} /\ t = req'[q].new
  <2>1. ~Carries(q)'
    <3>1. Carries(q)' => Carried(q)' = ChainHeld(q)'
      BY DEF Carries, Carried, ChainHeld, IssueLabels
    <3> QED
      BY <1>1, <1>7, <3>1 DEF NoFork
  <2>2. pc'[q] \in {"sadd", "setSession"}
    BY <1>7, <2>1 DEF Holding, Renews, Carries, IssueLabels
  <2>3. Holding(q) /\ ChainHeld(q)' = ChainHeld(q) /\ req'[q].new = req[q].new
    <3>1. CASE q = p
      <4>1. pc[p] \in IssueLabels /\ req'[p].new = req[p].new
        BY <1>1, <2>2, <3>1 DEF Effects, DeliveryEffects, IssueLabels
      <4> QED
        BY <1>2, <1>3, <2>2, <3>1, <4>1 DEF Holding, ChainHeld, IssueLabels
    <3>2. CASE q # p
      BY <1>1, <1>4, <1>7, <3>2
    <3> QED
      BY <3>1, <3>2
  <2>4. CASE Live(t)
    <3>1. root[t] = ChainHeld(q)
      BY <1>1, <1>2, <1>7, <2>3, <2>4 DEF Rooted
    <3> QED
      BY <2>2, <2>3, <2>4, <3>1 DEF HeldOnce
  <2>5. CASE ~Live(t)
    <3>1. pc[p] = "setRefresh" /\ t = req[p].new
      BY <1>1, <1>7, <2>5, Revived
    <3>2. Holding(p) /\ ChainHeld(p) = root[t] /\ root'[t] = root[t]
      BY <1>2, <1>3, <3>1 DEF Holding, ChainHeld, IssueLabels
    <3>3. q = p
      BY <1>7, <2>3, <3>2 DEF HeldOnce
    <3> QED
      BY <2>2, <2>3, <3>1, <3>3
  <2> QED
    BY <2>4, <2>5
<1>8. ASSUME NEW q \in Procs \ {p}, Holding(q)', Holding(p)'
      PROVE  ChainHeld(q)' # ChainHeld(p)'
  <2>1. Holding(q) /\ ChainHeld(q)' = ChainHeld(q)
    BY <1>4, <1>8
  <2>2. root[ChainHeld(q)] # NoToken
    BY <2>1, HeldIsRooted
  <2>3. CASE Holding(p) /\ ChainHeld(p)' = ChainHeld(p)
    BY <2>1, <2>3 DEF HeldOnce
  <2>4. CASE \E t \in Tokens : root[t] = NoToken /\ ChainHeld(p)' = t
    BY <2>1, <2>2, <2>4
  <2>5. CASE Takes(p)
    <3> DEFINE t == req[p].old
    <3>1. t \in Tokens /\ t \in refreshCookie /\ Live(t) /\ root'[t] = root[t]
      BY <1>1, <1>2, <1>3, <2>5 DEF Takes, Delivered, ConsumeLabels
    <3>2. ChainHeld(p)' = root[t]
      BY <2>5, <3>1 DEF Takes, ChainHeld, IssueLabels
    <3>3. pc[q] \in IssueLabels => t # req[q].new
      BY <1>1, <3>1 DEF Delivered
    <3> QED
      BY <2>1, <3>1, <3>2, <3>3 DEF HeldOnce, IssueLabels
  <2> QED
    BY <1>1, <1>8, <2>3, <2>4, <2>5 DEF HoldEffects
<1>9. ASSUME NEW q \in Procs, NEW r \in Procs, Holding(q)', Holding(r)',
             ChainHeld(q)' = ChainHeld(r)'
      PROVE  q = r
  <2>1. CASE q # p /\ r # p
    BY <1>4, <1>9, <2>1 DEF HeldOnce
  <2> QED
    BY <1>8, <1>9, <2>1
<1> QED
  BY <1>5, <1>7, <1>9, <1>6 DEF HeldOnce

LEMMA HoldersNext ==
  ASSUME Sound, Sound', HeldOnce, [Next]_vars
  PROVE  HeldOnce'
<1>1. ASSUME NEW s \in Tokens, Expire(s)
      PROVE  HeldOnce'
  <2>1. /\ \A t \in Tokens : Live(t)' => Live(t)
        /\ UNCHANGED <<pc, req, root>>
    BY <1>1, Parts DEF Expire, DelRefreshKey, Typed, TypeOK, StoreTypeOK, Live
  <2> QED
    BY <2>1 DEF HeldOnce, Holding, ChainHeld, Renews
<1>2. CASE Crash
  BY <1>2 DEF Crash, HeldOnce, Holding, Renews, IssueLabels, ConsumeLabels
<1>3. CASE UNCHANGED vars
  BY <1>3 DEF vars, HeldOnce, Holding, ChainHeld, Renews, Live
<1> QED
  BY <1>1, <1>2, <1>3, HoldersStep DEF Next

LEMMA HoldersInvariant == Spec => []HeldOnce
  BY HoldersInit, HoldersNext, SoundInvariant, PTL DEF Spec

-----------------------------------------------------------------------------
(* The mapping.                                                            *)

(* A token that is about to be SET is not live: its chain has no other     *)
(* holder.                                                                 *)
LEMMA DrawnIsNotLive ==
  ASSUME SessionInv, NEW p \in Procs, Draws(p)
  PROVE  /\ req[p].new \in Tokens
         /\ root[req[p].new] # NoToken
         /\ ~Live(req[p].new)
<1>1. req[p].new \in Tokens /\ root[req[p].new] # NoToken
  BY DEF SessionInv, ChainInv, Typed, LocalsOK, Rooted, Draws, IssueLabels
<1>2. Carries(p) /\ Carried(p) = root[req[p].new]
  BY DEF Draws, Carries, Carried
<1> QED
  BY <1>1, <1>2 DEF SessionInv, ChainInv, NoFork

(* Only one request has a given token in hand. *)
LEMMA DrawnOnce ==
  ASSUME SessionInv, NEW p \in Procs, NEW q \in Procs, Draws(p), Draws(q),
         req[p].new = req[q].new
  PROVE  p = q
  BY DEF SessionInv, TrackedAfterSet, Draws, IssueLabels

LEMMA StatusKept ==
  ASSUME NEW t \in Tokens,
         root'[t] = NoToken <=> root[t] = NoToken,
         Live(t)' <=> Live(t),
         Drawn(t)' <=> Drawn(t)
  PROVE  Status'[t] = Status[t]
  BY DEF Status

(* A step of p changes what p draws and renews, not what the others do. *)
LEMMA DrawnKept ==
  ASSUME NEW p \in Procs,
         \A q \in Procs \ {p} : pc'[q] = pc[q] /\ req'[q] = req[q],
         NEW t,
         Draws(p) => req[p].new # t,
         Draws(p)' => req'[p].new # t
  PROVE  Drawn(t)' <=> Drawn(t)
  BY DEF Drawn, Draws

LEMMA RenewingKept ==
  ASSUME NEW p \in Procs,
         \A q \in Procs \ {p} : pc'[q] = pc[q] /\ req'[q] = req[q],
         UNCHANGED root,
         Renews(p)' <=> Renews(p),
         Renews(p) => req'[p].old = req[p].old
  PROVE  Renewing' = Renewing
<1>1. \A q \in Procs : Renews(q)' <=> Renews(q)
  BY DEF Renews
<1>2. \A q \in Procs : Renews(q) => req'[q].old = req[q].old
  OBVIOUS
<1>3. Renewing = {root[req[q].old] : q \in {q \in Procs : Renews(q)}}
  BY DEF Renewing, Renews
<1>4. Renewing' = {root'[req'[q].old] : q \in {q \in Procs : Renews(q)'}}
  BY DEF Renewing, Renews
<1> QED
  BY <1>1, <1>2, <1>3, <1>4

(* A step that stores, deletes, draws and renews nothing is invisible. *)
LEMMA InvisibleStep ==
  ASSUME NEW p \in Procs,
         \A q \in Procs \ {p} : pc'[q] = pc[q] /\ req'[q] = req[q],
         UNCHANGED <<root, refresh>>,
         ~Draws(p), ~Draws(p)',
         Renews(p)' <=> Renews(p),
         Renews(p) => req'[p].old = req[p].old
  PROVE  UNCHANGED <<Status, root, Renewing>>
<1>1. Renewing' = Renewing
  BY RenewingKept
<1>2. \A t \in Tokens : Status'[t] = Status[t]
  BY DrawnKept, StatusKept DEF Live
<1> QED
  BY <1>1, <1>2 DEF Status

(* A step that gives up the tokens of S and the renewals of R. *)
LEMMA ClosingStep ==
  ASSUME NEW S \in SUBSET Tokens, NEW R \in SUBSET Tokens,
         UNCHANGED root,
         \A t \in S : Status[t] \in {"drawn", "usable"} /\ Status'[t] = "spent",
         \A t \in Tokens \ S : Status'[t] = Status[t],
         Renewing' = Renewing \ R
  PROVE  Lifecycle!LifecycleNext
<1>1. Status' = [t \in Tokens |-> IF t \in S THEN "spent" ELSE Status[t]]
  BY DEF Status
<1>2. Lifecycle!Close(S, R)
  BY <1>1 DEF Lifecycle!Close
<1> QED
  BY <1>2 DEF Lifecycle!LifecycleNext

(* The key of a live token t is deleted, and p, if a request does it, goes *)
(* on without it.                                                          *)
LEMMA DeletingStep ==
  ASSUME SessionInv, NEW t \in Tokens, Live(t),
         refresh' = [refresh EXCEPT ![t] = NoUser],
         UNCHANGED root,
         \A s \in Tokens : Drawn(s)' <=> Drawn(s),
         Renewing' = Renewing
  PROVE  Lifecycle!LifecycleNext
<1>1. root[t] # NoToken /\ ~Drawn(t)
  BY DrawnIsNotLive DEF Drawn, Draws, SessionInv, ChainInv, Rooted
<1>2. ~Live(t)' /\ \A s \in Tokens \ {t} : Live(s)' <=> Live(s)
  BY DEF Live, SessionInv, ChainInv, Typed, TypeOK, StoreTypeOK
<1>3. Status[t] = "usable" /\ Status'[t] = "spent"
  BY <1>1, <1>2 DEF Status
<1>4. \A s \in Tokens \ {t} : Status'[s] = Status[s]
  BY <1>2, StatusKept
<1> QED
  BY <1>3, <1>4, ClosingStep, {t} \in SUBSET Tokens, {} \in SUBSET Tokens

-----------------------------------------------------------------------------
(* The steps of the requests.                                              *)

LEMMA StartRefines ==
  ASSUME SessionInv, NEW p \in Procs, Start(p)
  PROVE  Lifecycle!LifecycleNext \/ UNCHANGED <<Status, root, Renewing>>
<1> USE DEF SessionInv, ChainInv
<1>1. \A q \in Procs \ {p} : pc'[q] = pc[q] /\ req'[q] = req[q]
  BY OthersKeep
<1>2. ~Draws(p) /\ ~Renews(p)
  BY DEF Start, StartLogin, StartRefresh, StartLogout, StartRevokeAll, Begin, Draws, Renews
<1>3. CASE StartLogin(p)
  <2>1. PICK op \in {"login", "verify"}, u \in Users, t \in Tokens :
          /\ Fresh(t)
          /\ Begin(p, [NoRequest EXCEPT !.op = op, !.usr = u, !.new = t], "setRefresh")
          /\ root' = [root EXCEPT ![t] = t]
          /\ UNCHANGED refresh
    BY <1>3 DEF StartLogin
  <2>2. root[t] = NoToken /\ pc'[p] = "setRefresh" /\ req'[p].new = t
    BY <2>1 DEF Fresh, Begin, Goto, Typed, TypeOK, NoRequest
  <2>3. ~Live(t) /\ ~Live(t)' /\ Drawn(t)'
    BY <2>1, <2>2 DEF Live, Drawn, Rooted
  <2>4. Status[t] = "new" /\ Status'[t] = "drawn"
    BY <2>1, <2>2, <2>3, NoTokenAssumption DEF Status, Typed, TypeOK
  <2>5. \A s \in Tokens \ {t} : root'[s] = root[s]
    BY <2>1 DEF Typed, TypeOK
  <2>6. \A s \in Tokens \ {t} : Status'[s] = Status[s]
    BY <1>1, <1>2, <2>1, <2>2, <2>5, DrawnKept, StatusKept DEF Live
  <2>7. Status' = [Status EXCEPT ![t] = "drawn"]
    BY <2>4, <2>6 DEF Status
  <2>8. \A q \in Procs : Renews(q) => req[q].old \in Tokens \ {t}
    BY <2>2 DEF Renews, Typed, LocalsOK, Rooted, ConsumeLabels
  <2>9. \A q \in Procs :
          /\ Renews(q)' <=> Renews(q)
          /\ Renews(q) => root'[req'[q].old] = root[req[q].old]
    BY <1>1, <1>2, <2>2, <2>5, <2>8 DEF Renews
  <2>10. Renewing' = Renewing
    BY <2>9 DEF Renewing, Renews
  <2>11. Lifecycle!Open(t)
    BY <2>1, <2>4, <2>7, <2>10 DEF Lifecycle!Open
  <2> QED
    BY <2>11 DEF Lifecycle!LifecycleNext
<1>4. CASE StartRefresh(p) \/ StartLogout(p) \/ StartRevokeAll(p)
  <2>1. /\ UNCHANGED <<root, refresh>>
        /\ pc'[p] \in {"getdel", "delSession", "smembers"}
    BY <1>4 DEF StartRefresh, StartLogout, StartRevokeAll, Begin, Goto, Typed, TypeOK
  <2>2. ~Draws(p)' /\ ~Renews(p)'
    BY <2>1 DEF Draws, Renews
  <2> QED
    BY <1>1, <1>2, <2>1, <2>2, InvisibleStep
<1> QED
  BY <1>3, <1>4 DEF Start

(* SET refresh:new makes the drawn token usable; a SET that failed without *)
(* being applied ends the chain.                                           *)
LEMMA SetRefreshRefines ==
  ASSUME SessionInv, NEW p \in Procs, SetRefresh(p)
  PROVE  Lifecycle!LifecycleNext
<1> USE DEF SessionInv, ChainInv
<1>1. \A q \in Procs \ {p} : pc'[q] = pc[q] /\ req'[q] = req[q]
  BY OthersKeep DEF Step, StoreRefreshToken
<1>2. Draws(p) /\ ~Draws(p)' /\ ~Renews(p) /\ ~Renews(p)' /\ UNCHANGED root
  BY DEF SetRefresh, Draws, Renews, Goto, Finish, Typed, TypeOK
<1>a. PICK t \in Tokens : t = req[p].new
  BY <1>2, DrawnIsNotLive
<1>3. root[t] # NoToken /\ ~Live(t)
  BY <1>2, <1>a, DrawnIsNotLive
<1>4. Status[t] = "drawn"
  BY <1>2, <1>3, <1>a DEF Status, Drawn, Draws
<1>5. ~Drawn(t)'
  <2> SUFFICES ASSUME NEW q \in Procs, pc'[q] = "setRefresh", req'[q].new = t PROVE FALSE
    BY DEF Drawn
  <2>1. q # p /\ Draws(q) /\ req[q].new = t
    BY <1>1, <1>2 DEF Draws
  <2> QED
    BY <1>2, <1>a, <2>1, DrawnOnce
<1>6. Renewing' = Renewing
  BY <1>1, <1>2, RenewingKept
<1>7. \A s \in Tokens \ {t} : Drawn(s)' <=> Drawn(s)
  BY <1>1, <1>2, <1>a, DrawnKept
<1>8. CASE SetRefreshKey(t, req[p].usr)
  <2>1. req[p].usr # NoUser
    BY NoUserAssumption
       DEF SetRefresh, Typed, LocalsOK, UserLabels, IssueLabels
  <2>2. Live(t)' /\ \A s \in Tokens \ {t} : Live(s)' <=> Live(s)
    BY <1>3, <1>8, <2>1 DEF SetRefreshKey, Live, Typed, TypeOK, StoreTypeOK
  <2>3. Status'[t] = "usable"
    BY <1>2, <1>3, <2>2 DEF Status
  <2>4. \A s \in Tokens \ {t} : Status'[s] = Status[s]
    BY <1>2, <1>7, <2>2, StatusKept
  <2>5. Status' = [Status EXCEPT ![t] = "usable"]
    BY <2>3, <2>4 DEF Status
  <2>6. Lifecycle!Store(t)
    BY <1>2, <1>4, <1>6, <2>5 DEF Lifecycle!Store
  <2> QED
    BY <1>3, <2>6 DEF Lifecycle!LifecycleNext
<1>9. CASE UNCHANGED refresh
  <2>1. Status'[t] = "spent"
    BY <1>2, <1>3, <1>5, <1>9 DEF Status, Live
  <2>2. \A s \in Tokens \ {t} : Status'[s] = Status[s]
    BY <1>2, <1>7, <1>9, StatusKept DEF Live
  <2> QED
    BY <1>2, <1>3, <1>4, <1>6, <2>1, <2>2, ClosingStep,
       {t} \in SUBSET Tokens, {} \in SUBSET Tokens
<1> QED
  BY <1>8, <1>9, <1>a DEF SetRefresh

(* GETDEL refresh:old exchanges the token for the right to the next one    *)
(* when Refresh gets the answer; Logout, and a Refresh that does not get   *)
(* the answer, end the chain.                                              *)
LEMMA GetDelRefines ==
  ASSUME SessionInv, NEW p \in Procs, GetDel(p)
  PROVE  Lifecycle!LifecycleNext \/ UNCHANGED <<Status, root, Renewing>>
<1> USE DEF SessionInv, ChainInv
<1>1. \A q \in Procs \ {p} : pc'[q] = pc[q] /\ req'[q] = req[q]
  BY OthersKeep DEF Step
<1>2. /\ ~Draws(p) /\ ~Draws(p)' /\ ~Renews(p) /\ UNCHANGED root
      /\ req[p].old \in Tokens /\ root[req[p].old] \in Tokens
  BY DEF GetDel, NotConsumed, Draws, Renews, Goto, Finish, Typed, TypeOK, LocalsOK,
         ConsumeLabels, Rooted
<1>a. PICK t \in Tokens : t = req[p].old /\ root[t] \in Tokens
  BY <1>2
<1>3. \A s \in Tokens : Drawn(s)' <=> Drawn(s)
  BY <1>1, <1>2, DrawnKept
<1>4. CASE ~Renews(p)'
  <2>1. Renewing' = Renewing
    BY <1>1, <1>2, <1>4, RenewingKept
  <2>2. CASE Live(t) /\ GetDelRefreshKey(t)
    BY <1>2, <1>3, <2>1, <2>2, DeletingStep DEF GetDelRefreshKey, DelRefreshKey
  <2>3. CASE UNCHANGED refresh
    BY <1>1, <1>2, <1>4, <2>3, InvisibleStep
  <2>4. CASE ~Live(t) /\ GetDelRefreshKey(t)
    <3>1. UNCHANGED refresh
      BY <1>2, <2>4 DEF GetDelRefreshKey, DelRefreshKey, Live, Typed, TypeOK, StoreTypeOK
    <3> QED
      BY <1>1, <1>2, <1>4, <3>1, InvisibleStep
  <2> QED
    BY <1>a, <2>2, <2>3, <2>4 DEF GetDel
<1>5. CASE Renews(p)'
  <2>1. /\ Live(t)
        /\ refresh' = [refresh EXCEPT ![t] = NoUser]
        /\ req'[p].old = t
    BY <1>5, <1>a
       DEF GetDel, NotConsumed, Renews, Goto, Finish, GetDelRefreshKey, DelRefreshKey,
           Typed, TypeOK, Requests
  <2>2. root[t] # NoToken /\ ~Drawn(t)
    BY <1>a, <2>1, DrawnIsNotLive DEF Drawn, Draws, Rooted
  <2>3. ~Live(t)' /\ \A s \in Tokens \ {t} : Live(s)' <=> Live(s)
    BY <1>2, <2>1 DEF Live, Typed, TypeOK, StoreTypeOK
  <2>4. Status[t] = "usable" /\ Status'[t] = "spent"
    BY <1>2, <1>3, <2>1, <2>2, <2>3 DEF Status
  <2>5. \A s \in Tokens \ {t} : Status'[s] = Status[s]
    BY <1>2, <1>3, <2>3, StatusKept
  <2>6. Status' = [Status EXCEPT ![t] = "spent"]
    BY <2>4, <2>5 DEF Status
  <2>7. Renewing' = Renewing \cup {root[t]}
    <3>1. \A q \in Procs \ {p} : Renews(q)' <=> Renews(q)
      BY <1>1 DEF Renews
    <3>2. Renewing = {root[req[q].old] : q \in {q \in Procs : Renews(q)}}
      BY DEF Renewing, Renews
    <3>3. Renewing' = {root'[req'[q].old] : q \in {q \in Procs : Renews(q)'}}
      BY DEF Renewing, Renews
    <3> QED
      BY <1>1, <1>2, <1>5, <1>a, <2>1, <3>1, <3>2, <3>3
  <2>8. Lifecycle!Exchange(t)
    BY <1>2, <2>4, <2>6, <2>7 DEF Lifecycle!Exchange
  <2> QED
    BY <1>2, <2>8 DEF Lifecycle!LifecycleNext
<1> QED
  BY <1>4, <1>5

(* Refresh draws the next token of its chain, or abandons the chain. *)
LEMMA FindUserRefines ==
  ASSUME SessionInv, NEW p \in Procs, FindUser(p)
  PROVE  Lifecycle!LifecycleNext
<1> USE DEF SessionInv, ChainInv
<1> DEFINE c == root[req[p].old]
<1>1. \A q \in Procs \ {p} : pc'[q] = pc[q] /\ req'[q] = req[q]
  BY OthersKeep DEF Step
<1>2. /\ ~Draws(p) /\ Renews(p) /\ ~Renews(p)'
      /\ Carries(p) /\ Carried(p) = c
      /\ c \in Tokens /\ c # NoToken
      /\ UNCHANGED refresh
  BY NoTokenAssumption
     DEF FindUser, Draws, Renews, Carries, Carried, Goto, Finish, Typed, TypeOK, LocalsOK,
         ConsumeLabels, Rooted, Requests
<1>3. \A q \in Procs \ {p} : Renews(q) => root[req[q].old] # c
  BY <1>2 DEF Renews, Carries, Carried, NoFork
<1>4. \A q \in Procs : Renews(q)' <=> q # p /\ Renews(q)
  BY <1>1, <1>2 DEF Renews
<1>5. Renewing = {root[req[q].old] : q \in {q \in Procs : Renews(q)}}
  BY DEF Renewing, Renews
<1>6. Renewing' = {root'[req'[q].old] : q \in {q \in Procs : Renews(q)'}}
  BY DEF Renewing, Renews
<1>7. c \in Renewing
  BY <1>2, <1>5
<1>8. CASE Finish(p) /\ UNCHANGED root
  <2>1. Renewing' = Renewing \ {c}
    BY <1>1, <1>2, <1>3, <1>4, <1>5, <1>6, <1>8
  <2>2. ~Draws(p)'
    BY <1>8 DEF Finish, Goto, Draws, Typed, TypeOK
  <2>3. \A s \in Tokens : Status'[s] = Status[s]
    BY <1>1, <1>2, <1>8, <2>2, DrawnKept, StatusKept DEF Live
  <2> QED
    BY <1>2, <1>8, <2>1, <2>3, ClosingStep, {} \in SUBSET Tokens, {c} \in SUBSET Tokens
<1>9. ASSUME NEW t \in Tokens, Fresh(t),
             req' = [req EXCEPT ![p].new = t],
             root' = [root EXCEPT ![t] = c],
             Goto(p, "setRefresh")
      PROVE  Lifecycle!LifecycleNext
  <2>1. /\ root[t] = NoToken /\ root'[t] = c
        /\ \A s \in Tokens \ {t} : root'[s] = root[s]
        /\ Draws(p)' /\ req'[p].new = t
    BY <1>2, <1>9 DEF Fresh, Goto, Draws, Typed, TypeOK, Requests
  <2>2. ~Live(t) /\ ~Live(t)' /\ Drawn(t)'
    BY <1>2, <2>1 DEF Live, Drawn, Draws, Rooted
  <2>3. Status[t] = "new" /\ Status'[t] = "drawn"
    BY <1>2, <2>1, <2>2 DEF Status
  <2>4. \A s \in Tokens \ {t} : Status'[s] = Status[s]
    BY <1>1, <1>2, <2>1, DrawnKept, StatusKept DEF Live
  <2>5. Status' = [Status EXCEPT ![t] = "drawn"]
    BY <2>3, <2>4 DEF Status
  <2>6. \A q \in Procs : Renews(q) => req[q].old \in Tokens \ {t}
    BY <2>1 DEF Renews, Typed, LocalsOK, Rooted, ConsumeLabels
  <2>7. \A q \in Procs \ {p} : Renews(q) => root'[req'[q].old] = root[req[q].old]
    BY <1>1, <2>1, <2>6
  <2>8. Renewing' = Renewing \ {c}
    BY <1>2, <1>3, <1>4, <1>5, <1>6, <2>7
  <2>9. Lifecycle!Draw(c, t)
    BY <1>7, <1>9, <2>3, <2>5, <2>8 DEF Lifecycle!Draw
  <2> QED
    BY <1>2, <2>9 DEF Lifecycle!LifecycleNext
<1> QED
  BY <1>8, <1>9 DEF FindUser

(* The DELs of a revocation's pipeline end the chains of the tokens that   *)
(* are still live.                                                         *)
LEMMA DelRefreshRefines ==
  ASSUME SessionInv, NEW p \in Procs, DelRefresh(p)
  PROVE  Lifecycle!LifecycleNext \/ UNCHANGED <<Status, root, Renewing>>
<1> USE DEF SessionInv, ChainInv
<1>1. \A q \in Procs \ {p} : pc'[q] = pc[q] /\ req'[q] = req[q]
  BY OthersKeep DEF Step
<1>2. ~Draws(p) /\ ~Draws(p)' /\ ~Renews(p) /\ ~Renews(p)' /\ UNCHANGED root
  BY DEF DelRefresh, Draws, Renews, Goto, Finish, Typed, TypeOK
<1>3. CASE UNCHANGED refresh
  BY <1>1, <1>2, <1>3, InvisibleStep
<1>4. ASSUME NEW t \in req[p].todo, DelRefreshKey(t)
      PROVE  Lifecycle!LifecycleNext \/ UNCHANGED <<Status, root, Renewing>>
  <2>1. t \in Tokens
    BY DEF Typed, TypeOK, Requests
  <2>2. CASE ~Live(t)
    <3>1. UNCHANGED refresh
      BY <1>4, <2>1, <2>2 DEF DelRefreshKey, Live, Typed, TypeOK, StoreTypeOK
    <3> QED
      BY <1>1, <1>2, <3>1, InvisibleStep
  <2>3. CASE Live(t)
    <3>1. Renewing' = Renewing /\ \A s \in Tokens : Drawn(s)' <=> Drawn(s)
      BY <1>1, <1>2, RenewingKept, DrawnKept
    <3> QED
      BY <1>2, <1>4, <2>1, <2>3, <3>1, DeletingStep DEF DelRefreshKey
  <2> QED
    BY <2>2, <2>3
<1> QED
  BY <1>3, <1>4 DEF DelRefresh

LEMMA StepRefines ==
  ASSUME SessionInv, NEW p \in Procs, Step(p)
  PROVE  Lifecycle!LifecycleNext \/ UNCHANGED <<Status, root, Renewing>>
<1> USE DEF SessionInv, ChainInv
<1>1. \A q \in Procs \ {p} : pc'[q] = pc[q] /\ req'[q] = req[q]
  BY OthersKeep
<1>2. CASE TrackSession(p) \/ SetSession(p) \/ DelSession(p) \/ SMembers(p) \/ DelSet(p)
  <2>1. ~Draws(p) /\ ~Draws(p)' /\ ~Renews(p) /\ ~Renews(p)' /\ UNCHANGED <<root, refresh>>
    BY <1>2
       DEF TrackSession, AfterStore, SetSession, DelSession, SMembers, DelSet, Draws,
           Renews, Goto, Finish, Typed, TypeOK
  <2> QED
    BY <1>1, <2>1, InvisibleStep
<1>3. CASE Untrack(p)
  <2>1. /\ ~Draws(p) /\ ~Draws(p)' /\ UNCHANGED <<root, refresh, req>>
        /\ Renews(p)' <=> Renews(p)
    BY <1>3 DEF Untrack, Draws, Renews, Goto, Typed, TypeOK
  <2> QED
    BY <1>1, <2>1, InvisibleStep
<1> QED
  BY <1>2, <1>3, SetRefreshRefines, GetDelRefines, FindUserRefines, DelRefreshRefines
     DEF Step, StoreRefreshToken

-----------------------------------------------------------------------------
(* The environment.                                                        *)

LEMMA ExpireRefines ==
  ASSUME SessionInv, NEW t \in Tokens, Expire(t)
  PROVE  Lifecycle!LifecycleNext \/ UNCHANGED <<Status, root, Renewing>>
<1>1. /\ Renewing' = Renewing
      /\ \A s \in Tokens : Drawn(s)' <=> Drawn(s)
      /\ UNCHANGED root
  BY DEF Expire, Renewing, Drawn
<1>2. CASE Live(t) /\ DelRefreshKey(t)
  BY <1>1, <1>2, DeletingStep DEF DelRefreshKey
<1>3. CASE UNCHANGED refresh
  <2>1. \A s \in Tokens : Status'[s] = Status[s]
    BY <1>1, <1>3, StatusKept DEF Live
  <2> QED
    BY <1>1, <2>1 DEF Status
<1> QED
  BY <1>2, <1>3 DEF Expire

(* A crash ends the chains that are in the hands of requests. *)
LEMMA CrashRefines ==
  ASSUME SessionInv, Crash
  PROVE  Lifecycle!LifecycleNext
<1> DEFINE S == {t \in Tokens : Status[t] = "drawn"}
<1>1. UNCHANGED <<root, refresh>> /\ \A q \in Procs : pc'[q] = "idle"
  BY DEF Crash
<1>2. \A t \in Tokens : ~Drawn(t)' /\ (Live(t)' <=> Live(t))
  BY <1>1 DEF Drawn, Live
<1>3. Renewing' = {}
  BY <1>1 DEF Renewing
<1>4. Renewing \subseteq Tokens
  BY DEF Renewing, SessionInv, ChainInv, Typed, TypeOK, LocalsOK, Rooted, ConsumeLabels
<1>5. \A t \in S : Status'[t] = "spent"
  BY <1>1, <1>2 DEF Status
<1>6. \A t \in Tokens \ S : Status'[t] = Status[t]
  BY <1>1, <1>2 DEF Status
<1>7. Renewing' = Renewing \ Renewing
  BY <1>3
<1>8. S \in SUBSET Tokens /\ \A t \in S : Status[t] \in {"drawn", "usable"}
  OBVIOUS
<1> HIDE DEF S
<1> QED
  BY <1>1, <1>4, <1>5, <1>6, <1>7, <1>8, ClosingStep

LEMMA InitRefines == Init => Lifecycle!LifecycleInit
<1> SUFFICES ASSUME Init PROVE Lifecycle!LifecycleInit
  OBVIOUS
<1>1. Status = [t \in Tokens |-> "new"] /\ Renewing = {}
  BY DEF Init, StoreInit, Status, Renewing
<1> QED
  BY <1>1 DEF Init, Lifecycle!LifecycleInit

LEMMA NextRefines ==
  SessionInv /\ [Next]_vars => [Lifecycle!LifecycleNext]_<<Status, root, Renewing>>
<1> SUFFICES ASSUME SessionInv, [Next]_vars
             PROVE  Lifecycle!LifecycleNext \/ UNCHANGED <<Status, root, Renewing>>
  OBVIOUS
<1>1. CASE UNCHANGED vars
  <2>1. \A t \in Tokens : Status'[t] = Status[t]
    BY <1>1, StatusKept DEF vars, Live, Drawn
  <2> QED
    BY <1>1, <2>1 DEF vars, Status, Renewing
<1> QED
  BY <1>1, StartRefines, StepRefines, ExpireRefines, CrashRefines DEF Next

(* The concurrent handlers of login.go and logout.go keep the promise of   *)
(* SessionLifecycle, with any number of requests, failures and crashes.    *)
THEOREM Refinement == Spec => ImplementsLifecycle
<1> QED
  BY InitRefines, NextRefines, SessionInvariant, PTL
     DEF Spec, ImplementsLifecycle, Lifecycle!LifecycleSpec, Lifecycle!lifecycleVars

(* A login that has ended is never reopened by a request that was still in *)
(* flight.                                                                 *)
THEOREM EndedLoginsStayEnded == Spec => LoginIsFinal
(* Lifecycle and Promise are two names for the same instance. *)
<1>1. Lifecycle!LifecycleInit => Promise!LifecycleInit
  BY DEF Lifecycle!LifecycleInit, Promise!LifecycleInit
<1>2. /\ \A t \in Tokens : Lifecycle!Open(t) => Promise!Open(t)
      /\ \A t \in Tokens : Lifecycle!Store(t) => Promise!Store(t)
      /\ \A t \in Tokens : Lifecycle!Exchange(t) => Promise!Exchange(t)
      /\ \A s, t \in Tokens : Lifecycle!Draw(s, t) => Promise!Draw(s, t)
      /\ \A S, R \in SUBSET Tokens : Lifecycle!Close(S, R) => Promise!Close(S, R)
  BY DEF Lifecycle!Open, Promise!Open, Lifecycle!Store, Promise!Store,
         Lifecycle!Exchange, Promise!Exchange, Lifecycle!Draw, Promise!Draw,
         Lifecycle!Close, Promise!Close
<1>3. [Lifecycle!LifecycleNext]_Lifecycle!lifecycleVars
        => [Promise!LifecycleNext]_Promise!lifecycleVars
  BY <1>2
     DEF Lifecycle!LifecycleNext, Promise!LifecycleNext, Lifecycle!lifecycleVars,
         Promise!lifecycleVars
<1>4. [\A s \in Tokens :
         Status[s] # "new" /\ ~Promise!Active(s) => ~Promise!Active(s)']_Promise!lifecycleVars
      => [\A s \in Tokens :
            Status[s] # "new" /\ ~Lifecycle!Active(s)
              => ~Lifecycle!Active(s)']_Lifecycle!lifecycleVars
  BY DEF Lifecycle!Active, Promise!Active, Lifecycle!Held, Promise!Held,
         Lifecycle!lifecycleVars, Promise!lifecycleVars
<1> QED
  BY <1>1, <1>3, <1>4, Refinement, Promise!ClosingIsFinal, PTL
     DEF ImplementsLifecycle, LoginIsFinal, Lifecycle!LifecycleSpec,
         Promise!LifecycleSpec, Lifecycle!ClosedStaysClosed, Promise!ClosedStaysClosed

-----------------------------------------------------------------------------
(* Every refresh token is a key good for one use.                          *)

(* A renewal goes on with the token it has consumed. *)
LEMMA RenewsWith ==
  ASSUME Sound, NEW p \in Procs, Start(p) \/ Step(p), Renews(p)'
  PROVE  \/ Renews(p) /\ req'[p].old = req[p].old
         \/ GetDel(p) /\ Takes(p)
<1>1. /\ pc \in [Procs -> Labels] /\ req \in [Procs -> Requests]
  BY Parts DEF Typed, TypeOK
<1>2. ~Start(p)
  BY <1>1 DEF Renews, Start, StartLogin, StartRefresh, StartLogout, StartRevokeAll, Begin,
              Goto
<1>3. GetDel(p) \/ Untrack(p)
  BY <1>1, <1>2
     DEF Renews, Step, StoreRefreshToken, SetRefresh, TrackSession, AfterStore,
         SetSession, FindUser, DelSession, SMembers, DelRefresh, DelSet, Goto, Finish
<1>4. CASE Untrack(p)
  BY <1>1, <1>4 DEF Untrack, Renews
<1>5. CASE GetDel(p)
  BY <1>1, <1>5
     DEF GetDel, NotConsumed, GetDelRefreshKey, Goto, Finish, Renews, Takes, Requests
<1> QED
  BY <1>3, <1>4, <1>5

(* The only request that uses a token is the one that consumed it. *)
LEMMA UsedAlone ==
  ASSUME Sound, NEW p \in Procs, Renews(p)
  PROVE  /\ req[p].old \in Tokens /\ ~Live(req[p].old)
         /\ \A q \in Procs : Renews(q) /\ req[q].old = req[p].old => q = p
<1>1. \A q \in Procs : Renews(q) => Carries(q) /\ Carried(q) = root[req[q].old]
  BY DEF Renews, Carries, Carried
<1>2. req[p].old \in Tokens
  BY Parts, LocalTypes DEF Renews, ConsumeLabels
<1> QED
  BY <1>1, <1>2, Parts DEF NoFork

(* A token that was given is not drawn again. *)
LEMMA GivenGrows ==
  ASSUME Sound, NEW p \in Procs, Start(p) \/ Step(p)
  PROVE  TokensGiven \subseteq TokensGiven'
<1>1. /\ Effects(p) /\ Typed /\ Rooted
      /\ pc \in [Procs -> Labels] /\ req \in [Procs -> Requests]
  BY StartEffects, StepEffects, Parts DEF Typed, TypeOK
<1>2. \A t \in Tokens : root[t] # NoToken => root'[t] = root[t]
  BY <1>1, RootIsFinal DEF Next
<1>3. pc'[p] = "setRefresh" => root[req'[p].new] = NoToken \/ pc[p] \in IssueLabels
  BY <1>1 DEF Effects, DeliveryEffects, IssueLabels
<1>4. pc[p] \in IssueLabels => pc'[p] # "setRefresh"
  BY <1>1
     DEF Start, StartLogin, StartRefresh, StartLogout, StartRevokeAll, Begin, Step,
         StoreRefreshToken, SetRefresh, TrackSession, AfterStore, SetSession, GetDel,
         Untrack, FindUser, DelSession, SMembers, DelRefresh, DelSet, Goto, Finish,
         IssueLabels
<1>5. \A q \in Procs \ {p} : pc'[q] = pc[q] /\ req'[q] = req[q]
  BY <1>1 DEF Effects, Others
<1>6. ASSUME NEW t \in Tokens, root[t] # NoToken, ~Drawn(t)
      PROVE  ~Drawn(t)'
  BY <1>3, <1>4, <1>5, <1>6 DEF Drawn
<1> QED
  BY <1>2, <1>6 DEF TokensGiven

LEMMA EndingStep ==
  ASSUME TokensGiven \subseteq TokensGiven', TokensStored' \subseteq TokensStored,
         \A t \in Tokens : TokenUsers'[t] \in {TokenUsers[t], {}}
  PROVE  Promise!End
<1>1. TokensGiven' \in SUBSET Tokens /\ TokensStored' \in SUBSET TokensStored
  BY DEF TokensGiven
<1>2. TokenUsers' \in [Tokens -> SUBSET Procs]
  BY DEF TokenUsers
<1> QED
  BY <1>1, <1>2 DEF Promise!End

(* GETDEL by a Refresh that gets the token hands it to that request. *)
LEMMA TokenTaken ==
  ASSUME Sound, NEW p \in Procs, GetDel(p), Takes(p)
  PROVE  Promise!Take(req[p].old, p)
<1> DEFINE t == req[p].old
<1>1. /\ pc \in [Procs -> Labels] /\ req \in [Procs -> Requests]
      /\ refresh \in [Tokens -> Users \cup {NoUser}]
      /\ t \in Tokens /\ Live(t)
  BY Parts, LocalTypes DEF Typed, TypeOK, StoreTypeOK, Takes, ConsumeLabels
<1>2. /\ refresh' = [refresh EXCEPT ![t] = NoUser] /\ UNCHANGED root
      /\ \A q \in Procs \ {p} : pc'[q] = pc[q] /\ req'[q] = req[q]
      /\ pc[p] = "getdel" /\ pc'[p] = "srem"
      /\ req'[p].op = "refresh" /\ req'[p].old = t
  BY <1>1 DEF GetDel, NotConsumed, GetDelRefreshKey, DelRefreshKey, Takes, Goto, Finish
<1>3. TokensGiven' = TokensGiven
  BY <1>2 DEF TokensGiven, Drawn
<1>4. TokensStored' = TokensStored \ {t}
  BY <1>1, <1>2 DEF TokensStored, Live
<1>5. \A q \in Procs : Renews(q) => req[q].old # t
  BY <1>1, UsedAlone
<1>6. TokenUsers' = [TokenUsers EXCEPT ![t] = {p}]
  <2>1. \A s \in Tokens : TokenUsers'[s] = IF s = t THEN {p} ELSE TokenUsers[s]
    BY <1>1, <1>2, <1>5 DEF TokenUsers, Renews
  <2> QED
    BY <1>1, <2>1 DEF TokenUsers
<1> QED
  BY <1>1, <1>3, <1>4, <1>6 DEF Promise!Take, TokensStored

(* SET refresh:new hands the token out; when it fails without being        *)
(* applied, the token is lost before it was stored.                        *)
LEMMA TokenIssued ==
  ASSUME Sound, NEW p \in Procs, SetRefresh(p)
  PROVE  Promise!End \/ \E t \in Tokens : Promise!Issue(t)
<1>1. /\ pc \in [Procs -> Labels] /\ req \in [Procs -> Requests]
      /\ refresh \in [Tokens -> Users \cup {NoUser}]
      /\ \A q \in Procs \ {p} : pc'[q] = pc[q] /\ req'[q] = req[q]
      /\ SessionInv /\ Step(p)
  BY Parts, StepEffects
     DEF Typed, TypeOK, StoreTypeOK, Step, StoreRefreshToken, Effects, Others, Sound
<1>2. pc[p] = "setRefresh" /\ pc'[p] \in {"sadd", "idle"} /\ UNCHANGED root
  BY <1>1 DEF SetRefresh, Goto, Finish
<1>3. PICK t \in Tokens : t = req[p].new
  BY <1>1, <1>2, DrawnIsNotLive DEF Draws
<1>4. root[t] # NoToken /\ ~Live(t) /\ Drawn(t)
  BY <1>1, <1>2, <1>3, DrawnIsNotLive DEF Draws, Drawn
<1>5. \A s \in Tokens : Drawn(s)' <=> Drawn(s) /\ s # t
  BY <1>1, <1>2, <1>3, DrawnOnce DEF Drawn, Draws
<1>6. TokensGiven' = TokensGiven \cup {t}
  BY <1>2, <1>4, <1>5 DEF TokensGiven
<1>7. TokenUsers' = TokenUsers
  BY <1>1, <1>2 DEF TokenUsers, Renews
<1>8. CASE UNCHANGED refresh
  BY <1>6, <1>7, <1>8, EndingStep DEF TokensStored, Live
<1>9. CASE SetRefreshKey(t, req[p].usr)
  <2>1. req[p].usr \in Users
    BY <1>2, Parts, LocalTypes DEF UserLabels, IssueLabels
  <2>2. TokensStored' = TokensStored \cup {t}
    <3>1. refresh' = [refresh EXCEPT ![t] = req[p].usr] /\ req[p].usr # NoUser
      BY <1>9, <2>1, NoUserAssumption DEF SetRefreshKey
    <3> QED
      BY <1>1, <3>1 DEF TokensStored, Live
  <2>3. Promise!Issue(t)
    BY <1>4, <1>6, <1>7, <2>2 DEF Promise!Issue, TokensGiven
  <2> QED
    BY <2>3
<1> QED
  BY <1>3, <1>8, <1>9 DEF SetRefresh

LEMMA TokenEnds ==
  ASSUME Sound, NEW p \in Procs, Start(p) \/ Step(p),
         pc[p] # "setRefresh", ~(GetDel(p) /\ Takes(p))
  PROVE  Promise!End
<1>1. Effects(p) /\ \A q \in Procs \ {p} : pc'[q] = pc[q] /\ req'[q] = req[q]
  BY StartEffects, StepEffects DEF Effects, Others
<1>2. TokensStored' \subseteq TokensStored
  BY <1>1 DEF Effects, KeyEffects, TokensStored, Live
<1>3. Renews(p)' => Renews(p) /\ req'[p].old = req[p].old
  BY RenewsWith
<1>4. ASSUME NEW t \in Tokens
      PROVE  TokenUsers'[t] \in {TokenUsers[t], {}}
  <2>1. CASE Renews(p) /\ ~Renews(p)' /\ req[p].old = t
    BY <1>1, <2>1, UsedAlone DEF TokenUsers, Renews
  <2>2. CASE ~(Renews(p) /\ ~Renews(p)' /\ req[p].old = t)
    <3>1. \A q \in Procs :
            Renews(q)' /\ req'[q].old = t <=> Renews(q) /\ req[q].old = t
      BY <1>1, <1>3, <2>2 DEF Renews
    <3> QED
      BY <1>4, <3>1 DEF TokenUsers, Renews
  <2> QED
    BY <2>1, <2>2
<1> QED
  BY <1>2, <1>4, GivenGrows, EndingStep

LEMMA KeysNext ==
  ASSUME Sound, [Next]_vars
  PROVE  [Promise!Next]_<<TokensGiven, TokensStored, TokenUsers>>
<1>1. ASSUME NEW p \in Procs, Start(p) \/ Step(p)
      PROVE  Promise!Next
  <2>1. CASE pc[p] = "setRefresh"
    <3>1. SetRefresh(p)
      BY <1>1, <2>1
         DEF Start, StartLogin, StartRefresh, StartLogout, StartRevokeAll, Begin, Step,
             StoreRefreshToken, TrackSession, SetSession, GetDel, Untrack, FindUser,
             DelSession, SMembers, DelRefresh, DelSet
    <3> QED
      BY <3>1, TokenIssued DEF Promise!Next
  <2>2. CASE GetDel(p) /\ Takes(p)
    <3>1. req[p].old \in Tokens
      BY <2>2, Parts, LocalTypes DEF Takes, ConsumeLabels
    <3> QED
      BY <2>2, <3>1, TokenTaken DEF Promise!Next
  <2> QED
    BY <1>1, <2>1, <2>2, TokenEnds DEF Promise!Next
<1>2. ASSUME NEW t \in Tokens, Expire(t)
      PROVE  Promise!Next
  <2>1. TokensGiven' = TokensGiven /\ TokenUsers' = TokenUsers
    BY <1>2 DEF Expire, TokensGiven, Drawn, TokenUsers, Renews
  <2>2. \A s \in Tokens : refresh'[s] \in {refresh[s], NoUser}
    BY <1>2, Parts DEF Expire, DelRefreshKey, Typed, TypeOK, StoreTypeOK
  <2>3. TokensStored' \subseteq TokensStored
    BY <2>2 DEF TokensStored, Live
  <2> QED
    BY <2>1, <2>3, EndingStep DEF Promise!Next
<1>3. CASE Crash
  <2>1. /\ UNCHANGED <<refresh, root>>
        /\ \A q \in Procs : pc'[q] = "idle"
    BY <1>3 DEF Crash
  <2>2. TokensGiven \subseteq TokensGiven' /\ TokensStored' = TokensStored
    BY <2>1 DEF TokensGiven, Drawn, TokensStored, Live
  <2>3. \A t \in Tokens : TokenUsers'[t] = {}
    BY <2>1 DEF TokenUsers, Renews
  <2> QED
    BY <2>2, <2>3, EndingStep DEF Promise!Next
<1>4. CASE UNCHANGED vars
  BY <1>4 DEF vars, TokensGiven, Drawn, TokensStored, Live, TokenUsers, Renews
<1> QED
  BY <1>1, <1>2, <1>3, <1>4 DEF Next

(* A refresh token is good for one use (GETDEL in ConsumeRefreshToken):    *)
(* between SET and GETDEL nobody holds it, the Refresh that gets it is the *)
(* only one that does, and it never comes back.                            *)
THEOREM RefreshTokensOneTime == Spec => Promise!Spec
<1>1. Init => Promise!Init
  BY DEF Init, StoreInit, Promise!Init, TokensGiven, Drawn, TokensStored, Live, TokenUsers, Renews
<1>2. Sound /\ [Next]_vars => [Promise!Next]_Promise!vars
  BY KeysNext DEF Promise!vars
<1> QED
  BY <1>1, <1>2, SoundInvariant, PTL DEF Spec, Promise!Spec

=============================================================================
