---------------------------- MODULE SingleLogout ----------------------------
(* One browser and its cookie jar (internal/auth/cookie.go) over the        *)
(* session requests of module Sessions: what the tabs of a browser have     *)
(* after logins, refreshes and logouts that overlap, and what the server    *)
(* has.  A process of Procs is a connection of the browser, which carries   *)
(* one request and then its answer; answers of different connections arrive *)
(* in any order or, like those to another device of the user, not in this   *)
(* jar at all.                                                              *)
(*                                                                          *)
(* The refresh cookie has the Path /auth/token/refresh and goes to Refresh  *)
(* only; the SSO cookie goes everywhere.                                    *)
EXTENDS Sessions

CONSTANTS
  Keep     \* an answer without a Set-Cookie for a cookie

ASSUME KeepAssumption == Keep \notin Tokens \cup {NoToken}

VARIABLES
  jar,      \* the value of each cookie in the browser, or NoToken
  answer,   \* the Set-Cookies of the answer each connection has to deliver
  cleared,  \* history: SSO sessions that an answer of Logout cleared
  excused,  \* history: SSO sessions that arrived in the jar while a Logout
            \* was on its way, or whose DEL failed
  ended,    \* history: logins begun before the last Logout was answered
  revived   \* history: those of them that had a request on its way then

browser == <<jar, answer>>
history == <<cleared, excused, ended, revived>>
logoutVars == <<vars, browser, history>>

Cookies == {"refresh", "sso"}
NoAnswer == [c \in Cookies |-> Keep]
Cleared == [c \in Cookies |-> NoToken]
ClearedRefresh == [NoAnswer EXCEPT !["refresh"] = NoToken]

LogoutInit ==
  /\ Init
  /\ jar = Cleared
  /\ answer = [p \in Procs |-> NoAnswer]
  /\ cleared = {} /\ excused = {} /\ ended = {} /\ revived = {}

-----------------------------------------------------------------------------
(* Requests.                                                               *)

Free(p) == pc[p] = "idle" /\ answer[p] = NoAnswer

(* The browser attaches the cookies whose Path matches: the refresh cookie *)
(* to Refresh, which answers 401 without one, and not to Logout.  RevokeAll *)
(* takes its user from a bearer token.  Mutant: the SSO cookie has a Path  *)
(* of its own too.                                                         *)
AttachNeither(p) ==
  LET r == req'[p] IN
  /\ r.op = "refresh" => r.old = jar["refresh"]
  /\ r.op = "logout" => r.old = NoToken /\ r.sess = NoToken
Attach(p) ==
  LET r == req'[p] IN
  /\ r.op = "refresh" => r.old = jar["refresh"]
  /\ r.op = "logout" => r.old = NoToken /\ r.sess = jar["sso"]

Send(p) ==
  /\ Free(p)
  /\ Start(p)
  /\ Attach(p)
  /\ UNCHANGED <<browser, history>>

(* The Set-Cookies of a handler that has returned.  A login that stores no *)
(* SSO session, and RevokeAll, leave the SSO cookie alone.  Mutants: the   *)
(* answer of Logout has no Set-Cookie for the refresh cookie; a browser    *)
(* that has an SSO cookie is not sent another.                             *)
KeepRefreshCookie(p) ==
  CASE req[p].op = "logout" -> [Cleared EXCEPT !["refresh"] = Keep]
    [] req[p].op = "revokeAll" -> ClearedRefresh
    [] OTHER -> [c \in Cookies |->
         IF req[p].new \in (IF c = "refresh" THEN refreshCookie' ELSE ssoCookie')
         THEN req[p].new ELSE Keep]
SessionCookieOnce(p) ==
  CASE req[p].op = "logout" -> Cleared
    [] req[p].op = "revokeAll" -> ClearedRefresh
    [] OTHER -> [c \in Cookies |->
         IF \/ c = "refresh" /\ req[p].new \in refreshCookie'
            \/ c = "sso" /\ req[p].new \in ssoCookie' /\ jar[c] = NoToken
         THEN req[p].new ELSE Keep]
SetCookies(p) ==
  LET r == req[p] IN
  CASE r.op = "logout" -> Cleared
    [] r.op = "revokeAll" -> ClearedRefresh
    [] OTHER -> [c \in Cookies |->
         IF r.new \in (IF c = "refresh" THEN refreshCookie' ELSE ssoCookie')
         THEN r.new ELSE Keep]

Serve(p) ==
  /\ Step(p)
  /\ answer' = IF pc'[p] = "idle" THEN [answer EXCEPT ![p] = SetCookies(p)]
               ELSE answer
  /\ excused' = IF pc[p] = "delSession" /\ sso' = sso
                THEN excused \cup ({req[p].sess} \ {NoToken}) ELSE excused
  /\ UNCHANGED <<jar, cleared, ended, revived>>

-----------------------------------------------------------------------------
(* Answers.                                                                *)

(* Only Logout clears the SSO cookie. *)
LogsOut(p) == answer[p]["sso"] = NoToken
LogoutOnItsWay == \E q \in Procs : req[q].op = "logout" \/ LogsOut(q)

(* The logins that a request or an answer on its way belongs to. *)
OnItsWay ==
  LET carried == UNION ({{req[q].old, req[q].new} : q \in Procs}
                        \cup {{answer[q][c] : c \in Cookies} : q \in Procs})
  IN {root[t] : t \in carried \ {NoToken, Keep}}

Deliver(p) ==
  /\ answer[p] # NoAnswer
  /\ jar' = [c \in Cookies |-> IF answer[p][c] = Keep THEN jar[c] ELSE answer[p][c]]
  /\ answer' = [answer EXCEPT ![p] = NoAnswer]
  /\ IF LogsOut(p)
     THEN /\ cleared' = cleared \cup ({jar["sso"]} \ {NoToken})
          /\ ended' = {root[t] : t \in Tokens} \ {NoToken}
          /\ revived' = OnItsWay
          /\ UNCHANGED excused
     ELSE /\ excused' = IF LogoutOnItsWay /\ answer[p]["sso"] # Keep
                        THEN excused \cup {answer[p]["sso"]} ELSE excused
          /\ UNCHANGED <<cleared, ended, revived>>
  /\ UNCHANGED vars

Lose(p) ==
  /\ answer[p] # NoAnswer
  /\ answer' = [answer EXCEPT ![p] = NoAnswer]
  /\ UNCHANGED <<vars, jar, history>>

(* Keys run out and the server restarts, as in module Sessions; answers    *)
(* already sent arrive all the same.                                       *)
Environment ==
  /\ Crash \/ \E t \in Tokens : Expire(t)
  /\ UNCHANGED <<browser, history>>

LogoutNext ==
  \/ \E p \in Procs : Send(p) \/ Serve(p) \/ Deliver(p) \/ Lose(p)
  \/ Environment

LogoutSpec == LogoutInit /\ [][LogoutNext]_logoutVars

-----------------------------------------------------------------------------

(* single-logout/spec.md, Logout "invalidates the SSO session in Redis":   *)
(* an SSO session whose cookie a Logout has cleared is dead at the server, *)
(* unless it arrived in the jar after that Logout had been sent, from      *)
(* another tab, or its DEL failed, which Logout answers like a success.    *)
ClearedIsDead == \A t \in cleared \ excused : sso[t] = NoUser

(* The refresh token outlives Logout, which is not sent its cookie; that   *)
(* the user is out rests on the jar.  It does not come back by itself: the *)
(* browser has no cookie of a login begun before its last Logout unless a  *)
(* request of that login was on its way when the answer came.              *)
SignedOutStaysOut ==
  \A c \in Cookies : jar[c] # NoToken /\ root[jar[c]] \in ended => root[jar[c]] \in revived

(* Authorize acts for the user of the SSO cookie, the page for that of the *)
(* refresh cookie.  However the tabs log users in, refresh and log out,    *)
(* they differ only after a login that stored no SSO session.              *)
OneUserPerJar ==
  LET r == jar["refresh"]
      s == jar["sso"]
  IN r # NoToken /\ s # NoToken /\ r \in ssoCookie =>
       \/ refresh[r] = sso[s]
       \/ NoUser \in {refresh[r], sso[s]}

=============================================================================
