# TLA+ specifications of braza-sso

braza-sso is a single-sign-on identity provider: a Go server (`internal/`,
`cmd/api`) whose request goroutines share a Redis key space and a Cassandra
keyspace, and a React frontend. Handlers take no locks and run no
transactions. What is correct about the system therefore depends on the order
of single Redis commands and Cassandra statements issued by concurrent
requests, on what is left when one of several round trips fails, and on what
survives a restart of the server. That is what these modules model, check with
TLC and prove with TLAPS.

## The system

| Component | State it keeps | Operations | What is hard | What makes it correct |
|---|---|---|---|---|
| Login sessions (`login.go`, `logout.go`, `token_store.go`) | `refresh:<t>`, `user_sessions:<u>`, `sso_session:<t>` in Redis; two cookies at the client | Login, Refresh, Logout, RevokeAll, `RevokeAllUserSessions` after a password reset | rotation of one token by concurrent requests; a revocation built from a snapshot; SET and SADD apart | a login is one chain of one-time tokens, revoked tokens stay dead, a closed login is never reopened |
| Account lockout (`login.go`, `token_store.go`) | `login_attempts:<u>` with a TTL in Redis; `failed_attempts`, `locked_until` in the user's row | failed and successful Login, password reset, time | two stores, unconditional row writes, two clocks | the guesses before a lock are bounded, a lock ends, the counter ends first |
| Accounts (`register.go`, `user/repository.go`) | `users`, `users_by_email` in Cassandra; `email_verify:<t>`; mailboxes | Register, ResendVerification, VerifyEmail | two tables, check-then-insert, upserts | the lookup table is sound, only proven addresses are verified |
| Google federation (`federation.go`) | `federated_identities`; the OAuth state key | GoogleRedirect, GoogleCallback | find-or-create against concurrent creation | the user signed in exists |
| Second factor (`totp.go`, `recovery_codes.go`) | `totp_secret`, `totp_enabled`; `user_recovery_codes`; `mfa_session:<t>` | Enroll, Confirm, the MFA branch of Login, Verify, Recovery | read-modify-write of the row, list-then-mark, delete-then-insert | one login per MFA session, 2FA enabled only with a confirmed secret, spent codes stay spent |
| Authorization codes and consent (`oauth/handlers.go`, `oauth/client.go`) | `oauth_code:<c>` in Redis, `user_consents`, `oauth_clients` | Authorize, Consent, Token | one-time codes, replaced consents, dropped errors | a code is redeemed once, by whom it was issued to, for scopes that were shown |
| Password reset (`password_reset.go`) | `pwd_reset:<t>`, password hash | ResetRequest, Reset | a reset writes three stores one after the other while logins go on | a link works once and for its own account, logins under the old password end |
| The browser's cookies (`cookie.go`) | the refresh and the SSO cookie | Set-Cookie of every answer above | tabs overlap, answers are lost or arrive in another order | a session whose cookie is cleared is dead, a signed-out browser stays out, the two cookies are of one user |
| Back-channel logout (`oauth/backchannel.go`) | none | NotifyLogout | goroutines that outlive the request | relying parties are told |
| Rate limiter (`middleware/ratelimit.go`) | one counter per address and path | PerIP, PerEmailSilent | INCR and EXPIRE apart, fails open, time | a bounded number of requests in every stretch of a window, and a counter that ends |
| Middleware, JWT, JWKS, password hashing, mail, configuration, client registration, frontend pages, deployment | none shared | - | - | - |

They interact by calls and by shared keys: Register, the callback, Verify,
Recovery and Login end in `StoreRefreshToken`; a password reset calls
`UpdatePassword` (which clears the lock) and `RevokeAllUserSessions`; Authorize
and Consent take the user from an SSO session key; Logout starts the
back-channel notification; the limiter stands before Register, Login and
ResetRequest. `PasswordReset` and `SingleLogout` extend `Sessions` and so are
compositions with it: their requests, or their browser, run among all the
requests that issue, rotate and revoke tokens.

## Modules

A goroutine serves one request at a time. In every module `Procs` is the set of
goroutines, `pc[p]` the next round trip of the request at `p`, and `req[p]` the
local variables of its handler. `Start...` actions are the arrival of a request
up to its first round trip, with every check made before it; each later action
is one Redis command or Cassandra statement with the code that runs up to the
next one, and ends in an answer (`Finish`) where the handler returns. Between
two of them any other request may run. With `MayFail` a round trip may fail,
its command applied or not, and `Crash` stops the server: every request in
flight is lost, the stores stay. Random tokens and UUIDs are members of a small
set, never drawn twice. Variables called history in the declarations are not in
the program; they remember what a property needs.

| Module | Models |
|---|---|
| `TokenStore` | the session keys of Redis, one operator per command |
| `Sessions` (extends `TokenStore`) | the handlers that issue, rotate and revoke tokens |
| `SessionLifecycle` | the abstract promise: chains of one-time tokens, each with one holder |
| `SessionsRefinement` | the refinement mapping from `Sessions` to `SessionLifecycle` |
| `SessionRevocation` | `Sessions` with history variables that audit a full revocation |
| `PasswordReset` (extends `Sessions`) | a reset from the mailed link to the revocation, among the session requests |
| `SingleLogout` (extends `Sessions`) | a browser whose connections carry those requests, and its cookie jar |
| `Lockout` | failed and successful logins against one account, with time |
| `RateLimiter` | one counter of the request limiter, with time |
| `Accounts` | registration, verification and the Google callback over the two user tables |
| `SecondFactor` | enrolment, confirmation and the two ways to complete an MFA login |
| `AuthorizationCodes` | Authorize, Consent and the exchange of a code |
| `OneTimeKeys` | the abstract promise of a key that works once; refresh tokens, reset links, verification links, MFA sessions and authorization codes implement it |
| `MC...` | instances for TLC: symmetry sets and constant expressions |
| `PromiseProofs` | theorems about the two abstract modules, `SessionLifecycle` and `OneTimeKeys` |
| `SessionsProofs`, `LockoutProofs`, `RateLimiterProofs`, `AccountsProofs`, `SecondFactorProofs`, `AuthorizationCodesProofs` | theorems about the module of that name |
| `SignOutProofs` | theorems about the three modules that extend `Sessions` |

How the state corresponds to the code:

* `Sessions`: `refresh`, `userSessions` and `sso` are the three key spaces;
  `refreshCookie` and `ssoCookie` are all tokens ever delivered in a
  Set-Cookie, any of which may be presented at any time. One id stands for the
  refresh token and the session token that one `issueTokenPair` draws. The
  handlers that store a refresh token and no SSO session (Verify, Recovery, the
  Google callback) are the operation `verify`. `root[t]` is the login that
  began the chain of `t`.
* `SessionLifecycle`: a token is `new`, `drawn` (generated, not stored),
  `usable` or `spent`; a chain whose token was exchanged is `renewing` until
  the next one is drawn. The mapping computes this from `root`, `refresh`, `pc`
  and `req`; a login that fails closes its chain.
* `Lockout`: time is counted in ticks, timestamps are the ticks left. The row's
  `failed_attempts` is kept as a Boolean, the only test the code makes of it.
  A login lasts less than a tick and sees at most one.
* `Accounts`: `rowEmail` and `verified` are columns of `users`, `index` is
  `users_by_email`. `FindByEmail` is two reads. `doubted` marks accounts whose
  creation overlapped another of the same address, failed half way, or relied
  on a read that failed.
* `SecondFactor`: one account. A TOTP code is represented by the secret it was
  computed from; the recovery codes of an enrolment are pairs of its secret and
  an index.
* `AuthorizationCodes`: a stored code is what it was issued for (`Grants`, the
  code's `authCodeMeta`). A PKCE challenge is a verifier and a method; the
  server recomputes an S256 hash whatever the method was, so a `plain`
  challenge matches no verifier.
* `PasswordReset`: `resetKey` is the key space `pwd_reset:`, `password` the
  hash in the user's row, named by the link it was set with. `stage[p]` is the
  round trip of a Reset; its revocation is the `revokeAll` request of
  `Sessions`, step by step. `stale` are logins open when a password was
  replaced, `overlapped` those with a request in flight during a revocation,
  `cut` the users whose Reset did not get through.
* `SingleLogout`: `jar` is the browser's two cookies and `answer[p]` the
  Set-Cookies on their way on connection `p`, delivered in any order or lost. A
  lost answer also stands for one that went to another device of the user. The
  refresh cookie has the Path `/auth/token/refresh`, so Logout, which reads it,
  is never sent it. A request to Refresh may carry it; the pages of `frontend/`
  call the server under `/api` (`api.ts:1`), where even that Path does not
  match, and are a special case.
* `RateLimiter`: `count` and `ttl` are a key of the limiter. It is compared with
  the limit only, and saturates one above it. The history `passed` holds the
  requests let through in the last window, newest first, each by its age.
* `OneTimeKeys`: a key is `given` when it was handed out, `stored` while it can
  be taken, and `held` by the request that took it. Each detailed module
  computes the three from its store and its `pc`.

Every module contains, next to a definition, the mutants of it that
`PROJECT.json` uses to show that a property can fail.

## Runs

| Run | Shows | Bounds |
|---|---|---|
| `sessions` | no login forks (`NoFork`), no revoked token returns (`RevokedStaysRevoked`), no revocation touches another user (`RevocationHitsOwnUser`), and the handlers implement the lifecycle (`ImplementsLifecycle`), so that ended logins are not reopened | 2 users, 2 tokens, 2 goroutines, failures and restarts; 392 317 states |
| `revocation_overlap` | what a revocation can miss: a token only if its SADD ran inside another revocation of the user, a login only by such a token or by a refresh in flight | 1 user, 2 tokens, 2 goroutines; 1.06 million states |
| `revocation_misses_token` (violation) | such a token exists, although `token_store.go` says every token is deleted | as above |
| `lockout` | the counter ends before the lock it set (`CounterDiesFirst`), the failures counted before a lock are bounded (`GuessBudget`), a lock is prolonged in its first tick only (`ProlongedWhenYoung`) and ends by itself (`UnlocksByItself`) | threshold 3, window 2 ticks, lock 4 ticks, 2 goroutines, counts up to 8; 55 524 states |
| `accounts` | the lookup table names an account of its own address (`IndexIsSound`), verified means proven (`VerifiedIsProven`), a link verifies the account it was mailed for (`LinkMatchesAccount`), an account is lost to its email only after a race or a failure (`LostOnlyIfDoubted`), links are one-time keys (`LinksAreOneTime`), a Google login ends in the account of its own address (`SignsInOwner`) | 2 emails, 2 ids, 1 link, 2 goroutines, failures and restarts; 759 153 states |
| `federated_phantom` (violation) | a Google callback signs in a user that was never written | 1 email, 2 ids, no failures |
| `second_factor` | an MFA session completes one login (`OneLoginPerSession`), 2FA is enabled with a confirmed secret only (`EnabledIsConfirmed`), a used recovery code stays used (`SpentCodesAreDead`), two sets of codes are accepted together only if their enrolments overlapped (`SetsMixOnlyIfOverlapped`), MFA sessions are one-time keys (`MFASessionsAreOneTime`) | 2 enrolments of 2 codes, 2 MFA sessions, 2 goroutines, failures and restarts; 1.46 million states |
| `recovery_code_used_twice` (violation) | one recovery code completes two logins | 1 code, 2 MFA sessions, no failures |
| `authorization_codes` | a code is answered once (`CodeRedeemedOnce`), to a request that matches it (`TokenMatchesCode`), for scopes its user was shown (`CodeWithinShown`), and is a one-time key (`CodesAreOneTime`) | 2 codes, 5 kinds of request (2 users, 2 clients, 2 scopes, 3 kinds of challenge, an unregistered URI), 2 goroutines, failures and restarts; 1.20 million states |
| `password_reset` | a login under a replaced password is out, unless it overlapped the revocation or the Reset broke off (`OldSessionsAreOut`), a password is only set from the account's own mailbox (`PasswordFromMailbox`), reset links are one-time keys (`ResetLinksAreOneTime`) | 2 users, 2 tokens, 1 link, 2 goroutines, failures and restarts of resets; 2.38 million states |
| `single_logout` | an SSO session that Logout cleared is dead, unless its cookie arrived while a Logout was on its way or its DEL failed (`ClearedIsDead`); a signed-out browser gets no cookie of an old login back, unless a request of that login was on its way (`SignedOutStaysOut`); the two cookies are of one user after every login that stores an SSO session (`OneUserPerJar`) | 2 users, 2 tokens, 2 connections, failures and restarts; 4.85 million states |
| `rate_limiter` | any stretch of a window lets a bounded number of requests through (`WindowBudget`), a silent window starts from zero (`PauseReopens`), a counter runs out once requests stop (`RunsOut`) | limit 5, window 3 ticks, 2 requests at a time, pipelines that break; 18 914 states |

Each passing run checks its module's type invariant too, except `revocation_overlap`
and `single_logout`, whose modules add only history and the jar to `Sessions`, and
`password_reset`, whose `ResetTypeOK` is proved (`ResetTypeCorrect`).

The bounds are enough for what the properties are about. Each race in these
handlers is between two requests over one key or row, so two goroutines show
it; a goroutine that is done takes the next request, so sequences of more than
two requests occur too. Two tokens are a login with one rotation, or two
logins, of the same user or of different ones. Two enrolments and two recovery
codes give overlapping enrolments that stop between two INSERTs. `password_reset`
has one link, because its properties relate a link to itself and a login to
the password before or after it, and lets round trips of a Reset fail but not
those of the other requests, whose failures the run `sessions` covers.
The threshold and window of the lockout are smaller than the program's 5 failures,
15 minutes and 30 minutes, and keep the two facts used: the threshold is more
than one attempt, and the window is shorter than the lock (15 < 30). The limit 5 is
that of `/auth/register`, its window 3 ticks. Pools that run dry (`Tokens`, `Secrets`, `Sessions`, `Codes`) and `CountBound`, above which
no login starts, bound the exploration only. Deadlock is checked in every run.

Fairness is assumed in two places. `Lockout!FairSpec` and
`RateLimiter!FairSpec`: time passes, and a request with a runnable step
eventually runs it; nobody has to send another. That is what the Go scheduler,
Redis and the timeouts of `cmd/api/main.go` provide, and `UnlocksByItself` and
`RunsOut` need it. The other specifications state no fairness; their properties
are about safety.

## What the code does differently from what it says

* `revocation_misses_token`: SMEMBERS, then DEL of the whole set; a token added
  in between is alive and no later revocation finds it.
* `federated_phantom`: `federation.go:210` tests the wrong error variable, so
  the re-fetch its comment announces never happens.
* `recovery_code_used_twice`: listing and marking a recovery code are two round
  trips without a condition.

Other differences have no run of their own, most because they need no particular
order of events; they are in the models as the code has them:

* A refresh token presented twice is answered 401 and nothing else happens; the
  reuse scenario of `user-authentication/spec.md` ends all sessions.
* The consent form carries the button that was pressed, and the handler does
  not read it: Deny stores the consent and issues a code (`StartConsent`).
* The challenge method is only checked by Authorize, after the consent; a code
  issued by Consent for a `plain` challenge cannot be redeemed, since Token
  always computes S256.
* A slower login writes a count below the threshold over the lock of another, and
  nothing sets the lock again before the next failure, although
  `account-lockout/spec.md` locks every account that reaches the threshold:
  `GuessBudget` bounds what that costs.
* Logout reads a cookie that browsers do not send it: it ends the SSO session
  and clears both cookies, but the refresh token stays usable for whoever else
  has it and no back-channel notification is sent, although
  `single-logout/spec.md` promises both.
* `RevokeAllUserSessions` leaves SSO sessions alone, so that they survive
  `/auth/logout/all` and a password reset, although `password-management/spec.md`
  ends all sessions. An MFA session begun under the old password survives a reset too.
* `UpdatePassword` clears the lock in the row and leaves the counter in Redis:
  the next wrong password may lock the account again.
* `rate-limiting/spec.md` asks for limits per account; `PerEmailSilent` counts
  per client address as `PerIP` does.

The passing runs say how far these go. `UntrackedOnlyIfExposed` and
`EscapeOnlyIfExposed` show that only a revocation that overlaps misses
anything; `GuessBudget` that the lost locks cost at most a number of guesses
that depends on the requests in flight; `LostOnlyIfDoubted` and `IndexIsSound`
that the lookup table stays sound through every duplicate; `SpentCodesAreDead`
that a recovery code used twice was used by two requests that overlapped (and
the theorem `RecoveryCodesBounded` that no more logins come of it than there are
requests at a time); `SignsInOwner` that the user a Google callback invents is
missing only where its address has an account, and that a callback signs in
nobody else; `OldSessionsAreOut` that only an overlap or a Reset that broke off, which is
answered 200 like any other, leaves an old login in; and `SignedOutStaysOut` that
for the browser itself a Logout holds.

## Proofs

Every safety property and refinement that a passing run checks is proved, for
any sets of users, tokens, links, codes and goroutines, and for any threshold,
limit, window and duration. The assumptions are those stated in the modules:
absent values are outside the sets they stand beside, sets that a request
chooses from are not empty where it must choose, `MayFail` and `ResetFails` are
Booleans. `Lockout`, `RateLimiter` and `SecondFactor` count requests, so that
their goroutines are finitely many; a lock lasts longer than the window of the counter
(`token_store.go:26-27`), and the limiter's window is longer than a pipeline takes.

* `SessionsProofs`: `TypeCorrect`, `LoginsNeverFork`, `RevocationIsFinal` and
  `RevocationHitsItsUser` (`Spec => []TypeOK`, `[]NoFork`,
  `[]RevokedStaysRevoked`, `[]RevocationHitsOwnUser`); `Refinement`
  (`Spec => ImplementsLifecycle`) and, from it and `ClosingIsFinal`,
  `EndedLoginsStayEnded` (`Spec => LoginIsFinal`); `RefreshTokensOneTime`: the
  handlers implement the one-time keys too.
* `SignOutProofs`: what a revocation can miss, `UntrackedExposed` and
  `EscapeExposed`; what a browser keeps after it has logged out,
  `CookiesNameOneUser`, `ClearedSessionsAreDead` and `SignedOutForGood`; what a
  password reset leaves, `ResetTypeCorrect`, `OldSessionsOut`,
  `PasswordsFromMailbox` and `LinksOneTime`.
* `LockoutProofs`: `TypeCorrect`, `CounterRunsOutFirst`, `LocksAreNotExtended`,
  `GuessesAreBounded`.
* `RateLimiterProofs`: `TypeCorrect`, `WindowIsBudgeted`, `SilenceReopens`.
* `AuthorizationCodesProofs`: `CodesTypes`, `CodesRedeemedOnce`,
  `TokensMatchCodes`, `CodesWithinShown`, and `CodesOneTime`.
* `SecondFactorProofs`: `TypeCorrect`, `LoginOnce`, `EnabledConfirmed`,
  `SpentStaysDead`, `SetsMix`, `RecoveryCodesBounded` (of `RecoveryCodeBudget`, which
  no run checks: with the two MFA sessions of `second_factor` it says nothing), and
  `SessionsOneTime`.
* `AccountsProofs`: `TypeCorrect`, `IndexSound`, `VerifiedProven`,
  `LinkMatches`, `LostDoubted`, `OwnerSignsIn`, and `LinksOneTime`.
* `PromiseProofs`: of the abstract lifecycle, a chain has one holder
  (`ChainHasOneHolder`), spent tokens stay spent (`TokensAreOneTime`) and closed
  chains stay closed (`ClosingIsFinal`); of the one-time keys, a key has one
  holder, and none while it can be taken (`KeysHeldAlone`).

### Sessions

`NoFork` is not inductive alone. `GETDEL` gives up one live token and makes its
request the carrier of the chain; that no other request stores a token of the
same chain needs that a request which is about to store one was alone in
drawing it. The inductive invariant `ChainInv` is `Typed /\ Rooted /\ NoFork`:

* `Typed` is `TypeOK` with `LocalsOK`: a local is set at every label that reads
  it (a request at `setRefresh` has a token and a user).
* `Rooted`: a token that is stored, delivered in a cookie or in the hands of a
  request has been generated, and so has the login token its chain began with.

For `RevokedStaysRevoked` it further needs `TrackedAfterSet`: a token that a
revocation has seen (it is revoked, in a tracking set or in a snapshot) was
generated and no request is about to `SET` it, and two requests never hold the
same new token. That is the order of the two commands in `StoreRefreshToken`;
the mutant that swaps them breaks it. Each preservation lemma has one step per
action. `SessionInv`, the conjunction of the two, is what the refinement is
proved from. The abstract specification has its own, `LifecycleInv`: its types,
every chain began with a login, and one holder per chain.

The refinement is proved from that invariant: initial states map to initial
states, and each action maps to one step of the lifecycle or a stutter, a
failure to `Close`, a crash to a `Close` of all that was drawn or renewing.

### Revocations

The revocation theorems first say once what a step of any request can do to
keys, sets, cookies and chains (`Effects`), and then argue from that alone:

* `Delivered`: a token reaches a cookie only after the last command that stores
  it, and only delivered tokens are presented; a consumed one is dead.
* `Found`: a live token that is delivered, or about to be, is in its user's set
  or was exposed; what is in a set that a pipeline is about to delete is in the
  pipeline's snapshot, dead, or was exposed. `UntrackedOnlyIfExposed` follows.
* `Audited`: every token a pending revocation has to revoke is its user's or
  dead, and from the snapshot on either still to be deleted, dead or exposed;
  every chain it has to end is held by those tokens (`Held`, from `NoFork`), or
  a refresh in flight has taken it (`Renewed`), or it is already on record as
  lost. When the pipeline is through, only the last two are left.

The history variables record and never restrict (`AuditIsHistory`), so the
invariants of `SessionsProofs` hold of the audited behaviours.

### The browser

`SingleLogout` adds a jar and answers to `Sessions`; its behaviours are
behaviours of `Sessions` (`LogoutIsSessions`), whose invariants hold of it.

* `PairsAgree` (of `Sessions`): an SSO token goes out with its refresh token, and
  the keys of the two never name different users. `BrowserOK`: an answer brings,
  and clears, the SSO cookie only together with the refresh cookie of the same
  login, and so does the jar. `OneUserPerJar` follows from the two.
* `LogoutMeetsJar`: while a Logout is on its way the jar holds the session it
  will delete, or one that arrived behind its back. `ClearedIsDead` needs it at
  the moment the answer arrives.
* `StaysOut`: no token in the jar, in a request or in an answer belongs to a
  login that is out. A token comes near the browser only from one that was
  there, by rotation, or as the first of a login. `SignedOutStaysOut` follows.

### Password reset

The Reset's revocation may break off in a run where other requests do not fail,
so its behaviours are behaviours of `Sessions` with failures, whatever `MayFail`
is. `SignOutProofs` takes the theorems of `SessionsProofs` in that instance
(`F == INSTANCE SessionsProofs WITH MayFail <- TRUE`) and shows
`ResetSpec => F!Spec`. On top of that:

* `StageOK`: a Reset past its UPDATE is a `revokeAll` of the link's account.
* `Swept`, from which `OldSessionsAreOut` follows. A delivered token of an old
  login is due to a revocation that is yet to delete it (`OldTokens`, `Planned`);
  an old login in the hands of a request is in flight during that revocation
  (`OldFlights`); and a live token is in its user's set (`FoundBut`, the `Found`
  above with other exceptions). Each with the same three exceptions: the login
  overlapped a revocation, or its user's Reset broke off.

### Lockout

`CounterDiesFirst` compares two clocks, and that a login cannot restart the
counter late needs to know how young the lock is. `LockInv`: a key that exists
has time left, and no expiry only while a login is about to send EXPIRE; the
counter ends first; and a lock that a login in flight meets was set after that
login passed the lock test (`LockIsYoung`), so that it has at least all but one
tick of its duration left, which is no less than a window. `ProlongedWhenYoung`
is what that says of a step: the only one that adds time to a lock is the row
write of such a login.

`GuessBudget` is a potential argument. From the threshold on, `BudgetInv` bounds
twice the sum of the failures counted and the logins that may count one at once
(`Guessers`), plus what the logins that may yet clear a lock are worth
(`Clearers`, `Worth`): the first to clear it lets all goroutines in again, the
next one fewer, because a login that cleared a lock is done and one that starts
now counts above the threshold, or deletes the counter. Every step keeps the sum
or lowers it.

### Rate limiter

`BudgetInv` of the limiter: while the key has an expiry, its time left and the
age of anything let through add up to a window (`KeyOutlastsHistory`), so that
nothing of the history is left when the key runs out; and what was let through,
or will be, has been counted by the key, or belongs to the requests, at most one
of each goroutine, whose key ran out between their two commands (`Counted`).
`WindowBudget` follows. For `PauseReopens`, `Heard` says that a key with an
expiry was started no later than the client was last heard of.

### One-time keys

The modules that hand out one-time keys are proved along one argument: the
right to use a key is in the store or in one request, never in both.

* `CodesInv` (`AuthorizationCodes`): a request past its `GETDEL` has a code that
  is gone from the store and not answered yet, and no two such requests have the
  same code (`TakenOnce`); what is stored, and what a request is about to store,
  lies within the scopes shown (`CodeOK`, `ConsentShown`).
* `FactorInv` (`SecondFactor`): the same for MFA sessions (`Owns`, `Apart`);
  and, for the recovery codes, that a request past marking its code finds it
  used, and that an enrolment between two INSERTs meets unused codes of another
  set only if the two overlapped. `BudgetInv`, for `RecoveryCodeBudget`: the
  logins a code has completed and the requests that have listed it unused and
  not yet completed theirs are together no more than the goroutines, because a
  request joins the latter only while the code is unused and has completed none.
* `AccountsInv` (`Accounts`): a request that has drawn an id is alone with it
  and has written no row for it; one past the uniqueness check finds the lookup
  entry empty, its own or doubted; two such requests for one email have doubted
  each other (`Apart`). The first four safety properties are conjuncts of it. For
  `SignsInOwner`, `OwnerInv` adds what each step of the callback has read or
  written of the id in its hands (`OwnerLocal`), and that nobody else creates the
  account a login is about to end in (`OwnerApart`).
* `LinksInv` (`PasswordReset`): a Reset past its `GETDEL` has a link that is
  gone and the account that link was mailed to. It is about the variables that
  `PasswordReset` adds, and the session requests are steps that leave them
  alone; so it needs no invariant of `Sessions`.
* `Sessions` needs nothing new: `SessionInv` and `HeldOnce`, that one request at
  most holds a chain, say it of refresh tokens.

Each module's refinement of `OneTimeKeys` follows from its invariant: the step
that takes a key maps to `Take`, the one that hands it out to `Issue`, and
answers, failures, expiries and crashes to `End`. `KeysHeldAlone` then says of
all five what their invariants establish one by one.

## Only model-checked

`UnlocksByItself` and `RunsOut`: they are liveness properties under fairness,
and the prover handles neither fairness nor `ENABLED`.

## Not modelled

* The back-channel notifications: one goroutine per relying party posts once,
  with a timeout of 5 seconds and no retry, and nothing depends on the outcome.
* The OAuth state key of the Google login: one `SET` and one `GETDEL` by two
  handlers before any other state is read; it would only multiply the states of
  `Accounts`.
* A Redis that restarts from an older snapshot (`docker-compose.yml` saves every
  60 seconds), which brings one-time tokens back. No code handles it, and no
  one-time property survives it.
* A write that times out and is applied later than the next statement of the
  same request, and Cassandra replicas that answer differently; a failed write
  is applied at once or never.
* Userinfo, Discovery and the client_credentials grant, hashing, JWT and JWKS,
  the authentication middleware, the frontend pages, client registration,
  configuration, scripts and deployment: they keep no state that requests share.

## Plan

Done: `TokenStore`, `Sessions`, `SessionLifecycle` and the refinement; the audit
of revocations; `Lockout`, `Accounts`, `SecondFactor`, `AuthorizationCodes`;
`RateLimiter`, `PasswordReset` and `SingleLogout`; `OneTimeKeys` and its five
refinements; the budgets of recovery codes and the owner of a Google login; the
proofs above. Nothing of the plan is left; what stays out and why is listed in
the section before this one.
