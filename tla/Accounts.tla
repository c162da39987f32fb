------------------------------ MODULE Accounts ------------------------------
(* How an account comes to exist, to be found by its email and to be        *)
(* verified: Register, ResendVerification and VerifyEmail (register.go),    *)
(* GoogleCallback (federation.go) and user.Repository.Create.               *)
(*                                                                          *)
(* The account is spread over two Cassandra tables, users and the lookup    *)
(* table users_by_email, written one after the other and read one after     *)
(* the other, without lightweight transactions; verification links are in   *)
(* Redis and in mailboxes.  A process of Procs is a request goroutine, with *)
(* one step per round trip.  With MayFail a round trip may fail, applied or *)
(* not, and the server may crash.                                           *)

CONSTANTS
  Emails, Ids, Links,    \* email addresses, user ids, verification tokens
  Procs,                 \* request goroutines
  NoEmail, NoId, NoLink, \* absent values
  MayFail                \* BOOLEAN: round trips may fail, the server crash

ASSUME AbsentAssumption ==
  NoEmail \notin Emails /\ NoId \notin Ids /\ NoLink \notin Links
ASSUME MayFailAssumption == MayFail \in BOOLEAN

VARIABLES
  rowEmail,  \* users: the email column of each row, NoEmail: no such row
  verified,  \* users: the email_verified column
  index,     \* users_by_email
  linkFor,   \* email_verify:t -> user id, NoId when the key is absent
  inbox,     \* the mailbox a link was delivered to, NoEmail: none
  linked,    \* federated_identities: the user ids with a Google identity
  signedIn,  \* user ids a refresh token was stored for
  pc,        \* next round trip of each request
  req,       \* local variables of each request
  proven,    \* history: emails whose owner used a link mailed there, or for
             \* which Google vouched
  doubted    \* history: ids whose uniqueness check decided nothing, or whose
             \* Create was cut short

tables == <<rowEmail, verified, index>>
links == <<linkFor, inbox>>
federated == <<linked, signedIn>>
vars == <<rowEmail, verified, index, linkFor, inbox, linked, signedIn, pc, req,
          proven, doubted>>

Ops == {"none", "register", "resend", "verify", "callback"}

Labels == {"idle", "lookupIndex", "lookupRow", "checkIndex", "checkRow",
           "insertUser", "insertEmail", "createToken", "consume",
           "setVerified", "upsert", "storeRefresh"}

(* email: the address the request is about; id: the account it creates or  *)
(* has found; found: the id FindByEmail read in the lookup table during    *)
(* Create; link: the token presented; claim: Google's email_verified.      *)
Requests == [op: Ops, email: Emails \cup {NoEmail}, id: Ids \cup {NoId},
             found: Ids \cup {NoId}, link: Links \cup {NoLink}, claim: BOOLEAN]

NoRequest == [op |-> "none", email |-> NoEmail, id |-> NoId, found |-> NoId,
              link |-> NoLink, claim |-> FALSE]

AccountsTypeOK ==
  /\ rowEmail \in [Ids -> Emails \cup {NoEmail}]
  /\ verified \in [Ids -> BOOLEAN]
  /\ index \in [Emails -> Ids \cup {NoId}]
  /\ linkFor \in [Links -> Ids \cup {NoId}]
  /\ inbox \in [Links -> Emails \cup {NoEmail}]
  /\ linked \subseteq Ids
  /\ signedIn \subseteq Ids
  /\ pc \in [Procs -> Labels]
  /\ req \in [Procs -> Requests]
  /\ proven \subseteq Emails
  /\ doubted \subseteq Ids

Init ==
  /\ rowEmail = [i \in Ids |-> NoEmail]
  /\ verified = [i \in Ids |-> FALSE]
  /\ index = [e \in Emails |-> NoId]
  /\ linkFor = [t \in Links |-> NoId]
  /\ inbox = [t \in Links |-> NoEmail]
  /\ linked = {}
  /\ signedIn = {}
  /\ pc = [p \in Procs |-> "idle"]
  /\ req = [p \in Procs |-> NoRequest]
  /\ proven = {}
  /\ doubted = {}

-----------------------------------------------------------------------------

Goto(p, label) == pc' = [pc EXCEPT ![p] = label]

Finish(p) == Goto(p, "idle") /\ req' = [req EXCEPT ![p] = NoRequest]

Begin(p, r, label) ==
  /\ pc[p] = "idle"
  /\ Goto(p, label)
  /\ req' = [req EXCEPT ![p] = r]

Persisted(i) == rowEmail[i] # NoEmail

(* uuid.New: an id nothing refers to. *)
FreshId(i) ==
  /\ ~Persisted(i)
  /\ i \notin linked \cup signedIn \cup doubted
  /\ \A q \in Procs : req[q].id # i

(* A Create of another request for the same email has checked the lookup   *)
(* table and not yet written to it.                                        *)
Creating(q, e) == pc[q] \in {"insertUser", "insertEmail"} /\ req[q].email = e

(* The check of p goes through although it settled nothing: another        *)
(* request is creating the same account, or the read has failed and the    *)
(* account it would have found is about to be replaced.                    *)
Doubt(p) ==
  LET e == req[p].email
      rivals == {req[q].id : q \in {q \in Procs \ {p} : Creating(q, e)}}
      hidden == {index[e]} \ {NoId}
  IN doubted' = IF rivals \cup hidden = {} THEN doubted
                ELSE doubted \cup rivals \cup hidden \cup {req[p].id}

-----------------------------------------------------------------------------
(* Requests arrive.  Register has checked the password policy and hashed   *)
(* the password; the Google callback has consumed its state, exchanged the *)
(* code and verified the id_token.                                         *)

StartRegister(p) ==
  \E e \in Emails, i \in Ids :
    /\ FreshId(i)
    /\ Begin(p, [NoRequest EXCEPT !.op = "register", !.email = e, !.id = i], "checkIndex")
    /\ UNCHANGED <<tables, links, federated, proven, doubted>>

StartResend(p) ==
  \E e \in Emails :
    /\ Begin(p, [NoRequest EXCEPT !.op = "resend", !.email = e], "lookupIndex")
    /\ UNCHANGED <<tables, links, federated, proven, doubted>>

StartCallback(p) ==
  \E e \in Emails, v \in BOOLEAN :
    /\ Begin(p, [NoRequest EXCEPT !.op = "callback", !.email = e, !.claim = v],
             "lookupIndex")
    /\ proven' = IF v THEN proven \cup {e} ELSE proven
    /\ UNCHANGED <<tables, links, federated, doubted>>

StartVerify(p) ==
  \E t \in Links :
    /\ inbox[t] # NoEmail
    /\ Begin(p, [NoRequest EXCEPT !.op = "verify", !.link = t], "consume")
    /\ UNCHANGED <<tables, links, federated, proven, doubted>>

-----------------------------------------------------------------------------
(* FindByEmail as ResendVerification and findOrCreateUser call it: the     *)
(* lookup table, then the row.  Every error counts as "no such user".      *)
(* Mutant: the callback goes on without a user.                            *)

NotFoundIgnored(p) ==
  \/ req[p].op = "resend" /\ Finish(p)
  \/ req[p].op = "callback" /\ Goto(p, "upsert") /\ UNCHANGED req
NotFound(p) ==
  \/ req[p].op = "resend" /\ Finish(p)
  \/ /\ req[p].op = "callback"
     /\ \E i \in Ids : FreshId(i) /\ req' = [req EXCEPT ![p].id = i]
     /\ Goto(p, "checkIndex")

LookupIndex(p) ==
  /\ pc[p] = "lookupIndex"
  /\ \/ /\ index[req[p].email] # NoId
        /\ req' = [req EXCEPT ![p].id = index[req[p].email]]
        /\ Goto(p, "lookupRow")
     \/ (index[req[p].email] = NoId \/ MayFail) /\ NotFound(p)
  /\ UNCHANGED <<tables, links, federated, proven, doubted>>

LookupRow(p) ==
  /\ pc[p] = "lookupRow"
  /\ \/ /\ Persisted(req[p].id)
        /\ \/ req[p].op = "resend" /\ verified[req[p].id] /\ Finish(p)
           \/ /\ req[p].op = "resend" /\ ~verified[req[p].id]
              /\ req' = [req EXCEPT ![p].email = rowEmail[req[p].id]]
              /\ Goto(p, "createToken")
           \/ req[p].op = "callback" /\ Goto(p, "upsert") /\ UNCHANGED req
     \/ (~Persisted(req[p].id) \/ MayFail) /\ NotFound(p)
  /\ UNCHANGED <<tables, links, federated, proven, doubted>>

-----------------------------------------------------------------------------
(* user.Repository.Create: FindByEmail once more, then the two INSERTs.    *)

(* Create returned ErrEmailTaken: Register answers 201 and does nothing    *)
(* more.  findOrCreateUser tests the error of its first FindByEmail        *)
(* instead of this one, and returns the user that was not created.         *)
(* Mutants: the error is ignored by Register too; no duplicate check.      *)
TakenMailed(p) ==
  /\ Goto(p, IF req[p].op = "register" THEN "createToken" ELSE "upsert")
  /\ UNCHANGED req
TakenCreated(p) == Goto(p, "insertUser") /\ UNCHANGED req
Taken(p) ==
  \/ req[p].op = "register" /\ Finish(p)
  \/ req[p].op = "callback" /\ Goto(p, "upsert") /\ UNCHANGED req

CheckIndex(p) ==
  /\ pc[p] = "checkIndex"
  /\ \/ /\ index[req[p].email] # NoId
        /\ req' = [req EXCEPT ![p].found = index[req[p].email]]
        /\ Goto(p, "checkRow")
        /\ UNCHANGED doubted
     \/ /\ index[req[p].email] = NoId \/ MayFail
        /\ Doubt(p)
        /\ Goto(p, "insertUser")
        /\ UNCHANGED req
  /\ UNCHANGED <<tables, links, federated, proven>>

CheckRow(p) ==
  /\ pc[p] = "checkRow"
  /\ \/ /\ Persisted(req[p].found)
        /\ Taken(p)
        /\ UNCHANGED doubted
     \/ /\ ~Persisted(req[p].found) \/ MayFail
        /\ Doubt(p)
        /\ Goto(p, "insertUser")
        /\ UNCHANGED req
  /\ UNCHANGED <<tables, links, federated, proven>>

PutRow(p) ==
  /\ rowEmail' = [rowEmail EXCEPT ![req[p].id] = req[p].email]
  /\ verified' = [verified EXCEPT ![req[p].id] = req[p].claim]

(* INSERT INTO users; on an error the answer is 500. *)
InsertUser(p) ==
  /\ pc[p] = "insertUser"
  /\ \/ PutRow(p) /\ Goto(p, "insertEmail") /\ UNCHANGED <<req, doubted>>
     \/ /\ MayFail
        /\ PutRow(p) \/ UNCHANGED <<rowEmail, verified>>
        /\ Finish(p)
        /\ doubted' = doubted \cup {req[p].id}
  /\ UNCHANGED <<index, links, federated, proven>>

(* Create has succeeded. *)
Created(p) ==
  Goto(p, IF req[p].op = "register" THEN "createToken" ELSE "upsert")

PutIndex(p) == index' = [index EXCEPT ![req[p].email] = req[p].id]

(* INSERT INTO users_by_email, which replaces an entry that is there. *)
InsertEmail(p) ==
  /\ pc[p] = "insertEmail"
  /\ \/ PutIndex(p) /\ Created(p) /\ UNCHANGED <<req, doubted>>
     \/ /\ MayFail
        /\ PutIndex(p) \/ UNCHANGED index
        /\ Finish(p)
        /\ doubted' = doubted \cup {req[p].id}
  /\ UNCHANGED <<rowEmail, verified, links, federated, proven>>

(* Mutant: the lookup table is written first. *)
IndexFirst(p) ==
  /\ pc[p] = "insertUser" /\ PutIndex(p) /\ Goto(p, "insertEmail")
  /\ UNCHANGED <<rowEmail, verified, req, doubted, links, federated, proven>>
UserSecond(p) ==
  /\ pc[p] = "insertEmail" /\ PutRow(p) /\ Created(p)
  /\ UNCHANGED <<index, req, doubted, links, federated, proven>>
InsertSwapped(p) == IndexFirst(p) \/ UserSecond(p)

(* Mutant: a new account is verified without asking. *)
InsertVerified(p) ==
  \/ /\ pc[p] = "insertUser"
     /\ rowEmail' = [rowEmail EXCEPT ![req[p].id] = req[p].email]
     /\ verified' = [verified EXCEPT ![req[p].id] = TRUE]
     /\ Goto(p, "insertEmail")
     /\ UNCHANGED <<req, doubted, index, links, federated, proven>>
  \/ InsertEmail(p)

(* Mutant: an error of Create is dropped. *)
InsertForgiving(p) ==
  \/ InsertUser(p)
  \/ InsertEmail(p)
  \/ /\ pc[p] \in {"insertUser", "insertEmail"} /\ MayFail
     /\ Created(p)
     /\ doubted' = doubted \cup {req[p].id}
     /\ UNCHANGED <<tables, req, links, federated, proven>>

Insert(p) == InsertUser(p) \/ InsertEmail(p)

-----------------------------------------------------------------------------
(* Verification links and the end of the callback.                         *)

(* CreateEmailVerificationToken, and the goroutine that mails the link:    *)
(* the mail may get lost.  An error is not told to the client.             *)
CreateToken(p) ==
  /\ pc[p] = "createToken"
  /\ \/ \E t \in Links :
          /\ linkFor[t] = NoId /\ inbox[t] = NoEmail
          /\ \A q \in Procs : req[q].link # t
          /\ linkFor' = [linkFor EXCEPT ![t] = req[p].id]
          /\ \/ inbox' = [inbox EXCEPT ![t] = req[p].email]
             \/ UNCHANGED inbox
     \/ MayFail /\ UNCHANGED links
  /\ Finish(p)
  /\ UNCHANGED <<tables, federated, proven, doubted>>

(* ConsumeEmailVerificationToken: GETDEL.  Mutant: GET. *)
ReadLink(p) ==
  /\ pc[p] = "consume"
  /\ linkFor[req[p].link] # NoId
  /\ req' = [req EXCEPT ![p].id = linkFor[req[p].link]]
  /\ Goto(p, "setVerified")
  /\ proven' = proven \cup {inbox[req[p].link]}
  /\ UNCHANGED <<tables, links, federated, doubted>>
Consume(p) ==
  /\ pc[p] = "consume"
  /\ LET t == req[p].link IN
     \/ /\ linkFor[t] # NoId
        /\ linkFor' = [linkFor EXCEPT ![t] = NoId]
        /\ req' = [req EXCEPT ![p].id = linkFor[t]]
        /\ Goto(p, "setVerified")
        /\ proven' = proven \cup {inbox[t]}
     \/ /\ linkFor[t] = NoId \/ MayFail
        /\ linkFor' = [linkFor EXCEPT ![t] = NoId] \/ UNCHANGED linkFor
        /\ Finish(p)
        /\ UNCHANGED proven
  /\ UNCHANGED <<tables, inbox, federated, doubted>>

(* UPDATE users SET email_verified: Cassandra's UPDATE creates a row that  *)
(* is not there.                                                           *)
SetEmailVerified(p) ==
  /\ pc[p] = "setVerified"
  /\ \/ verified' = [verified EXCEPT ![req[p].id] = TRUE]
     \/ MayFail /\ UNCHANGED verified
  /\ Finish(p)
  /\ UNCHANGED <<rowEmail, index, links, federated, proven, doubted>>

(* identities.Upsert for the user findOrCreateUser returned; an error is   *)
(* logged.                                                                 *)
UpsertIdentity(p) ==
  /\ pc[p] = "upsert"
  /\ \/ linked' = linked \cup {req[p].id}
     \/ MayFail /\ UNCHANGED linked
  /\ Goto(p, "storeRefresh")
  /\ UNCHANGED <<tables, links, signedIn, req, proven, doubted>>

(* StoreRefreshToken for the user findOrCreateUser returned (module        *)
(* Sessions has the steps that follow).                                    *)
StoreRefresh(p) ==
  /\ pc[p] = "storeRefresh"
  /\ \/ signedIn' = signedIn \cup {req[p].id}
     \/ MayFail /\ UNCHANGED signedIn
  /\ Finish(p)
  /\ UNCHANGED <<tables, links, linked, proven, doubted>>

(* The 24 hours of a link are over. *)
ExpireLink(t) ==
  /\ linkFor[t] # NoId
  /\ linkFor' = [linkFor EXCEPT ![t] = NoId]
  /\ UNCHANGED <<tables, inbox, federated, pc, req, proven, doubted>>

(* The server stops and starts again. *)
Crash ==
  /\ MayFail
  /\ \E p \in Procs : pc[p] # "idle"
  /\ doubted' = doubted \cup {req[p].id : p \in {q \in Procs : pc[q] = "insertEmail"}}
  /\ pc' = [p \in Procs |-> "idle"]
  /\ req' = [p \in Procs |-> NoRequest]
  /\ UNCHANGED <<tables, links, federated, proven>>

-----------------------------------------------------------------------------

Start(p) == StartRegister(p) \/ StartResend(p) \/ StartCallback(p) \/ StartVerify(p)

Step(p) ==
  \/ LookupIndex(p)
  \/ LookupRow(p)
  \/ CheckIndex(p)
  \/ CheckRow(p)
  \/ Insert(p)
  \/ CreateToken(p)
  \/ Consume(p)
  \/ SetEmailVerified(p)
  \/ UpsertIdentity(p)
  \/ StoreRefresh(p)

Next ==
  \/ \E p \in Procs : Start(p) \/ Step(p)
  \/ \E t \in Links : ExpireLink(t)
  \/ Crash

Spec == Init /\ [][Next]_vars

-----------------------------------------------------------------------------

(* FindByEmail never ends on a missing or foreign row: what the lookup     *)
(* table says of an email is an account with that email, also between the  *)
(* two INSERTs, after a crash there and when two requests create the same  *)
(* account.                                                                *)
IndexIsSound == \A e \in Emails : index[e] # NoId => rowEmail[index[e]] = e

(* email_verified is only true of an account whose address was proven to   *)
(* belong to its owner, by a link that was mailed to that very address or  *)
(* by Google; and only of rows that were created, since SetEmailVerified   *)
(* would silently create one.                                              *)
VerifiedIsProven == \A i \in Ids : verified[i] => rowEmail[i] \in proven

(* A link can only verify the account whose mailbox it lies in. *)
LinkMatchesAccount ==
  \A t \in Links : linkFor[t] # NoId =>
    /\ Persisted(linkFor[t])
    /\ inbox[t] \in {rowEmail[linkFor[t]], NoEmail}

(* An account that was created can be found by its email: it is the one    *)
(* the lookup table names, unless two Creates overlapped, the check could  *)
(* not be read, or the Create failed half way.                             *)
LostOnlyIfDoubted ==
  \A i \in Ids :
    /\ Persisted(i) /\ index[rowEmail[i]] # i
    /\ \A p \in Procs : ~(pc[p] = "insertEmail" /\ req[p].id = i)
    => i \in doubted

(* A Google login ends in the account of the address Google vouched for,   *)
(* whatever is created, found or lost meanwhile; the user it signs in can  *)
(* only be missing where that address has an account already.              *)
SignsInOwner ==
  \A p \in Procs : pc[p] \in {"upsert", "storeRefresh"} =>
    IF Persisted(req[p].id) THEN rowEmail[req[p].id] = req[p].email
                            ELSE index[req[p].email] # NoId

(* federation.go:209, "Race condition: another request created the user -- *)
(* re-fetch": the user a federated login signs in is one that exists.      *)
SignedInExists == \A i \in signedIn : Persisted(i)

(* Verification links as one-time keys, handed out when they are mailed.   *)
OneTime == INSTANCE OneTimeKeys WITH
  Keys <- Links,
  Holders <- Procs,
  given <- {t \in Links : inbox[t] # NoEmail},
  stored <- {t \in Links : inbox[t] # NoEmail /\ linkFor[t] # NoId},
  held <- [t \in Links |->
             {p \in Procs : pc[p] = "setVerified" /\ req[p].link = t}]

(* A verification link is a one-time key: one request verifies an address  *)
(* with it, and a link that failed or ran out is never good again.         *)
LinksAreOneTime == OneTime!Spec

=============================================================================
