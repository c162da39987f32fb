--------------------------- MODULE AccountsProofs ---------------------------
(* Theorems about module Accounts, for any sets of emails, ids, links and   *)
(* goroutines, with or without failures.                                    *)
EXTENDS Accounts, TLAPS

(* p has drawn an id for an account that has no row yet. *)
Prepares(p) == pc[p] \in {"checkIndex", "checkRow", "insertUser"}

(* p is past the uniqueness check of Create, and not done with it. *)
Inserts(p) == pc[p] \in {"insertUser", "insertEmail"}

(* p looks for an account, or checks that there is none. *)
Searches(p) == pc[p] \in {"lookupIndex", "lookupRow"}

(* What a request relies on from one round trip to the next. *)
Local(p) ==
  LET r == req[p] IN
  /\ Searches(p) \/ Prepares(p) => r.email \in Emails /\ (r.claim => r.email \in proven)
  /\ Searches(p) => r.op \in {"resend", "callback"}
  /\ pc[p] = "lookupRow" => r.id \in Ids
  /\ Prepares(p) => r.id \in Ids /\ ~Persisted(r.id)
  /\ pc[p] = "checkRow" => r.found \in Ids
  /\ Prepares(p) \/ Inserts(p) => r.op \in {"register", "callback"}
  /\ pc[p] \in {"insertEmail", "createToken"} =>
       r.id \in Ids /\ r.email \in Emails /\ rowEmail[r.id] = r.email
  /\ Inserts(p) => index[r.email] \in doubted \cup {NoId, r.id}
  /\ pc[p] \in {"consume", "setVerified"} => r.link \in Links /\ inbox[r.link] # NoEmail
  /\ pc[p] = "setVerified" =>
       /\ linkFor[r.link] = NoId
       /\ r.id \in Ids /\ rowEmail[r.id] \in proven
  /\ pc[p] \in {"upsert", "storeRefresh"} => r.id \in Ids

(* Two requests create different accounts, know of each other when it is   *)
(* for the same email, and use different links.                            *)
Apart(p, q) ==
  /\ Prepares(p) /\ Prepares(q) => req[p].id # req[q].id
  /\ Inserts(p) /\ Inserts(q) /\ req[p].email = req[q].email
     => {req[p].id, req[q].id} \subseteq doubted
  /\ pc[p] = "setVerified" /\ pc[q] = "setVerified" => req[p].link # req[q].link

AccountsInv ==
  /\ AccountsTypeOK
  /\ IndexIsSound
  /\ VerifiedIsProven
  /\ LinkMatchesAccount
  /\ LostOnlyIfDoubted
  /\ \A p \in Procs : Local(p)
  /\ \A p \in Procs : \A q \in Procs \ {p} : Apart(p, q)

-----------------------------------------------------------------------------

LEMMA NoRequestType == NoRequest \in Requests
  BY DEF NoRequest, Requests, Ops

LEMMA InitInv == Init => AccountsInv
<1> SUFFICES ASSUME Init PROVE AccountsInv
  OBVIOUS
<1>1. AccountsTypeOK
  BY NoRequestType DEF Init, AccountsTypeOK, Labels
<1>2. \A p \in Procs : pc[p] = "idle"
  BY DEF Init
<1>3. \A p \in Procs : Local(p) /\ \A q \in Procs : Apart(p, q)
  BY <1>2 DEF Local, Apart, Searches, Prepares, Inserts
<1>4. IndexIsSound /\ VerifiedIsProven /\ LinkMatchesAccount /\ LostOnlyIfDoubted
  BY DEF Init, IndexIsSound, VerifiedIsProven, LinkMatchesAccount, LostOnlyIfDoubted,
         Persisted
<1> QED
  BY <1>1, <1>3, <1>4 DEF AccountsInv

-----------------------------------------------------------------------------
(* How requests move. *)

Others(p) == \A q \in Procs \ {p} : pc'[q] = pc[q] /\ req'[q] = req[q]

At(p, label, r) == pc'[p] = label /\ req'[p] = r /\ Others(p)

MovesTyped == pc' \in [Procs -> Labels] /\ req' \in [Procs -> Requests]

LEMMA RequestTypes ==
  ASSUME AccountsTypeOK, NEW p \in Procs
  PROVE  /\ req[p] \in Requests
         /\ req[p].email \in Emails \cup {NoEmail}
         /\ req[p].id \in Ids \cup {NoId}
         /\ req[p].link \in Links \cup {NoLink}
         /\ req[p].claim \in BOOLEAN
<1>1. req[p] \in Requests
  BY DEF AccountsTypeOK
<1> QED
  BY <1>1 DEF Requests

LEMMA Moves ==
  ASSUME AccountsTypeOK, NEW p \in Procs, NEW r \in Requests,
         NEW label \in Labels, Goto(p, label), req' = [req EXCEPT ![p] = r]
  PROVE  At(p, label, r) /\ MovesTyped
  BY DEF AccountsTypeOK, Goto, At, Others, MovesTyped

LEMMA Stays ==
  ASSUME AccountsTypeOK, NEW p \in Procs, NEW label \in Labels, Goto(p, label),
         UNCHANGED req
  PROVE  At(p, label, req[p]) /\ MovesTyped
  BY DEF AccountsTypeOK, Goto, At, Others, MovesTyped

LEMMA Begins ==
  ASSUME AccountsTypeOK, NEW p \in Procs, NEW r \in Requests,
         NEW label \in Labels, Begin(p, r, label)
  PROVE  At(p, label, r) /\ MovesTyped /\ pc[p] = "idle"
  BY Moves DEF Begin

LEMMA Finishes ==
  ASSUME AccountsTypeOK, NEW p \in Procs, Finish(p)
  PROVE  At(p, "idle", NoRequest) /\ MovesTyped
<1>1. "idle" \in Labels
  BY DEF Labels
<1> QED
  BY <1>1, NoRequestType, Moves DEF Finish

(* A request that learns the id of its account, or the address of it. *)
LEMMA LearnsId ==
  ASSUME AccountsTypeOK, NEW p \in Procs, NEW i \in Ids, NEW label \in Labels,
         Goto(p, label), req' = [req EXCEPT ![p].id = i]
  PROVE  /\ Others(p) /\ MovesTyped /\ pc'[p] = label
         /\ req'[p].id = i /\ req'[p].op = req[p].op
         /\ req'[p].email = req[p].email /\ req'[p].link = req[p].link
         /\ req'[p].claim = req[p].claim
<1> DEFINE d == [req[p] EXCEPT !.id = i]
<1>1. req[p] \in Requests
  BY RequestTypes
<1>2. d \in Requests /\ d.id = i /\ d.op = req[p].op /\ d.email = req[p].email
      /\ d.link = req[p].link /\ d.claim = req[p].claim
  BY <1>1 DEF Requests
<1>3. req' = [req EXCEPT ![p] = d]
  OBVIOUS
<1>4. req'[p] = d /\ MovesTyped /\ Others(p) /\ pc'[p] = label
  BY <1>2, <1>3 DEF AccountsTypeOK, Goto, MovesTyped, Others
<1> QED
  BY <1>2, <1>4

LEMMA LearnsEmail ==
  ASSUME AccountsTypeOK, NEW p \in Procs, NEW e \in Emails, NEW label \in Labels,
         Goto(p, label), req' = [req EXCEPT ![p].email = e]
  PROVE  /\ Others(p) /\ MovesTyped /\ pc'[p] = label
         /\ req'[p].email = e /\ req'[p].id = req[p].id
<1> DEFINE d == [req[p] EXCEPT !.email = e]
<1>1. req[p] \in Requests
  BY RequestTypes
<1>2. d \in Requests /\ d.email = e /\ d.id = req[p].id
  BY <1>1 DEF Requests
<1>3. req' = [req EXCEPT ![p] = d]
  OBVIOUS
<1>4. req'[p] = d /\ MovesTyped /\ Others(p) /\ pc'[p] = label
  BY <1>2, <1>3 DEF AccountsTypeOK, Goto, MovesTyped, Others
<1> QED
  BY <1>2, <1>4

LEMMA LearnsFound ==
  ASSUME AccountsTypeOK, NEW p \in Procs, NEW i \in Ids, NEW label \in Labels,
         Goto(p, label), req' = [req EXCEPT ![p].found = i]
  PROVE  /\ Others(p) /\ MovesTyped /\ pc'[p] = label
         /\ req'[p].found = i /\ req'[p].id = req[p].id
         /\ req'[p].op = req[p].op /\ req'[p].email = req[p].email
         /\ req'[p].claim = req[p].claim
<1> DEFINE d == [req[p] EXCEPT !.found = i]
<1>1. req[p] \in Requests
  BY RequestTypes
<1>2. d \in Requests /\ d.found = i /\ d.id = req[p].id /\ d.op = req[p].op
      /\ d.email = req[p].email /\ d.claim = req[p].claim
  BY <1>1 DEF Requests
<1>3. req' = [req EXCEPT ![p] = d]
  OBVIOUS
<1>4. req'[p] = d /\ MovesTyped /\ Others(p) /\ pc'[p] = label
  BY <1>2, <1>3 DEF AccountsTypeOK, Goto, MovesTyped, Others
<1> QED
  BY <1>2, <1>4

-----------------------------------------------------------------------------
(* What the steps of a request leave to the others. *)

(* Rows and mailed links stay, a used link is not stored again, and the    *)
(* history only grows.                                                     *)
Grows ==
  /\ proven \subseteq proven' /\ doubted \subseteq doubted'
  /\ \A i \in Ids : Persisted(i) => rowEmail'[i] = rowEmail[i]
  /\ \A t \in Links : inbox[t] # NoEmail =>
       inbox'[t] = inbox[t] /\ (linkFor[t] = NoId => linkFor'[t] = NoId)

LEMMA LocalKept ==
  ASSUME AccountsInv, Grows, NEW q \in Procs, pc'[q] = pc[q], req'[q] = req[q],
         Prepares(q) => rowEmail'[req[q].id] = rowEmail[req[q].id],
         Inserts(q) => index'[req[q].email] \in doubted' \cup {index[req[q].email]}
  PROVE  Local(q)'
<1>1. Local(q) /\ NoEmail \notin Emails
  BY AbsentAssumption DEF AccountsInv
<1>2. /\ Searches(q)' = Searches(q) /\ Prepares(q)' = Prepares(q)
      /\ Inserts(q)' = Inserts(q)
  BY DEF Searches, Prepares, Inserts
<1>3. Prepares(q) => ~Persisted(req[q].id)'
  BY <1>1 DEF Local, Persisted
<1>4. pc[q] \in {"insertEmail", "createToken"} =>
        rowEmail'[req[q].id] = req[q].email
  BY <1>1 DEF Local, Grows, Persisted
<1>5. pc[q] = "setVerified" => rowEmail'[req[q].id] \in proven'
  <2>1. pc[q] = "setVerified" => req[q].id \in Ids /\ Persisted(req[q].id)
    BY <1>1 DEF Local, Persisted, AccountsInv, AccountsTypeOK
  <2> QED
    BY <1>1, <2>1 DEF Local, Grows
<1>6. Inserts(q) => index'[req[q].email] \in doubted' \cup {NoId, req[q].id}
  BY <1>1 DEF Local, Grows
<1>7. pc[q] \in {"consume", "setVerified"} => inbox'[req[q].link] # NoEmail
  BY <1>1 DEF Local, Grows
<1>8. pc[q] = "setVerified" => linkFor'[req[q].link] = NoId
  BY <1>1 DEF Local, Grows
<1>9. (Searches(q) \/ Prepares(q)) /\ req[q].claim => req[q].email \in proven'
  BY <1>1 DEF Local, Grows
<1>10. pc'[q] = "setVerified" => rowEmail'[req'[q].id] \in proven'
  BY <1>5
<1>11. (Prepares(q) => ~Persisted(req[q].id))'
  BY <1>2, <1>3
<1> QED
  BY <1>1, <1>2, <1>4, <1>6, <1>7, <1>8, <1>9, <1>10, <1>11 DEF Local

LEMMA ApartSymmetric ==
  ASSUME NEW p, NEW q, Apart(p, q)
  PROVE  Apart(q, p)
  BY DEF Apart

LEMMA ApartKept ==
  ASSUME AccountsInv, Grows, NEW p \in Procs, NEW q \in Procs \ {p}, Others(p),
         Prepares(p)' => Prepares(p) /\ req'[p].id = req[p].id,
         Inserts(p)' => /\ Inserts(p) /\ req'[p].id = req[p].id
                        /\ req'[p].email = req[p].email,
         pc'[p] = "setVerified" => pc[p] = "setVerified" /\ req'[p].link = req[p].link
  PROVE  Apart(p, q)'
<1>1. Apart(p, q) /\ pc'[q] = pc[q] /\ req'[q] = req[q]
  BY DEF AccountsInv, Others
<1>2. Prepares(q)' = Prepares(q) /\ Inserts(q)' = Inserts(q)
  BY <1>1 DEF Prepares, Inserts
<1> QED
  BY <1>1, <1>2 DEF Apart, Grows

LEMMA ApartStill ==
  ASSUME AccountsInv, Grows, NEW q \in Procs, NEW r \in Procs \ {q},
         pc'[q] = pc[q], req'[q] = req[q], pc'[r] = pc[r], req'[r] = req[r]
  PROVE  Apart(q, r)'
<1>1. Apart(q, r)
  BY DEF AccountsInv
<1>2. /\ Prepares(q)' = Prepares(q) /\ Inserts(q)' = Inserts(q)
      /\ Prepares(r)' = Prepares(r) /\ Inserts(r)' = Inserts(r)
  BY DEF Prepares, Inserts
<1> QED
  BY <1>1, <1>2 DEF Apart, Grows

(* What a step of p has to show. *)
LEMMA OneMoves ==
  ASSUME AccountsInv, Grows, NEW p \in Procs, Others(p), AccountsTypeOK',
         IndexIsSound', VerifiedIsProven', LinkMatchesAccount', LostOnlyIfDoubted',
         Local(p)', \A q \in Procs \ {p} : Local(q)' /\ Apart(p, q)'
  PROVE  AccountsInv'
<1>1. ASSUME NEW q \in Procs PROVE Local(q)'
  OBVIOUS
<1>2. ASSUME NEW q \in Procs, NEW r \in Procs \ {q} PROVE Apart(q, r)'
  <2>1. CASE q = p
    BY <1>2, <2>1
  <2>2. CASE r = p
    <3>1. Apart(p, q)'
      BY <1>2, <2>2
    <3> QED
      BY <2>2, <3>1, ApartSymmetric DEF Apart, Prepares, Inserts
  <2>3. CASE q # p /\ r # p
    BY <1>2, <2>3, ApartStill DEF Others
  <2> QED
    BY <2>1, <2>2, <2>3
<1> QED
  BY <1>1, <1>2 DEF AccountsInv

(* The steps that write none of the tables, and store no link. *)
LEMMA QuietStep ==
  ASSUME AccountsInv, NEW p \in Procs, Others(p), AccountsTypeOK',
         UNCHANGED <<tables, inbox>>,
         \A t \in Links : linkFor'[t] \in {linkFor[t], NoId},
         proven \subseteq proven', doubted \subseteq doubted',
         pc[p] = "insertEmail" => req[p].id \in doubted',
         Local(p)', \A q \in Procs \ {p} : Apart(p, q)'
  PROVE  AccountsInv'
<1>1. Grows /\ IndexIsSound' /\ VerifiedIsProven'
  BY DEF Grows, AccountsInv, IndexIsSound, VerifiedIsProven, tables
<1>2. LinkMatchesAccount'
  BY DEF AccountsInv, LinkMatchesAccount, Persisted, tables
<1>3. ASSUME NEW i \in Ids, Persisted(i)', index'[rowEmail'[i]] # i,
             \A q \in Procs : ~(pc'[q] = "insertEmail" /\ req'[q].id = i)
      PROVE  i \in doubted'
  <2>1. Persisted(i) /\ index[rowEmail[i]] # i
    BY <1>3 DEF Persisted, tables
  <2>2. \A q \in Procs \ {p} : ~(pc[q] = "insertEmail" /\ req[q].id = i)
    BY <1>3 DEF Others
  <2>3. CASE pc[p] = "insertEmail" /\ req[p].id = i
    BY <2>3
  <2>4. CASE ~(pc[p] = "insertEmail" /\ req[p].id = i)
    BY <2>1, <2>2, <2>4 DEF AccountsInv, LostOnlyIfDoubted
  <2> QED
    BY <2>3, <2>4
<1>4. LostOnlyIfDoubted'
  BY <1>3 DEF LostOnlyIfDoubted
<1>5. ASSUME NEW q \in Procs \ {p} PROVE Local(q)'
  BY <1>1, LocalKept DEF Others, tables
<1> QED
  BY <1>1, <1>2, <1>4, <1>5, OneMoves

(* A request that is answered has nothing to rely on. *)
LEMMA Answered ==
  ASSUME NEW p \in Procs, At(p, "idle", NoRequest)
  PROVE  /\ Local(p)' /\ Others(p)
         /\ \A q \in Procs \ {p} : Apart(p, q)'
  BY DEF At, Local, Apart, Searches, Prepares, Inserts

(* Those of the quiet steps that answer the request. *)
LEMMA QuietAnswer ==
  ASSUME AccountsInv, NEW p \in Procs, Finish(p),
         MovesTyped => AccountsTypeOK', UNCHANGED <<tables, inbox>>,
         \A t \in Links : linkFor'[t] \in {linkFor[t], NoId},
         proven \subseteq proven', doubted \subseteq doubted',
         pc[p] = "insertEmail" => req[p].id \in doubted'
  PROVE  AccountsInv'
<1>1. At(p, "idle", NoRequest) /\ MovesTyped
  BY Finishes DEF AccountsInv
<1> QED
  BY <1>1, Answered, QuietStep

-----------------------------------------------------------------------------
(* Requests arrive. *)

(* A request that arrives to search, or to present a link. *)
LEMMA BeginInv ==
  ASSUME AccountsInv, NEW p \in Procs, NEW r \in Requests,
         NEW label \in {"lookupIndex", "consume"}, Begin(p, r, label),
         label = "lookupIndex" => /\ r.op \in {"resend", "callback"}
                                  /\ r.email \in Emails
                                  /\ r.claim => r.email \in proven',
         label = "consume" => r.link \in Links /\ inbox[r.link] # NoEmail,
         proven \subseteq proven', proven' \subseteq Emails,
         UNCHANGED <<tables, links, federated, doubted>>
  PROVE  AccountsInv'
<1>1. AccountsTypeOK /\ label \in Labels
  BY DEF AccountsInv, Labels
<1>2. At(p, label, r) /\ MovesTyped /\ pc[p] = "idle"
  BY <1>1, Begins
<1>3. AccountsTypeOK'
  BY <1>1, <1>2 DEF AccountsTypeOK, MovesTyped, tables, links, federated
<1>4. Local(p)' /\ \A q \in Procs \ {p} : Apart(p, q)'
  BY <1>2 DEF At, Local, Apart, Searches, Prepares, Inserts, links
<1> QED
  BY <1>2, <1>3, <1>4, QuietStep DEF At, links, AccountsTypeOK

LEMMA StartResendInv ==
  ASSUME AccountsInv, NEW p \in Procs, StartResend(p)
  PROVE  AccountsInv'
<1>1. PICK e \in Emails :
        Begin(p, [NoRequest EXCEPT !.op = "resend", !.email = e], "lookupIndex")
  BY DEF StartResend
<1>2. PICK r \in Requests :
        /\ r = [NoRequest EXCEPT !.op = "resend", !.email = e]
        /\ r.op = "resend" /\ r.email = e /\ r.claim = FALSE
  <2> DEFINE d == [NoRequest EXCEPT !.op = "resend", !.email = e]
  <2>1. d \in Requests
    BY NoRequestType DEF Requests, NoRequest, Ops
  <2>2. d.op = "resend" /\ d.email = e /\ d.claim = FALSE
    BY DEF NoRequest
  <2> QED
    BY <2>1, <2>2
<1>3. proven \subseteq Emails
  BY DEF AccountsInv, AccountsTypeOK
<1> QED
  BY <1>1, <1>2, <1>3, BeginInv DEF StartResend

LEMMA StartCallbackInv ==
  ASSUME AccountsInv, NEW p \in Procs, StartCallback(p)
  PROVE  AccountsInv'
<1>1. PICK e \in Emails, v \in BOOLEAN :
        /\ Begin(p, [NoRequest EXCEPT !.op = "callback", !.email = e, !.claim = v],
                 "lookupIndex")
        /\ proven' = IF v THEN proven \cup {e} ELSE proven
  BY DEF StartCallback
<1>2. PICK r \in Requests :
        /\ r = [NoRequest EXCEPT !.op = "callback", !.email = e, !.claim = v]
        /\ r.op = "callback" /\ r.email = e /\ r.claim = v
  <2> DEFINE d == [NoRequest EXCEPT !.op = "callback", !.email = e, !.claim = v]
  <2>1. d \in Requests
    BY NoRequestType DEF Requests, NoRequest, Ops
  <2>2. d.op = "callback" /\ d.email = e /\ d.claim = v
    BY DEF NoRequest
  <2> QED
    BY <2>1, <2>2
<1>3. proven \subseteq proven' /\ proven' \subseteq Emails /\ (r.claim => e \in proven')
  BY <1>1, <1>2 DEF AccountsInv, AccountsTypeOK
<1> QED
  BY <1>1, <1>2, <1>3, BeginInv DEF StartCallback

LEMMA StartVerifyInv ==
  ASSUME AccountsInv, NEW p \in Procs, StartVerify(p)
  PROVE  AccountsInv'
<1>1. PICK t \in Links :
        /\ inbox[t] # NoEmail
        /\ Begin(p, [NoRequest EXCEPT !.op = "verify", !.link = t], "consume")
  BY DEF StartVerify
<1>2. PICK r \in Requests :
        /\ r = [NoRequest EXCEPT !.op = "verify", !.link = t]
        /\ r.link = t
  <2> DEFINE d == [NoRequest EXCEPT !.op = "verify", !.link = t]
  <2>1. d \in Requests
    BY NoRequestType DEF Requests, NoRequest, Ops
  <2>2. d.link = t
    BY DEF NoRequest
  <2> QED
    BY <2>1, <2>2
<1>3. proven \subseteq Emails
  BY DEF AccountsInv, AccountsTypeOK
<1> QED
  BY <1>1, <1>2, <1>3, BeginInv DEF StartVerify

(* The id of a new account: no other request has it. *)
LEMMA PreparesInv ==
  ASSUME AccountsInv, NEW p \in Procs, NEW i \in Ids, FreshId(i),
         Others(p), MovesTyped, pc'[p] = "checkIndex", req'[p].id = i,
         req'[p].op \in {"register", "callback"}, req'[p].email \in Emails,
         req'[p].claim => req'[p].email \in proven,
         pc[p] # "insertEmail",
         UNCHANGED <<tables, links, federated, proven, doubted>>
  PROVE  AccountsInv'
<1>1. AccountsTypeOK'
  BY DEF AccountsInv, AccountsTypeOK, MovesTyped, tables, links, federated
<1>2. ~Persisted(i) /\ \A q \in Procs : req[q].id # i
  BY DEF FreshId
<1>3. Local(p)'
  BY <1>2 DEF Local, Searches, Prepares, Inserts, Persisted, tables
<1>4. \A q \in Procs \ {p} : Apart(p, q)'
  BY <1>2 DEF Apart, Prepares, Inserts, Others
<1> QED
  BY <1>1, <1>3, <1>4, QuietStep DEF links

LEMMA StartRegisterInv ==
  ASSUME AccountsInv, NEW p \in Procs, StartRegister(p)
  PROVE  AccountsInv'
<1>1. PICK e \in Emails, i \in Ids :
        /\ FreshId(i)
        /\ Begin(p, [NoRequest EXCEPT !.op = "register", !.email = e, !.id = i], "checkIndex")
  BY DEF StartRegister
<1>2. PICK r \in Requests :
        /\ r = [NoRequest EXCEPT !.op = "register", !.email = e, !.id = i]
        /\ r.op = "register" /\ r.email = e /\ r.id = i /\ r.claim = FALSE
  <2> DEFINE d == [NoRequest EXCEPT !.op = "register", !.email = e, !.id = i]
  <2>1. d \in Requests
    BY NoRequestType DEF Requests, NoRequest, Ops
  <2>2. d.op = "register" /\ d.email = e /\ d.id = i /\ d.claim = FALSE
    BY DEF NoRequest
  <2> QED
    BY <2>1, <2>2
<1>3. "checkIndex" \in Labels /\ AccountsTypeOK
  BY DEF Labels, AccountsInv
<1>4. At(p, "checkIndex", r) /\ MovesTyped /\ pc[p] = "idle"
  BY <1>1, <1>2, <1>3, Begins
<1> QED
  BY <1>1, <1>2, <1>4, PreparesInv DEF At, StartRegister

-----------------------------------------------------------------------------
(* FindByEmail, as ResendVerification and findOrCreateUser call it. *)

LEMMA NotFoundInv ==
  ASSUME AccountsInv, NEW p \in Procs, Searches(p), NotFound(p),
         UNCHANGED <<tables, links, federated, proven, doubted>>
  PROVE  AccountsInv'
<1>1. AccountsTypeOK /\ Local(p) /\ pc[p] # "insertEmail"
  BY DEF AccountsInv, Searches
<1>2. CASE Finish(p)
  <2>1. MovesTyped => AccountsTypeOK'
    BY <1>1 DEF AccountsTypeOK, MovesTyped, tables, links, federated
  <2> QED
    BY <1>1, <1>2, <2>1, QuietAnswer DEF links
<1>3. CASE /\ req[p].op = "callback"
           /\ \E i \in Ids : FreshId(i) /\ req' = [req EXCEPT ![p].id = i]
           /\ Goto(p, "checkIndex")
  <2>1. PICK i \in Ids : FreshId(i) /\ req' = [req EXCEPT ![p].id = i]
    BY <1>3
  <2>2. "checkIndex" \in Labels
    BY DEF Labels
  <2>3. /\ Others(p) /\ MovesTyped /\ pc'[p] = "checkIndex"
        /\ req'[p].id = i /\ req'[p].op = "callback"
        /\ req'[p].email = req[p].email /\ req'[p].claim = req[p].claim
    <3>1. Goto(p, "checkIndex") /\ req[p].op = "callback" /\ AccountsTypeOK
      BY <1>1, <1>3
    <3>2. req' = [req EXCEPT ![p].id = i]
      BY <2>1
    <3> QED
      BY <2>2, <3>1, <3>2, LearnsId
  <2>4. req[p].email \in Emails /\ (req[p].claim => req[p].email \in proven)
    BY <1>1 DEF Local
  <2> QED
    BY <1>1, <2>1, <2>3, <2>4, PreparesInv
<1> QED
  BY <1>2, <1>3 DEF NotFound

LEMMA LookupIndexInv ==
  ASSUME AccountsInv, NEW p \in Procs, LookupIndex(p)
  PROVE  AccountsInv'
<1>1. /\ pc[p] = "lookupIndex"
      /\ UNCHANGED <<tables, links, federated, proven, doubted>>
  BY DEF LookupIndex
<1>2. AccountsTypeOK /\ Local(p) /\ Searches(p)
  BY <1>1 DEF AccountsInv, Searches
<1>3. CASE NotFound(p)
  BY <1>1, <1>2, <1>3, NotFoundInv
<1>4. CASE /\ index[req[p].email] # NoId
           /\ req' = [req EXCEPT ![p].id = index[req[p].email]]
           /\ Goto(p, "lookupRow")
  <2>1. index[req[p].email] \in Ids /\ "lookupRow" \in Labels
    BY <1>2, <1>4 DEF Local, AccountsTypeOK, Labels
  <2>2. PICK i \in Ids : i = index[req[p].email]
    BY <2>1
  <2>3. /\ Others(p) /\ MovesTyped /\ pc'[p] = "lookupRow"
        /\ req'[p].id \in Ids /\ req'[p].op = req[p].op
        /\ req'[p].email = req[p].email /\ req'[p].claim = req[p].claim
    BY <1>2, <1>4, <2>1, <2>2, LearnsId
  <2>4. AccountsTypeOK'
    BY <1>1, <1>2, <2>3 DEF AccountsTypeOK, MovesTyped, tables, links, federated
  <2>5. Local(p)' /\ \A q \in Procs \ {p} : Apart(p, q)'
    BY <1>1, <1>2, <2>3 DEF Local, Apart, Searches, Prepares, Inserts
  <2> QED
    BY <1>1, <2>3, <2>4, <2>5, QuietStep DEF links
<1> QED
  BY <1>3, <1>4 DEF LookupIndex

LEMMA LookupRowInv ==
  ASSUME AccountsInv, NEW p \in Procs, LookupRow(p)
  PROVE  AccountsInv'
<1>1. /\ pc[p] = "lookupRow"
      /\ UNCHANGED <<tables, links, federated, proven, doubted>>
  BY DEF LookupRow
<1>2. AccountsTypeOK /\ Local(p) /\ Searches(p)
  BY <1>1 DEF AccountsInv, Searches
<1>3. req[p].id \in Ids
  BY <1>1, <1>2 DEF Local
<1>4. MovesTyped => AccountsTypeOK'
  BY <1>1, <1>2 DEF AccountsTypeOK, MovesTyped, tables, links, federated
<1>5. CASE NotFound(p)
  BY <1>1, <1>2, <1>5, NotFoundInv
<1>6. CASE Finish(p)
  BY <1>1, <1>4, <1>6, QuietAnswer DEF links
<1>7. CASE /\ Persisted(req[p].id)
           /\ req' = [req EXCEPT ![p].email = rowEmail[req[p].id]]
           /\ Goto(p, "createToken")
  <2>1. rowEmail[req[p].id] \in Emails /\ "createToken" \in Labels
    BY <1>2, <1>3, <1>7 DEF AccountsTypeOK, Persisted, Labels
  <2>2. PICK e \in Emails : e = rowEmail[req[p].id]
    BY <2>1
  <2>3. /\ Others(p) /\ MovesTyped /\ pc'[p] = "createToken"
        /\ req'[p].email = e /\ req'[p].id = req[p].id
    <3>1. Goto(p, "createToken") /\ req' = [req EXCEPT ![p].email = e] /\ AccountsTypeOK
      BY <1>2, <1>7, <2>2
    <3> QED
      BY <2>1, <3>1, LearnsEmail
  <2>4. Local(p)' /\ \A q \in Procs \ {p} : Apart(p, q)'
    BY <1>1, <1>3, <2>2, <2>3 DEF Local, Apart, Searches, Prepares, Inserts, tables
  <2> QED
    BY <1>1, <1>4, <2>3, <2>4, QuietStep DEF links
<1>8. CASE Goto(p, "upsert") /\ UNCHANGED req
  <2>1. "upsert" \in Labels
    BY DEF Labels
  <2>2. At(p, "upsert", req[p]) /\ MovesTyped
    BY <1>2, <1>8, <2>1, Stays
  <2>3. Local(p)' /\ \A q \in Procs \ {p} : Apart(p, q)'
    BY <1>3, <2>2 DEF At, Local, Apart, Searches, Prepares, Inserts
  <2> QED
    BY <1>1, <1>4, <2>2, <2>3, QuietStep DEF At, links
<1> QED
  BY <1>5, <1>6, <1>7, <1>8 DEF LookupRow

-----------------------------------------------------------------------------
(* user.Repository.Create. *)

(* Doubt names p and every other request that is creating the same         *)
(* account, and the account that is about to be replaced.                  *)
LEMMA Doubts ==
  ASSUME AccountsInv, NEW p \in Procs, Prepares(p), Doubt(p)
  PROVE  /\ doubted \subseteq doubted' /\ doubted' \subseteq Ids
         /\ index[req[p].email] \in doubted' \cup {NoId}
         /\ \A q \in Procs \ {p} : Inserts(q) /\ req[q].email = req[p].email =>
              {req[p].id, req[q].id} \subseteq doubted'
<1> DEFINE e == req[p].email
           rivals == {req[q].id : q \in {q \in Procs \ {p} : Creating(q, e)}}
           hidden == {index[e]} \ {NoId}
<1>1. doubted' = IF rivals \cup hidden = {} THEN doubted
                 ELSE doubted \cup rivals \cup hidden \cup {req[p].id}
  BY DEF Doubt
<1>2. \A q \in Procs : Inserts(q) => req[q].id \in Ids
  BY DEF AccountsInv, Local, Inserts, Prepares
<1>3. rivals \subseteq Ids
  BY <1>2 DEF Creating, Inserts
<1>4. e \in Emails /\ req[p].id \in Ids /\ index[e] \in Ids \cup {NoId} /\ doubted \subseteq Ids
  BY DEF AccountsInv, AccountsTypeOK, Local
<1>5. \A q \in Procs \ {p} : Inserts(q) /\ req[q].email = e => req[q].id \in rivals
  BY DEF Creating, Inserts
<1> QED
  BY <1>1, <1>3, <1>4, <1>5

(* The check goes through. *)
LEMMA GoesThroughInv ==
  ASSUME AccountsInv, NEW p \in Procs, pc[p] \in {"checkIndex", "checkRow"},
         Doubt(p), Goto(p, "insertUser"), UNCHANGED req,
         UNCHANGED <<tables, links, federated, proven>>
  PROVE  AccountsInv'
<1>1. AccountsTypeOK /\ Local(p) /\ Prepares(p) /\ "insertUser" \in Labels
  BY DEF AccountsInv, Prepares, Labels
<1>2. At(p, "insertUser", req[p]) /\ MovesTyped
  BY <1>1, Stays
<1>3. /\ doubted \subseteq doubted' /\ doubted' \subseteq Ids
      /\ index[req[p].email] \in doubted' \cup {NoId}
      /\ \A q \in Procs \ {p} : Inserts(q) /\ req[q].email = req[p].email =>
           {req[p].id, req[q].id} \subseteq doubted'
  BY <1>1, Doubts
<1>4. AccountsTypeOK'
  BY <1>1, <1>2, <1>3 DEF AccountsTypeOK, MovesTyped, tables, links, federated
<1>5. Local(p)'
  BY <1>1, <1>2, <1>3 DEF At, Local, Searches, Prepares, Inserts, Persisted, tables
<1>6. ASSUME NEW q \in Procs \ {p} PROVE Apart(p, q)'
  <2>1. Apart(p, q) /\ pc'[q] = pc[q] /\ req'[q] = req[q]
    BY <1>2 DEF AccountsInv, At, Others
  <2> QED
    BY <1>1, <1>2, <1>3, <2>1 DEF At, Apart, Prepares, Inserts
<1> QED
  BY <1>2, <1>3, <1>4, <1>5, <1>6, QuietStep DEF At, links

LEMMA CheckIndexInv ==
  ASSUME AccountsInv, NEW p \in Procs, CheckIndex(p)
  PROVE  AccountsInv'
<1>1. pc[p] = "checkIndex" /\ UNCHANGED <<tables, links, federated, proven>>
  BY DEF CheckIndex
<1>2. AccountsTypeOK /\ Local(p) /\ Prepares(p)
  BY <1>1 DEF AccountsInv, Prepares
<1>3. CASE Doubt(p) /\ Goto(p, "insertUser") /\ UNCHANGED req
  BY <1>1, <1>3, GoesThroughInv
<1>4. CASE /\ index[req[p].email] # NoId
           /\ req' = [req EXCEPT ![p].found = index[req[p].email]]
           /\ Goto(p, "checkRow")
           /\ UNCHANGED doubted
  <2>1. index[req[p].email] \in Ids /\ "checkRow" \in Labels
    BY <1>2, <1>4 DEF Local, AccountsTypeOK, Labels
  <2>2. PICK i \in Ids : i = index[req[p].email]
    BY <2>1
  <2>3. /\ Others(p) /\ MovesTyped /\ pc'[p] = "checkRow"
        /\ req'[p].found \in Ids /\ req'[p].id = req[p].id
        /\ req'[p].op = req[p].op /\ req'[p].email = req[p].email
        /\ req'[p].claim = req[p].claim
    BY <1>2, <1>4, <2>1, <2>2, LearnsFound
  <2>4. AccountsTypeOK'
    BY <1>1, <1>2, <1>4, <2>3 DEF AccountsTypeOK, MovesTyped, tables, links, federated
  <2>5. Local(p)'
    BY <1>1, <1>2, <2>3 DEF Local, Searches, Prepares, Inserts, Persisted, tables
  <2>6. Grows
    BY <1>1, <1>4 DEF Grows, tables, links
  <2>7. \A q \in Procs \ {p} : Apart(p, q)'
    BY <1>1, <1>2, <2>3, <2>6, ApartKept DEF Prepares, Inserts
  <2> QED
    BY <1>1, <1>4, <2>3, <2>4, <2>5, <2>7, QuietStep DEF links
<1> QED
  BY <1>3, <1>4 DEF CheckIndex

LEMMA CheckRowInv ==
  ASSUME AccountsInv, NEW p \in Procs, CheckRow(p)
  PROVE  AccountsInv'
<1>1. pc[p] = "checkRow" /\ UNCHANGED <<tables, links, federated, proven>>
  BY DEF CheckRow
<1>2. AccountsTypeOK /\ Local(p) /\ Prepares(p) /\ req[p].id \in Ids
  BY <1>1 DEF AccountsInv, Prepares, Local
<1>3. CASE Doubt(p) /\ Goto(p, "insertUser") /\ UNCHANGED req
  BY <1>1, <1>3, GoesThroughInv
<1>4. CASE Taken(p) /\ UNCHANGED doubted
  <2>1. MovesTyped => AccountsTypeOK'
    BY <1>1, <1>2, <1>4 DEF AccountsTypeOK, MovesTyped, tables, links, federated
  <2>2. CASE Finish(p)
    BY <1>1, <1>4, <2>1, <2>2, QuietAnswer DEF links
  <2>3. CASE Goto(p, "upsert") /\ UNCHANGED req
    <3>1. "upsert" \in Labels
      BY DEF Labels
    <3>2. At(p, "upsert", req[p]) /\ MovesTyped
      BY <1>2, <2>3, <3>1, Stays
    <3>3. Local(p)' /\ \A q \in Procs \ {p} : Apart(p, q)'
      BY <1>2, <3>2 DEF At, Local, Apart, Searches, Prepares, Inserts
    <3> QED
      BY <1>1, <1>4, <2>1, <3>2, <3>3, QuietStep DEF At, links
  <2> QED
    BY <1>4, <2>2, <2>3 DEF Taken
<1> QED
  BY <1>3, <1>4 DEF CheckRow

(* The row of the new account, by the only request that has its id. *)
LEMMA PutRowInv ==
  ASSUME AccountsInv, NEW p \in Procs, pc[p] = "insertUser", PutRow(p), Others(p),
         MovesTyped, doubted' \in {doubted, doubted \cup {req[p].id}},
         UNCHANGED <<index, links, federated, proven>>,
         \/ pc'[p] = "insertEmail" /\ req'[p] = req[p]
         \/ pc'[p] = "idle" /\ req[p].id \in doubted'
  PROVE  AccountsInv'
<1> DEFINE r == req[p]
<1>1. AccountsTypeOK /\ Local(p) /\ Prepares(p) /\ Inserts(p) /\ NoEmail \notin Emails
  BY AbsentAssumption DEF AccountsInv, Prepares, Inserts
<1>2. /\ r.id \in Ids /\ r.email \in Emails /\ rowEmail[r.id] = NoEmail
      /\ r.claim \in BOOLEAN /\ (r.claim => r.email \in proven)
      /\ r.op \in {"register", "callback"}
  BY <1>1, RequestTypes DEF Local, Persisted
<1>3. /\ rowEmail' \in [Ids -> Emails \cup {NoEmail}]
      /\ rowEmail'[r.id] = r.email
      /\ \A i \in Ids \ {r.id} : rowEmail'[i] = rowEmail[i]
  BY <1>1, <1>2 DEF PutRow, AccountsTypeOK
<1>4. /\ verified' \in [Ids -> BOOLEAN]
      /\ verified'[r.id] = r.claim
      /\ \A i \in Ids \ {r.id} : verified'[i] = verified[i]
  BY <1>1, <1>2 DEF PutRow, AccountsTypeOK
<1>5. AccountsTypeOK'
  BY <1>1, <1>2, <1>3, <1>4 DEF AccountsTypeOK, MovesTyped, links, federated
<1>6. Grows
  BY <1>2, <1>3 DEF Grows, Persisted, links
<1>7. IndexIsSound'
  BY <1>1, <1>2, <1>3 DEF AccountsInv, AccountsTypeOK, IndexIsSound
<1>8. VerifiedIsProven'
  BY <1>2, <1>3, <1>4 DEF AccountsInv, VerifiedIsProven
<1>9. LinkMatchesAccount'
  BY <1>1, <1>2, <1>3
     DEF AccountsInv, AccountsTypeOK, LinkMatchesAccount, Persisted, links
<1>10. ASSUME NEW i \in Ids, Persisted(i)', index'[rowEmail'[i]] # i,
              \A q \in Procs : ~(pc'[q] = "insertEmail" /\ req'[q].id = i)
       PROVE  i \in doubted'
  <2>1. CASE i = r.id
    BY <1>10, <2>1
  <2>2. CASE i # r.id
    <3>1. Persisted(i) /\ index[rowEmail[i]] # i
      BY <1>3, <1>10, <2>2 DEF Persisted
    <3>2. \A q \in Procs : ~(pc[q] = "insertEmail" /\ req[q].id = i)
      BY <1>10, <2>2 DEF Others
    <3> QED
      BY <3>1, <3>2 DEF AccountsInv, LostOnlyIfDoubted
  <2> QED
    BY <2>1, <2>2
<1>11. LostOnlyIfDoubted'
  BY <1>10 DEF LostOnlyIfDoubted
<1>12. Local(p)'
  <2>1. index'[r.email] \in doubted' \cup {NoId, r.id}
    BY <1>1 DEF Local
  <2> QED
    BY <1>2, <1>3, <2>1 DEF Local, Searches, Prepares, Inserts
<1>13. ASSUME NEW q \in Procs \ {p} PROVE Local(q)' /\ Apart(p, q)'
  <2>1. Apart(p, q) /\ Local(q) /\ pc'[q] = pc[q] /\ req'[q] = req[q]
    BY DEF AccountsInv, Others
  <2>2. Prepares(q) => rowEmail'[req[q].id] = rowEmail[req[q].id]
    BY <1>1, <1>3, <2>1 DEF Apart, Local
  <2>3. Apart(p, q)'
    BY <1>1, <1>6, ApartKept DEF Prepares, Inserts
  <2> QED
    BY <1>6, <2>1, <2>2, <2>3, LocalKept
<1> QED
  BY <1>5, <1>6, <1>7, <1>8, <1>9, <1>11, <1>12, <1>13, OneMoves

LEMMA InsertUserInv ==
  ASSUME AccountsInv, NEW p \in Procs, InsertUser(p)
  PROVE  AccountsInv'
<1>1. pc[p] = "insertUser" /\ UNCHANGED <<index, links, federated, proven>>
  BY DEF InsertUser
<1>2. AccountsTypeOK /\ Local(p) /\ req[p].id \in Ids /\ "insertEmail" \in Labels
  BY <1>1 DEF AccountsInv, Local, Prepares, Labels
<1>3. CASE PutRow(p) /\ Goto(p, "insertEmail") /\ UNCHANGED <<req, doubted>>
  <2>1. At(p, "insertEmail", req[p]) /\ MovesTyped
    BY <1>2, <1>3, Stays
  <2> QED
    BY <1>1, <1>3, <2>1, PutRowInv DEF At
<1>4. CASE /\ PutRow(p) \/ UNCHANGED <<rowEmail, verified>>
           /\ Finish(p)
           /\ doubted' = doubted \cup {req[p].id}
  <2>1. At(p, "idle", NoRequest) /\ MovesTyped
    BY <1>2, <1>4, Finishes
  <2>2. CASE PutRow(p)
    BY <1>1, <1>4, <2>1, <2>2, PutRowInv DEF At
  <2>3. CASE UNCHANGED <<rowEmail, verified>>
    <3>1. MovesTyped => AccountsTypeOK'
      BY <1>1, <1>2, <1>4, <2>3 DEF AccountsTypeOK, MovesTyped, links, federated
    <3> QED
      BY <1>1, <1>4, <2>3, <3>1, QuietAnswer DEF links, tables
  <2> QED
    BY <1>4, <2>2, <2>3
<1> QED
  BY <1>3, <1>4 DEF InsertUser

(* The entry of the lookup table: whose entry it replaces is doubted. *)
LEMMA PutIndexInv ==
  ASSUME AccountsInv, NEW p \in Procs, pc[p] = "insertEmail", PutIndex(p), Others(p),
         MovesTyped, doubted' \in {doubted, doubted \cup {req[p].id}},
         UNCHANGED <<rowEmail, verified, links, federated, proven>>,
         pc'[p] \in {"idle", "createToken", "upsert"},
         pc'[p] # "idle" => req'[p] = req[p]
  PROVE  AccountsInv'
<1> DEFINE r == req[p]
<1>1. /\ AccountsTypeOK /\ Local(p) /\ Inserts(p)
      /\ NoEmail \notin Emails /\ NoId \notin Ids
  BY AbsentAssumption DEF AccountsInv, Inserts
<1>2. r.id \in Ids /\ r.email \in Emails /\ rowEmail[r.id] = r.email
  BY <1>1 DEF Local
<1>3. /\ index' \in [Emails -> Ids \cup {NoId}]
      /\ index'[r.email] = r.id
      /\ \A e \in Emails \ {r.email} : index'[e] = index[e]
  BY <1>1, <1>2 DEF PutIndex, AccountsTypeOK
<1>4. AccountsTypeOK'
  BY <1>1, <1>2, <1>3 DEF AccountsTypeOK, MovesTyped, links, federated
<1>5. Grows /\ VerifiedIsProven' /\ LinkMatchesAccount'
  BY DEF Grows, AccountsInv, VerifiedIsProven, LinkMatchesAccount, Persisted, links
<1>6. IndexIsSound'
  BY <1>2, <1>3 DEF AccountsInv, IndexIsSound
<1>7. ASSUME NEW i \in Ids, Persisted(i)', index'[rowEmail'[i]] # i,
             \A q \in Procs : ~(pc'[q] = "insertEmail" /\ req'[q].id = i)
      PROVE  i \in doubted'
  <2>1. Persisted(i) /\ rowEmail[i] \in Emails /\ i # r.id
    BY <1>1, <1>2, <1>3, <1>7 DEF Persisted, AccountsTypeOK
  <2>2. \A q \in Procs : ~(pc[q] = "insertEmail" /\ req[q].id = i)
    BY <1>7, <2>1 DEF Others
  <2>3. CASE index[rowEmail[i]] # i
    BY <2>1, <2>2, <2>3 DEF AccountsInv, LostOnlyIfDoubted
  <2>4. CASE index[rowEmail[i]] = i
    BY <1>1, <1>3, <1>7, <2>1, <2>4 DEF Local
  <2> QED
    BY <2>3, <2>4
<1>8. LostOnlyIfDoubted'
  BY <1>7 DEF LostOnlyIfDoubted
<1>9. Local(p)'
  BY <1>2 DEF Local, Searches, Prepares, Inserts
<1>10. ASSUME NEW q \in Procs \ {p} PROVE Local(q)' /\ Apart(p, q)'
  <2>1. Apart(p, q) /\ Local(q) /\ pc'[q] = pc[q] /\ req'[q] = req[q]
    BY DEF AccountsInv, Others
  <2>2. Inserts(q) => req[q].email \in Emails
    BY <2>1 DEF Local, Inserts, Prepares
  <2>3. Inserts(q) => index'[req[q].email] \in doubted' \cup {index[req[q].email]}
    BY <1>1, <1>3, <2>1, <2>2 DEF Apart
  <2>4. Apart(p, q)'
    BY <1>5, ApartKept DEF Prepares, Inserts
  <2> QED
    BY <1>5, <2>1, <2>3, <2>4, LocalKept
<1> QED
  BY <1>4, <1>5, <1>6, <1>8, <1>9, <1>10, OneMoves

LEMMA InsertEmailInv ==
  ASSUME AccountsInv, NEW p \in Procs, InsertEmail(p)
  PROVE  AccountsInv'
<1>1. /\ pc[p] = "insertEmail"
      /\ UNCHANGED <<rowEmail, verified, links, federated, proven>>
  BY DEF InsertEmail
<1>2. AccountsTypeOK /\ Local(p) /\ req[p].id \in Ids
  BY <1>1 DEF AccountsInv, Local
<1>3. CASE PutIndex(p) /\ Created(p) /\ UNCHANGED <<req, doubted>>
  <2>1. PICK label \in {"createToken", "upsert"} : Goto(p, label)
    BY <1>3 DEF Created
  <2>2. At(p, label, req[p]) /\ MovesTyped
    BY <1>2, <1>3, <2>1, Stays DEF Labels
  <2> QED
    BY <1>1, <1>3, <2>2, PutIndexInv DEF At
<1>4. CASE /\ PutIndex(p) \/ UNCHANGED index
           /\ Finish(p)
           /\ doubted' = doubted \cup {req[p].id}
  <2>1. At(p, "idle", NoRequest) /\ MovesTyped
    BY <1>2, <1>4, Finishes
  <2>2. CASE PutIndex(p)
    BY <1>1, <1>4, <2>1, <2>2, PutIndexInv DEF At
  <2>3. CASE UNCHANGED index
    <3>1. MovesTyped => AccountsTypeOK'
      BY <1>1, <1>2, <1>4, <2>3 DEF AccountsTypeOK, MovesTyped, links, federated
    <3> QED
      BY <1>1, <1>4, <2>3, <3>1, QuietAnswer DEF links, tables
  <2> QED
    BY <1>4, <2>2, <2>3
<1> QED
  BY <1>3, <1>4 DEF InsertEmail

-----------------------------------------------------------------------------
(* Verification links, and the end of the callback. *)

(* A link nobody has is stored for the account whose address it is mailed *)
(* to.                                                                     *)
LEMMA CreateTokenInv ==
  ASSUME AccountsInv, NEW p \in Procs, CreateToken(p)
  PROVE  AccountsInv'
<1> DEFINE r == req[p]
<1>1. /\ pc[p] = "createToken" /\ Finish(p)
      /\ UNCHANGED <<tables, federated, proven, doubted>>
  BY DEF CreateToken
<1>2. AccountsTypeOK /\ Local(p) /\ NoEmail \notin Emails
  BY AbsentAssumption DEF AccountsInv
<1>3. r.id \in Ids /\ r.email \in Emails /\ rowEmail[r.id] = r.email
  BY <1>1, <1>2 DEF Local
<1>4. CASE UNCHANGED links
  <2>1. MovesTyped => AccountsTypeOK'
    BY <1>1, <1>2, <1>4 DEF AccountsTypeOK, MovesTyped, links, tables, federated
  <2> QED
    BY <1>1, <1>4, <2>1, QuietAnswer DEF links
<1>5. CASE \E t \in Links :
             /\ linkFor[t] = NoId /\ inbox[t] = NoEmail
             /\ \A q \in Procs : req[q].link # t
             /\ linkFor' = [linkFor EXCEPT ![t] = r.id]
             /\ \/ inbox' = [inbox EXCEPT ![t] = r.email]
                \/ UNCHANGED inbox
  <2>1. PICK t \in Links :
             /\ linkFor[t] = NoId /\ inbox[t] = NoEmail
             /\ \A q \in Procs : req[q].link # t
             /\ linkFor' = [linkFor EXCEPT ![t] = r.id]
             /\ \/ inbox' = [inbox EXCEPT ![t] = r.email]
                \/ UNCHANGED inbox
    BY <1>5
  <2>2. At(p, "idle", NoRequest) /\ MovesTyped
    BY <1>1, <1>2, Finishes
  <2>3. /\ linkFor' \in [Links -> Ids \cup {NoId}]
        /\ linkFor'[t] = r.id
        /\ \A l \in Links \ {t} : linkFor'[l] = linkFor[l]
    BY <1>2, <1>3, <2>1 DEF AccountsTypeOK
  <2>4. /\ inbox' \in [Links -> Emails \cup {NoEmail}]
        /\ inbox'[t] \in {r.email, NoEmail}
        /\ \A l \in Links \ {t} : inbox'[l] = inbox[l]
    BY <1>2, <1>3, <2>1 DEF AccountsTypeOK
  <2>5. AccountsTypeOK'
    BY <1>1, <1>2, <2>2, <2>3, <2>4 DEF AccountsTypeOK, MovesTyped, tables, federated
  <2>6. Grows
    BY <1>1, <2>1, <2>3, <2>4 DEF Grows, tables
  <2>7. IndexIsSound' /\ VerifiedIsProven'
    BY <1>1 DEF AccountsInv, IndexIsSound, VerifiedIsProven, tables
  <2>8. LinkMatchesAccount'
    BY <1>1, <1>2, <1>3, <2>3, <2>4
       DEF AccountsInv, LinkMatchesAccount, Persisted, tables
  <2>9. ASSUME NEW i \in Ids, Persisted(i)', index'[rowEmail'[i]] # i,
               \A q \in Procs : ~(pc'[q] = "insertEmail" /\ req'[q].id = i)
        PROVE  i \in doubted'
    <3>1. \A q \in Procs : ~(pc[q] = "insertEmail" /\ req[q].id = i)
      BY <1>1, <2>2, <2>9 DEF At, Others
    <3> QED
      BY <1>1, <2>9, <3>1 DEF AccountsInv, LostOnlyIfDoubted, Persisted, tables
  <2>10. LostOnlyIfDoubted'
    BY <2>9 DEF LostOnlyIfDoubted
  <2>11. Local(p)' /\ Others(p) /\ \A q \in Procs \ {p} : Apart(p, q)'
    BY <2>2, Answered
  <2>12. ASSUME NEW q \in Procs \ {p} PROVE Local(q)'
    BY <1>1, <2>6, <2>11, LocalKept DEF Others, tables
  <2> QED
    BY <2>5, <2>6, <2>7, <2>8, <2>10, <2>11, <2>12, OneMoves
<1> QED
  BY <1>4, <1>5 DEF CreateToken

(* The link leaves the store with the request that takes it, and its      *)
(* owner has proven the address it was mailed to.                          *)
LEMMA ConsumeInv ==
  ASSUME AccountsInv, NEW p \in Procs, Consume(p)
  PROVE  AccountsInv'
<1> DEFINE t == req[p].link
<1>1. /\ pc[p] = "consume" /\ UNCHANGED <<tables, inbox, federated, doubted>>
      /\ linkFor' = [linkFor EXCEPT ![t] = NoId] \/ UNCHANGED linkFor
  BY DEF Consume
<1>2. AccountsTypeOK /\ Local(p) /\ NoEmail \notin Emails
  BY AbsentAssumption DEF AccountsInv
<1>3. t \in Links /\ inbox[t] \in Emails
  BY <1>1, <1>2 DEF Local, AccountsTypeOK
<1>4. \A l \in Links : linkFor'[l] \in {linkFor[l], NoId}
  BY <1>1, <1>2 DEF AccountsTypeOK
<1>5. linkFor' \in [Links -> Ids \cup {NoId}]
  BY <1>1, <1>2 DEF AccountsTypeOK
<1>6. CASE Finish(p) /\ UNCHANGED proven
  <2>1. MovesTyped => AccountsTypeOK'
    BY <1>1, <1>2, <1>5, <1>6 DEF AccountsTypeOK, MovesTyped, tables, federated
  <2> QED
    BY <1>1, <1>4, <1>6, <2>1, QuietAnswer
<1>7. CASE /\ linkFor[t] # NoId
           /\ linkFor' = [linkFor EXCEPT ![t] = NoId]
           /\ req' = [req EXCEPT ![p].id = linkFor[t]]
           /\ Goto(p, "setVerified")
           /\ proven' = proven \cup {inbox[t]}
  <2>1. linkFor[t] \in Ids /\ "setVerified" \in Labels
    BY <1>2, <1>3, <1>7 DEF AccountsTypeOK, Labels
  <2>2. PICK i \in Ids : i = linkFor[t]
    BY <2>1
  <2>3. /\ Others(p) /\ MovesTyped /\ pc'[p] = "setVerified"
        /\ req'[p].id = i /\ req'[p].link = t
    BY <1>2, <1>7, <2>1, <2>2, LearnsId
  <2>4. AccountsTypeOK' /\ proven \subseteq proven'
    BY <1>1, <1>2, <1>3, <1>5, <1>7, <2>3 DEF AccountsTypeOK, MovesTyped, tables, federated
  <2>5. rowEmail[i] = inbox[t]
    BY <1>2, <1>3, <2>2, <2>1, AbsentAssumption DEF AccountsInv, LinkMatchesAccount
  <2>6. linkFor'[t] = NoId
    BY <1>2, <1>3, <1>7 DEF AccountsTypeOK
  <2>7. Local(p)'
    BY <1>1, <1>2, <1>3, <1>7, <2>3, <2>5, <2>6
       DEF Local, Searches, Prepares, Inserts, tables
  <2>8. ASSUME NEW q \in Procs \ {p} PROVE Apart(p, q)'
    <3>1. pc'[q] = pc[q] /\ req'[q] = req[q]
      BY <2>3 DEF Others
    <3>2. pc[q] = "setVerified" => req[q].link # t
      BY <1>7 DEF AccountsInv, Local
    <3> QED
      BY <2>3, <3>1, <3>2 DEF Apart, Prepares, Inserts
  <2> QED
    BY <1>1, <1>4, <2>3, <2>4, <2>7, <2>8, QuietStep
<1> QED
  BY <1>6, <1>7 DEF Consume

(* The UPDATE finds a row, and its address is proven. *)
LEMMA SetEmailVerifiedInv ==
  ASSUME AccountsInv, NEW p \in Procs, SetEmailVerified(p)
  PROVE  AccountsInv'
<1> DEFINE i == req[p].id
<1>1. /\ pc[p] = "setVerified" /\ Finish(p)
      /\ UNCHANGED <<rowEmail, index, links, federated, proven, doubted>>
      /\ verified' = [verified EXCEPT ![i] = TRUE] \/ UNCHANGED verified
  BY DEF SetEmailVerified
<1>2. AccountsTypeOK /\ Local(p) /\ i \in Ids /\ rowEmail[i] \in proven
  BY <1>1 DEF AccountsInv, Local
<1>3. At(p, "idle", NoRequest) /\ MovesTyped
  BY <1>1, <1>2, Finishes
<1>4. AccountsTypeOK'
  BY <1>1, <1>2, <1>3 DEF AccountsTypeOK, MovesTyped, links, federated
<1>5. VerifiedIsProven'
  BY <1>1, <1>2 DEF AccountsInv, AccountsTypeOK, VerifiedIsProven
<1>6. Grows /\ IndexIsSound' /\ LinkMatchesAccount'
  BY <1>1 DEF Grows, AccountsInv, IndexIsSound, LinkMatchesAccount, Persisted, links
<1>7. ASSUME NEW j \in Ids, Persisted(j)', index'[rowEmail'[j]] # j,
             \A q \in Procs : ~(pc'[q] = "insertEmail" /\ req'[q].id = j)
      PROVE  j \in doubted'
  <2>1. \A q \in Procs : ~(pc[q] = "insertEmail" /\ req[q].id = j)
    BY <1>1, <1>3, <1>7 DEF At, Others
  <2> QED
    BY <1>1, <1>7, <2>1 DEF AccountsInv, LostOnlyIfDoubted, Persisted
<1>8. LostOnlyIfDoubted'
  BY <1>7 DEF LostOnlyIfDoubted
<1>9. Local(p)' /\ Others(p) /\ \A q \in Procs \ {p} : Apart(p, q)'
  BY <1>3, Answered
<1>10. ASSUME NEW q \in Procs \ {p} PROVE Local(q)'
  BY <1>1, <1>6, <1>9, LocalKept DEF Others
<1> QED
  BY <1>4, <1>5, <1>6, <1>8, <1>9, <1>10, OneMoves

LEMMA UpsertIdentityInv ==
  ASSUME AccountsInv, NEW p \in Procs, UpsertIdentity(p)
  PROVE  AccountsInv'
<1>1. /\ pc[p] = "upsert" /\ Goto(p, "storeRefresh")
      /\ linked' = linked \cup {req[p].id} \/ UNCHANGED linked
      /\ UNCHANGED <<tables, links, signedIn, req, proven, doubted>>
  BY DEF UpsertIdentity
<1>2. AccountsTypeOK /\ Local(p) /\ req[p].id \in Ids /\ "storeRefresh" \in Labels
  BY <1>1 DEF AccountsInv, Local, Labels
<1>3. At(p, "storeRefresh", req[p]) /\ MovesTyped
  BY <1>1, <1>2, Stays
<1>4. AccountsTypeOK'
  BY <1>1, <1>2, <1>3 DEF AccountsTypeOK, MovesTyped, tables, links
<1>5. Local(p)' /\ \A q \in Procs \ {p} : Apart(p, q)'
  BY <1>2, <1>3 DEF At, Local, Apart, Searches, Prepares, Inserts
<1> QED
  BY <1>1, <1>3, <1>4, <1>5, QuietStep DEF At, links

LEMMA StoreRefreshInv ==
  ASSUME AccountsInv, NEW p \in Procs, StoreRefresh(p)
  PROVE  AccountsInv'
<1>1. /\ pc[p] = "storeRefresh" /\ Finish(p)
      /\ signedIn' = signedIn \cup {req[p].id} \/ UNCHANGED signedIn
      /\ UNCHANGED <<tables, links, linked, proven, doubted>>
  BY DEF StoreRefresh
<1>2. AccountsTypeOK /\ req[p].id \in Ids
  BY <1>1 DEF AccountsInv, Local
<1>3. MovesTyped => AccountsTypeOK'
  BY <1>1, <1>2 DEF AccountsTypeOK, MovesTyped, tables, links
<1> QED
  BY <1>1, <1>3, QuietAnswer DEF links

-----------------------------------------------------------------------------
(* Steps of no request. *)

LEMMA ExpireLinkInv ==
  ASSUME AccountsInv, linkFor' \in [Links -> Ids \cup {NoId}],
         \A t \in Links : linkFor'[t] \in {linkFor[t], NoId},
         UNCHANGED <<tables, inbox, federated, pc, req, proven, doubted>>
  PROVE  AccountsInv'
<1>1. AccountsTypeOK' /\ IndexIsSound' /\ VerifiedIsProven' /\ LostOnlyIfDoubted'
  BY DEF AccountsInv, AccountsTypeOK, IndexIsSound, VerifiedIsProven,
         LostOnlyIfDoubted, Persisted, tables, federated
<1>2. Grows /\ LinkMatchesAccount'
  BY DEF Grows, AccountsInv, LinkMatchesAccount, Persisted, tables
<1>3. ASSUME NEW q \in Procs PROVE Local(q)'
  BY <1>2, LocalKept DEF tables
<1>4. \A q \in Procs : \A r \in Procs \ {q} : Apart(q, r)'
  BY <1>2, ApartStill
<1> QED
  BY <1>1, <1>2, <1>3, <1>4 DEF AccountsInv

LEMMA CrashInv ==
  ASSUME AccountsInv, Crash
  PROVE  AccountsInv'
<1>1. /\ UNCHANGED <<tables, links, federated, proven>>
      /\ \A p \in Procs : pc'[p] = "idle"
      /\ pc' \in [Procs -> Labels] /\ req' \in [Procs -> Requests]
  BY NoRequestType DEF Crash, Labels
<1>2. doubted' = doubted \cup {req[p].id : p \in {q \in Procs : pc[q] = "insertEmail"}}
  BY DEF Crash
<1>3. \A p \in Procs : pc[p] = "insertEmail" => req[p].id \in Ids \cap doubted'
  BY <1>2 DEF AccountsInv, Local
<1>4. AccountsTypeOK'
  BY <1>1, <1>2, <1>3 DEF AccountsInv, AccountsTypeOK, tables, links, federated
<1>5. IndexIsSound' /\ VerifiedIsProven' /\ LinkMatchesAccount'
  BY <1>1 DEF AccountsInv, IndexIsSound, VerifiedIsProven, LinkMatchesAccount,
              Persisted, tables, links
<1>6. LostOnlyIfDoubted'
  BY <1>1, <1>2, <1>3 DEF AccountsInv, LostOnlyIfDoubted, Persisted, tables
<1>7. \A p \in Procs : Local(p)' /\ \A q \in Procs \ {p} : Apart(p, q)'
  BY <1>1 DEF Local, Apart, Searches, Prepares, Inserts
<1> QED
  BY <1>4, <1>5, <1>6, <1>7 DEF AccountsInv

-----------------------------------------------------------------------------

LEMMA StepInv == AccountsInv /\ [Next]_vars => AccountsInv'
<1> SUFFICES ASSUME AccountsInv, [Next]_vars PROVE AccountsInv'
  OBVIOUS
<1>1. ASSUME NEW p \in Procs, Start(p) PROVE AccountsInv'
  BY <1>1, StartRegisterInv, StartResendInv, StartCallbackInv, StartVerifyInv
     DEF Start
<1>2. ASSUME NEW p \in Procs, Step(p) PROVE AccountsInv'
  BY <1>2, LookupIndexInv, LookupRowInv, CheckIndexInv, CheckRowInv, InsertUserInv,
     InsertEmailInv, CreateTokenInv, ConsumeInv, SetEmailVerifiedInv,
     UpsertIdentityInv, StoreRefreshInv DEF Step, Insert
<1>3. ASSUME NEW t \in Links, ExpireLink(t) PROVE AccountsInv'
  BY <1>3, ExpireLinkInv DEF ExpireLink, AccountsInv, AccountsTypeOK
<1>4. CASE Crash
  BY <1>4, CrashInv
<1>5. CASE UNCHANGED vars
  BY <1>5, ExpireLinkInv DEF vars, tables, federated, AccountsInv, AccountsTypeOK
<1> QED
  BY <1>1, <1>2, <1>3, <1>4, <1>5 DEF Next

(* The invariant all the safety theorems of this module rest on. *)
THEOREM Invariant == Spec => []AccountsInv
  BY InitInv, StepInv, PTL DEF Spec

(* The two tables, the links and the requests have their types. *)
THEOREM TypeCorrect == Spec => []AccountsTypeOK
<1>1. AccountsInv => AccountsTypeOK
  BY DEF AccountsInv
<1> QED
  BY <1>1, Invariant, PTL

(* What the lookup table says of an email is an account with that email.  *)
THEOREM IndexSound == Spec => []IndexIsSound
<1>1. AccountsInv => IndexIsSound
  BY DEF AccountsInv
<1> QED
  BY <1>1, Invariant, PTL

(* An address that is marked verified was proven by its owner. *)
THEOREM VerifiedProven == Spec => []VerifiedIsProven
<1>1. AccountsInv => VerifiedIsProven
  BY DEF AccountsInv
<1> QED
  BY <1>1, Invariant, PTL

(* A link verifies no account but the one whose mailbox it lies in. *)
THEOREM LinkMatches == Spec => []LinkMatchesAccount
<1>1. AccountsInv => LinkMatchesAccount
  BY DEF AccountsInv
<1> QED
  BY <1>1, Invariant, PTL

(* Only an account whose Create was doubtful cannot be found. *)
THEOREM LostDoubted == Spec => []LostOnlyIfDoubted
<1>1. AccountsInv => LostOnlyIfDoubted
  BY DEF AccountsInv
<1> QED
  BY <1>1, Invariant, PTL

-----------------------------------------------------------------------------
(* Whom a Google login signs in.                                           *)

Ends(p) == pc[p] \in {"upsert", "storeRefresh"}

(* The callback keeps to the address Google vouched for: the row it has    *)
(* found is of that address, and only an address that has an entry in the  *)
(* lookup table makes Create give up.                                      *)
OwnerLocal(p) ==
  LET r == req[p] IN
  /\ pc[p] = "lookupRow" /\ r.op = "callback" => rowEmail[r.id] = r.email
  /\ pc[p] = "checkRow" => index[r.email] # NoId
  /\ Ends(p) =>
       /\ r.email \in Emails
       /\ IF Persisted(r.id) THEN rowEmail[r.id] = r.email ELSE index[r.email] # NoId

(* Nobody else is about to create the account it ends in. *)
OwnerApart(p, q) == Ends(p) /\ Prepares(q) => req[p].id # req[q].id

OwnerInv ==
  \A p \in Procs : OwnerLocal(p) /\ \A q \in Procs \ {p} : OwnerApart(p, q)

(* p writes its row, its entry, or nothing of the tables. *)
RowStep(p) ==
  \/ UNCHANGED rowEmail
  \/ pc[p] = "insertUser" /\ rowEmail' = [rowEmail EXCEPT ![req[p].id] = req[p].email]
IndexGrows == \A e \in Emails : index[e] # NoId => index'[e] # NoId

LEMMA OwnerKept ==
  ASSUME AccountsInv, OwnerInv, NEW p \in Procs, RowStep(p), IndexGrows,
         NEW q \in Procs \ {p}, pc'[q] = pc[q], req'[q] = req[q]
  PROVE  OwnerLocal(q)'
<1> DEFINE r == req[q]
<1>1. OwnerLocal(q) /\ Local(q) /\ AccountsTypeOK /\ NoEmail \notin Emails
  BY AbsentAssumption DEF OwnerInv, AccountsInv
<1>2. ASSUME pc[p] = "insertUser"
      PROVE  req[p].id \in Ids /\ ~Persisted(req[p].id) /\ (Ends(q) => r.id # req[p].id)
  BY <1>2 DEF AccountsInv, Local, Prepares, OwnerInv, OwnerApart
<1>3. ASSUME r.id \in Ids, Persisted(r.id) \/ Ends(q) PROVE rowEmail'[r.id] = rowEmail[r.id]
  BY <1>1, <1>2, <1>3 DEF RowStep, AccountsTypeOK
<1>4. pc[q] = "lookupRow" /\ r.op = "callback" => rowEmail'[r.id] = r.email
  BY <1>1, <1>3 DEF OwnerLocal, Local, Searches, Persisted
<1>5. pc[q] = "checkRow" => index'[r.email] # NoId
  BY <1>1 DEF OwnerLocal, Local, Prepares, IndexGrows
<1>6. ASSUME Ends(q)
      PROVE  /\ r.email \in Emails
             /\ IF Persisted(r.id)' THEN rowEmail'[r.id] = r.email ELSE index'[r.email] # NoId
  <2>1. r.id \in Ids /\ r.email \in Emails
    BY <1>1, <1>6 DEF Ends, Local, OwnerLocal
  <2>2. rowEmail'[r.id] = rowEmail[r.id]
    BY <1>3, <1>6, <2>1
  <2> QED
    BY <1>1, <1>6, <2>1, <2>2 DEF OwnerLocal, Persisted, IndexGrows
<1> QED
  BY <1>4, <1>5, <1>6 DEF OwnerLocal, Ends, Persisted

LEMMA OwnerStep ==
  ASSUME AccountsInv, OwnerInv, NEW p \in Procs, RowStep(p), IndexGrows, Others(p),
         OwnerLocal(p)', \A q \in Procs \ {p} : OwnerApart(p, q)' /\ OwnerApart(q, p)'
  PROVE  OwnerInv'
<1>1. ASSUME NEW q \in Procs \ {p} PROVE OwnerLocal(q)'
  BY OwnerKept DEF Others
<1>2. ASSUME NEW q \in Procs \ {p}, NEW s \in Procs \ {q, p} PROVE OwnerApart(q, s)'
  BY DEF OwnerInv, OwnerApart, Ends, Prepares, Others
<1> QED
  BY <1>1, <1>2 DEF OwnerInv

(* The steps that leave p neither about to create nor at the end. *)
LEMMA OwnerPlain ==
  ASSUME AccountsInv, OwnerInv, NEW p \in Procs, RowStep(p), IndexGrows, Others(p),
         ~Ends(p)', ~Prepares(p)', pc'[p] # "lookupRow"
  PROVE  OwnerInv'
<1>1. OwnerLocal(p)' /\ \A q \in Procs \ {p} : OwnerApart(p, q)' /\ OwnerApart(q, p)'
  BY DEF OwnerLocal, OwnerApart, Prepares
<1> QED
  BY <1>1, OwnerStep

(* p prepares a Create: with the id it had, or with a new one. *)
LEMMA OwnerPrepares ==
  ASSUME AccountsInv, OwnerInv, NEW p \in Procs, UNCHANGED tables, Others(p),
         Prepares(p)', pc'[p] = "checkRow" => index[req'[p].email] # NoId,
         \/ Prepares(p) /\ req'[p].id = req[p].id
         \/ \A q \in Procs : req[q].id # req'[p].id
  PROVE  OwnerInv'
<1>1. RowStep(p) /\ IndexGrows
  BY DEF RowStep, IndexGrows, tables
<1>2. OwnerLocal(p)'
  BY DEF OwnerLocal, Ends, Prepares, tables
<1>3. ASSUME NEW q \in Procs \ {p} PROVE OwnerApart(p, q)' /\ OwnerApart(q, p)'
  <2>1. ~Ends(p)'
    BY DEF Ends, Prepares
  <2>2. pc'[q] = pc[q] /\ req'[q] = req[q] /\ OwnerApart(q, p)
    BY DEF Others, OwnerInv
  <2> QED
    BY <2>1, <2>2 DEF OwnerApart, Ends
<1> QED
  BY <1>1, <1>2, <1>3, OwnerStep

(* p goes on to the end of the callback. *)
LEMMA OwnerEnds ==
  ASSUME AccountsInv, OwnerInv, NEW p \in Procs, RowStep(p), IndexGrows, Others(p),
         Ends(p)', req'[p] = req[p], req[p].email \in Emails,
         IF rowEmail'[req[p].id] # NoEmail THEN rowEmail'[req[p].id] = req[p].email
                                           ELSE index'[req[p].email] # NoId,
         \A q \in Procs \ {p} : Prepares(q) => req[p].id # req[q].id
  PROVE  OwnerInv'
<1>1. OwnerLocal(p)'
  BY DEF OwnerLocal, Ends, Persisted
<1>2. ASSUME NEW q \in Procs \ {p} PROVE OwnerApart(p, q)' /\ OwnerApart(q, p)'
  BY DEF OwnerApart, Ends, Prepares, Others
<1> QED
  BY <1>1, <1>2, OwnerStep

LEMMA FinishOwner ==
  ASSUME AccountsInv, OwnerInv, NEW p \in Procs, RowStep(p), IndexGrows, Finish(p)
  PROVE  OwnerInv'
<1>1. At(p, "idle", NoRequest)
  BY Finishes DEF AccountsInv
<1> QED
  BY <1>1, OwnerPlain DEF At, Ends, Prepares

LEMMA StartOwner ==
  ASSUME AccountsInv, OwnerInv, NEW p \in Procs, Start(p)
  PROVE  OwnerInv'
<1>1. /\ UNCHANGED tables /\ AccountsTypeOK
      /\ RowStep(p) /\ IndexGrows
  BY DEF Start, StartRegister, StartResend, StartCallback, StartVerify, AccountsInv,
         RowStep, IndexGrows, tables
<1>2. CASE StartRegister(p)
  <2>1. PICK e \in Emails, i \in Ids :
          /\ FreshId(i)
          /\ Begin(p, [NoRequest EXCEPT !.op = "register", !.email = e, !.id = i], "checkIndex")
    BY <1>2 DEF StartRegister
  <2> DEFINE d == [NoRequest EXCEPT !.op = "register", !.email = e, !.id = i]
  <2>2. d \in Requests /\ d.id = i /\ "checkIndex" \in Labels
    BY NoRequestType DEF Requests, NoRequest, Ops, Labels
  <2>3. At(p, "checkIndex", d)
    BY <1>1, <2>1, <2>2, Begins
  <2>4. Prepares(p)' /\ Others(p) /\ req'[p].id = i /\ pc'[p] # "checkRow"
    BY <2>2, <2>3 DEF At, Prepares
  <2> QED
    BY <1>1, <2>1, <2>4, OwnerPrepares DEF FreshId
<1>3. CASE StartResend(p) \/ StartCallback(p) \/ StartVerify(p)
  <2>1. Others(p) /\ pc'[p] \in {"lookupIndex", "consume"}
    BY <1>1, <1>3 DEF StartResend, StartCallback, StartVerify, Begin, Goto, Others,
                      AccountsTypeOK, Labels
  <2> QED
    BY <1>1, <2>1, OwnerPlain DEF Ends, Prepares
<1> QED
  BY <1>2, <1>3 DEF Start

LEMMA NotFoundOwner ==
  ASSUME AccountsInv, OwnerInv, NEW p \in Procs, NotFound(p), UNCHANGED tables
  PROVE  OwnerInv'
<1>1. RowStep(p) /\ IndexGrows /\ AccountsTypeOK
  BY DEF RowStep, IndexGrows, tables, AccountsInv
<1>2. CASE Finish(p)
  BY <1>1, <1>2, FinishOwner
<1>3. CASE /\ \E i \in Ids : FreshId(i) /\ req' = [req EXCEPT ![p].id = i]
           /\ Goto(p, "checkIndex")
  <2>1. PICK i \in Ids : FreshId(i) /\ req' = [req EXCEPT ![p].id = i]
    BY <1>3
  <2>2. Others(p) /\ pc'[p] = "checkIndex" /\ req'[p].id = i
    BY <1>1, <1>3, <2>1, LearnsId DEF Labels
  <2> QED
    BY <1>1, <2>1, <2>2, OwnerPrepares DEF FreshId, Prepares
<1> QED
  BY <1>2, <1>3 DEF NotFound

LEMMA LookupIndexOwner ==
  ASSUME AccountsInv, OwnerInv, NEW p \in Procs, LookupIndex(p)
  PROVE  OwnerInv'
<1>1. pc[p] = "lookupIndex" /\ UNCHANGED tables /\ RowStep(p) /\ IndexGrows
  BY DEF LookupIndex, RowStep, IndexGrows, tables
<1>2. AccountsTypeOK /\ req[p].email \in Emails /\ IndexIsSound
  BY <1>1 DEF AccountsInv, Local, Searches
<1>3. CASE NotFound(p)
  BY <1>1, <1>3, NotFoundOwner
<1>4. CASE /\ index[req[p].email] # NoId
           /\ req' = [req EXCEPT ![p].id = index[req[p].email]]
           /\ Goto(p, "lookupRow")
  <2>1. PICK i \in Ids : i = index[req[p].email]
    BY <1>2, <1>4 DEF AccountsTypeOK
  <2>2. /\ Others(p) /\ pc'[p] = "lookupRow"
        /\ req'[p].id = i /\ req'[p].email = req[p].email
    BY <1>2, <1>4, <2>1, LearnsId DEF Labels
  <2>3. rowEmail'[i] = req[p].email
    BY <1>1, <1>2, <1>4, <2>1 DEF IndexIsSound, tables
  <2>4. OwnerLocal(p)' /\ \A q \in Procs \ {p} : OwnerApart(p, q)' /\ OwnerApart(q, p)'
    BY <2>2, <2>3 DEF OwnerLocal, OwnerApart, Ends, Prepares
  <2> QED
    BY <1>1, <2>2, <2>4, OwnerStep
<1> QED
  BY <1>3, <1>4 DEF LookupIndex

LEMMA LookupRowOwner ==
  ASSUME AccountsInv, OwnerInv, NEW p \in Procs, LookupRow(p)
  PROVE  OwnerInv'
<1>1. pc[p] = "lookupRow" /\ UNCHANGED tables /\ RowStep(p) /\ IndexGrows
  BY DEF LookupRow, RowStep, IndexGrows, tables
<1>2. AccountsTypeOK /\ req[p].email \in Emails /\ OwnerLocal(p)
  BY <1>1 DEF AccountsInv, Local, Searches, OwnerInv
<1>3. CASE NotFound(p)
  BY <1>1, <1>3, NotFoundOwner
<1>4. CASE Finish(p)
  BY <1>1, <1>4, FinishOwner
<1>5. CASE Goto(p, "createToken") /\ req' = [req EXCEPT ![p].email = rowEmail[req[p].id]]
  <2>1. Others(p) /\ pc'[p] = "createToken"
    BY <1>2, <1>5 DEF Goto, Others, AccountsTypeOK
  <2> QED
    BY <1>1, <2>1, OwnerPlain DEF Ends, Prepares
<1>6. CASE Persisted(req[p].id) /\ req[p].op = "callback" /\ Goto(p, "upsert") /\ UNCHANGED req
  <2>1. At(p, "upsert", req[p])
    BY <1>2, <1>6, Stays DEF Labels
  <2>2. \A q \in Procs \ {p} : Prepares(q) => req[p].id # req[q].id
    BY <1>6 DEF AccountsInv, Local
  <2>3. rowEmail'[req[p].id] = req[p].email
    BY <1>1, <1>2, <1>6 DEF OwnerLocal, tables
  <2> QED
    BY <1>1, <1>2, <2>1, <2>2, <2>3, OwnerEnds, AbsentAssumption DEF At, Ends
<1> QED
  BY <1>3, <1>4, <1>5, <1>6 DEF LookupRow

LEMMA CheckOwner ==
  ASSUME AccountsInv, OwnerInv, NEW p \in Procs, CheckIndex(p) \/ CheckRow(p)
  PROVE  OwnerInv'
<1>1. /\ pc[p] \in {"checkIndex", "checkRow"} /\ Prepares(p)
      /\ UNCHANGED tables /\ RowStep(p) /\ IndexGrows
  BY DEF CheckIndex, CheckRow, Prepares, RowStep, IndexGrows, tables
<1>2. AccountsTypeOK /\ req[p].email \in Emails /\ ~Persisted(req[p].id) /\ OwnerLocal(p)
  BY <1>1 DEF AccountsInv, Local, OwnerInv
<1>3. CASE Goto(p, "insertUser") /\ UNCHANGED req
  <2>1. At(p, "insertUser", req[p])
    BY <1>2, <1>3, Stays DEF Labels
  <2> QED
    BY <1>1, <2>1, OwnerPrepares DEF At, Prepares
<1>4. CASE /\ index[req[p].email] # NoId
           /\ req' = [req EXCEPT ![p].found = index[req[p].email]]
           /\ Goto(p, "checkRow")
  <2>1. PICK i \in Ids : i = index[req[p].email]
    BY <1>2, <1>4 DEF AccountsTypeOK
  <2>2. /\ Others(p) /\ pc'[p] = "checkRow"
        /\ req'[p].id = req[p].id /\ req'[p].email = req[p].email
    BY <1>2, <1>4, <2>1, LearnsFound DEF Labels
  <2> QED
    BY <1>1, <1>4, <2>2, OwnerPrepares DEF Prepares
<1>5. CASE pc[p] = "checkRow" /\ Taken(p)
  <2>1. CASE Finish(p)
    BY <1>1, <2>1, FinishOwner
  <2>2. CASE Goto(p, "upsert") /\ UNCHANGED req
    <3>1. At(p, "upsert", req[p])
      BY <1>2, <2>2, Stays DEF Labels
    <3>2. \A q \in Procs \ {p} : Prepares(q) => req[p].id # req[q].id
      BY <1>1 DEF AccountsInv, Apart
    <3>3. rowEmail'[req[p].id] = NoEmail /\ index'[req[p].email] # NoId
      BY <1>1, <1>2, <1>5 DEF OwnerLocal, Persisted, tables
    <3> QED
      BY <1>1, <1>2, <3>1, <3>2, <3>3, OwnerEnds DEF At, Ends
  <2> QED
    BY <1>5, <2>1, <2>2 DEF Taken
<1> QED
  BY <1>3, <1>4, <1>5 DEF CheckIndex, CheckRow

LEMMA InsertUserOwner ==
  ASSUME AccountsInv, OwnerInv, NEW p \in Procs, InsertUser(p)
  PROVE  OwnerInv'
<1>1. AccountsTypeOK /\ pc[p] = "insertUser" /\ RowStep(p) /\ IndexGrows
  BY DEF InsertUser, PutRow, RowStep, IndexGrows, AccountsInv
<1>2. CASE Finish(p)
  BY <1>1, <1>2, FinishOwner
<1>3. CASE Goto(p, "insertEmail")
  <2>1. Others(p) /\ pc'[p] = "insertEmail"
    BY <1>1, <1>3, AccountsTypeOK DEF InsertUser, Finish, Goto, Others, AccountsTypeOK
  <2> QED
    BY <1>1, <2>1, OwnerPlain DEF Ends, Prepares
<1> QED
  BY <1>2, <1>3 DEF InsertUser

LEMMA InsertEmailOwner ==
  ASSUME AccountsInv, OwnerInv, NEW p \in Procs, InsertEmail(p)
  PROVE  OwnerInv'
<1> DEFINE r == req[p]
<1>1. /\ pc[p] = "insertEmail" /\ AccountsTypeOK /\ UNCHANGED rowEmail
      /\ r.id \in Ids /\ r.email \in Emails /\ rowEmail[r.id] = r.email
      /\ NoId \notin Ids /\ NoEmail \notin Emails
  BY AbsentAssumption DEF InsertEmail, AccountsInv, Local
<1>2. RowStep(p) /\ IndexGrows
  BY <1>1 DEF InsertEmail, PutIndex, RowStep, IndexGrows, AccountsTypeOK
<1>3. CASE Finish(p)
  BY <1>2, <1>3, FinishOwner
<1>4. CASE Created(p) /\ UNCHANGED req
  <2>1. PICK label \in {"createToken", "upsert"} : Goto(p, label)
    BY <1>4 DEF Created
  <2>2. At(p, label, r)
    BY <1>1, <1>4, <2>1, Stays DEF Labels
  <2>3. CASE label = "createToken"
    BY <1>2, <2>2, <2>3, OwnerPlain DEF At, Ends, Prepares
  <2>4. CASE label = "upsert"
    <3>1. Persisted(r.id) /\ rowEmail'[r.id] = r.email
      BY <1>1 DEF Persisted
    <3>2. \A q \in Procs \ {p} : Prepares(q) => r.id # req[q].id
      BY <3>1 DEF AccountsInv, Local
    <3> QED
      BY <1>1, <1>2, <2>2, <2>4, <3>1, <3>2, OwnerEnds DEF At, Ends
  <2> QED
    BY <2>3, <2>4
<1> QED
  BY <1>3, <1>4 DEF InsertEmail

LEMMA UpsertOwner ==
  ASSUME AccountsInv, OwnerInv, NEW p \in Procs, UpsertIdentity(p)
  PROVE  OwnerInv'
<1>1. /\ pc[p] = "upsert" /\ Ends(p) /\ AccountsTypeOK /\ OwnerLocal(p)
      /\ UNCHANGED tables /\ RowStep(p) /\ IndexGrows
  BY DEF UpsertIdentity, Ends, RowStep, IndexGrows, tables, AccountsInv, OwnerInv
<1>2. At(p, "storeRefresh", req[p])
  BY <1>1, Stays DEF UpsertIdentity, Labels
<1>3. \A q \in Procs \ {p} : Prepares(q) => req[p].id # req[q].id
  BY <1>1 DEF OwnerInv, OwnerApart
<1>4. /\ req[p].email \in Emails
      /\ IF rowEmail'[req[p].id] # NoEmail THEN rowEmail'[req[p].id] = req[p].email
                                           ELSE index'[req[p].email] # NoId
  BY <1>1 DEF OwnerLocal, Persisted, tables
<1> QED
  BY <1>1, <1>2, <1>3, <1>4, OwnerEnds DEF At, Ends

LEMMA OtherOwner ==
  ASSUME AccountsInv, OwnerInv, NEW p \in Procs,
         CreateToken(p) \/ Consume(p) \/ SetEmailVerified(p) \/ StoreRefresh(p)
  PROVE  OwnerInv'
<1>1. AccountsTypeOK /\ RowStep(p) /\ IndexGrows
  BY DEF CreateToken, Consume, SetEmailVerified, StoreRefresh, RowStep, IndexGrows, tables,
         AccountsInv
<1>2. CASE Finish(p)
  BY <1>1, <1>2, FinishOwner
<1>3. CASE Consume(p) /\ Goto(p, "setVerified")
  <2>1. Others(p) /\ pc'[p] = "setVerified"
    BY <1>1, <1>3 DEF Consume, Finish, Goto, Others, AccountsTypeOK
  <2> QED
    BY <1>1, <2>1, OwnerPlain DEF Ends, Prepares
<1> QED
  BY <1>2, <1>3 DEF CreateToken, Consume, SetEmailVerified, StoreRefresh

LEMMA QuietOwner ==
  ASSUME AccountsInv, OwnerInv, UNCHANGED tables,
         UNCHANGED <<pc, req>> \/ \A p \in Procs : pc'[p] = "idle"
  PROVE  OwnerInv'
  BY DEF OwnerInv, OwnerLocal, OwnerApart, Ends, Prepares, Persisted, tables

LEMMA OwnerInvStep == AccountsInv /\ OwnerInv /\ [Next]_vars => OwnerInv'
<1> SUFFICES ASSUME AccountsInv, OwnerInv, [Next]_vars PROVE OwnerInv'
  OBVIOUS
<1>1. ASSUME NEW p \in Procs, Start(p) \/ Step(p) PROVE OwnerInv'
  BY <1>1, StartOwner, LookupIndexOwner, LookupRowOwner, CheckOwner, InsertUserOwner,
     InsertEmailOwner, UpsertOwner, OtherOwner DEF Step, Insert
<1>2. CASE UNCHANGED vars \/ \E t \in Links : ExpireLink(t)
  BY <1>2, QuietOwner DEF vars, tables, ExpireLink
<1>3. CASE Crash
  BY <1>3, QuietOwner DEF Crash
<1> QED
  BY <1>1, <1>2, <1>3 DEF Next

(* A Google login ends in the account of the address Google vouched for;   *)
(* the user that was never written is only signed in where that address    *)
(* has an account.                                                         *)
THEOREM OwnerSignsIn == Spec => []SignsInOwner
<1>1. Init => OwnerInv
  BY DEF Init, OwnerInv, OwnerLocal, OwnerApart, Ends
<1>2. OwnerInv => SignsInOwner
  BY DEF OwnerInv, OwnerLocal, Ends, SignsInOwner
<1> QED
  BY <1>1, <1>2, OwnerInvStep, Invariant, PTL DEF Spec

-----------------------------------------------------------------------------
(* The refinement: verification links are one-time keys. *)

Given == {t \in Links : inbox[t] # NoEmail}
Stored == {t \in Links : inbox[t] # NoEmail /\ linkFor[t] # NoId}
HeldBy(t) == {p \in Procs : pc[p] = "setVerified" /\ req[p].link = t}

(* What an End of OneTimeKeys is, in terms of one link. *)
LEMMA EndStep ==
  ASSUME Given \subseteq Given', Stored' \subseteq Stored,
         \A t \in Links : HeldBy(t)' \in {HeldBy(t), {}}
  PROVE  OneTime!End
<1> DEFINE held == [t \in Links |-> HeldBy(t)]
<1>1. Given' \in SUBSET Links
  BY DEF Given
<1>2. held' \in [Links -> SUBSET Procs]
  BY DEF HeldBy
<1>3. \A t \in Links : held'[t] \in {held[t], {}}
  OBVIOUS
<1> QED
  BY <1>1, <1>2, <1>3 DEF OneTime!End, Given, Stored, HeldBy

(* The holders of every link but p stay. *)
LEMMA HoldersKept ==
  ASSUME NEW p \in Procs, NEW t, Others(p)
  PROVE  HeldBy(t)' \ {p} = HeldBy(t) \ {p}
  BY DEF HeldBy, Others

(* A request that takes no link only ends. *)
LEMMA QuietEnd ==
  ASSUME AccountsInv, NEW p \in Procs, Others(p), pc'[p] # "setVerified",
         Given \subseteq Given', Stored' \subseteq Stored
  PROVE  OneTime!End
<1>1. ASSUME NEW t \in Links PROVE HeldBy(t)' \in {HeldBy(t), {}}
  <2>1. HeldBy(t)' \ {p} = HeldBy(t) \ {p} /\ p \notin HeldBy(t)'
    BY HoldersKept DEF HeldBy
  <2>2. p \in HeldBy(t) => HeldBy(t) = {p}
    BY DEF AccountsInv, Apart, HeldBy
  <2> QED
    BY <2>1, <2>2
<1> QED
  BY <1>1, EndStep

(* Every step of a request but those about links. *)
LEMMA OtherStep ==
  ASSUME AccountsInv, NEW p \in Procs,
         \/ Start(p) \/ LookupIndex(p) \/ LookupRow(p) \/ CheckIndex(p)
         \/ CheckRow(p) \/ Insert(p) \/ SetEmailVerified(p)
         \/ UpsertIdentity(p) \/ StoreRefresh(p)
  PROVE  OneTime!End
<1>1. AccountsTypeOK
  BY DEF AccountsInv
<1>2. UNCHANGED links
  BY DEF Start, StartRegister, StartResend, StartCallback, StartVerify, LookupIndex,
         LookupRow, CheckIndex, CheckRow, Insert, InsertUser, InsertEmail,
         SetEmailVerified, UpsertIdentity, StoreRefresh
<1>3. /\ \E label \in Labels \ {"setVerified"} : Goto(p, label)
      /\ \/ UNCHANGED req
         \/ \E r : req' = [req EXCEPT ![p] = r]
  <2>1. CASE Finish(p)
    BY <2>1 DEF Finish, Labels
  <2>2. CASE Start(p)
    BY <2>2 DEF Start, StartRegister, StartResend, StartCallback, StartVerify, Begin,
                Labels
  <2>3. CASE NotFound(p)
    BY <2>1, <2>3 DEF NotFound, Labels
  <2>4. CASE LookupIndex(p) \/ LookupRow(p)
    BY <2>1, <2>3, <2>4 DEF LookupIndex, LookupRow, Labels
  <2>5. CASE CheckIndex(p) \/ CheckRow(p)
    BY <2>1, <2>5 DEF CheckIndex, CheckRow, Taken, Labels
  <2>6. CASE Insert(p)
    BY <2>1, <2>6 DEF Insert, InsertUser, InsertEmail, Created, Labels
  <2>7. CASE SetEmailVerified(p) \/ UpsertIdentity(p) \/ StoreRefresh(p)
    BY <2>1, <2>7 DEF SetEmailVerified, UpsertIdentity, StoreRefresh, Labels
  <2> QED
    BY <2>2, <2>4, <2>5, <2>6, <2>7
<1>4. Others(p) /\ pc'[p] # "setVerified"
  BY <1>1, <1>3 DEF AccountsTypeOK, Goto, Others
<1>5. Given' = Given /\ Stored' = Stored
  BY <1>2 DEF Given, Stored, links
<1> QED
  BY <1>4, <1>5, QuietEnd

(* A link that is mailed is handed out; one whose mail is lost is not. *)
LEMMA IssueStep ==
  ASSUME AccountsInv, NEW p \in Procs, CreateToken(p)
  PROVE  OneTime!Next
<1> DEFINE r == req[p]
<1>1. AccountsTypeOK /\ pc[p] = "createToken" /\ Finish(p)
  BY DEF CreateToken, AccountsInv
<1>2. r.id \in Ids /\ r.email \in Emails /\ NoId \notin Ids /\ NoEmail \notin Emails
  BY <1>1, AbsentAssumption DEF AccountsInv, Local
<1>3. Others(p) /\ pc'[p] = "idle"
  BY <1>1, Finishes DEF At
<1>4. CASE UNCHANGED links
  <2>1. Given' = Given /\ Stored' = Stored
    BY <1>4 DEF Given, Stored, links
  <2> QED
    BY <1>3, <2>1, QuietEnd DEF OneTime!Next
<1>5. CASE \E t \in Links :
             /\ linkFor[t] = NoId /\ inbox[t] = NoEmail
             /\ linkFor' = [linkFor EXCEPT ![t] = r.id]
             /\ \/ inbox' = [inbox EXCEPT ![t] = r.email]
                \/ UNCHANGED inbox
  <2>1. PICK t \in Links :
             /\ linkFor[t] = NoId /\ inbox[t] = NoEmail
             /\ linkFor' = [linkFor EXCEPT ![t] = r.id]
             /\ \/ inbox' = [inbox EXCEPT ![t] = r.email]
                \/ UNCHANGED inbox
    BY <1>5
  <2>2. linkFor'[t] = r.id /\ \A l \in Links \ {t} : linkFor'[l] = linkFor[l]
    BY <1>1, <2>1 DEF AccountsTypeOK
  <2>3. CASE UNCHANGED inbox
    <3>1. Given' = Given /\ Stored' = Stored
      BY <2>1, <2>2, <2>3 DEF Given, Stored
    <3> QED
      BY <1>3, <3>1, QuietEnd DEF OneTime!Next
  <2>4. CASE inbox' = [inbox EXCEPT ![t] = r.email]
    <3>1. inbox'[t] = r.email /\ \A l \in Links \ {t} : inbox'[l] = inbox[l]
      BY <1>1, <2>1, <2>4 DEF AccountsTypeOK
    <3>2. t \notin Given /\ Given' = Given \cup {t}
      BY <1>2, <2>1, <3>1 DEF Given
    <3>3. Stored' = Stored \cup {t}
      BY <1>2, <2>1, <2>2, <3>1 DEF Stored
    <3>4. \A l \in Links : p \notin HeldBy(l) /\ p \notin HeldBy(l)'
      BY <1>1, <1>3 DEF HeldBy
    <3>5. \A l \in Links : HeldBy(l)' \ {p} = HeldBy(l) \ {p}
      BY <1>3, HoldersKept
    <3>6. \A l \in Links : HeldBy(l)' = HeldBy(l)
      BY <3>4, <3>5
    <3>7. OneTime!Issue(t)
      BY <3>2, <3>3, <3>6 DEF OneTime!Issue, Given, Stored, HeldBy
    <3> QED
      BY <3>7 DEF OneTime!Next
  <2> QED
    BY <2>1, <2>3, <2>4
<1> QED
  BY <1>4, <1>5 DEF CreateToken

LEMMA TakeLink ==
  ASSUME AccountsInv, NEW p \in Procs, NEW t \in Links, inbox[t] # NoEmail,
         linkFor[t] # NoId, linkFor' = [linkFor EXCEPT ![t] = NoId],
         UNCHANGED inbox, pc[p] = "consume", pc'[p] = "setVerified",
         req'[p].link = t, Others(p)
  PROVE  OneTime!Take(t, p)
<1> DEFINE held == [l \in Links |-> HeldBy(l)]
<1>1. linkFor'[t] = NoId /\ \A l \in Links \ {t} : linkFor'[l] = linkFor[l]
  BY DEF AccountsInv, AccountsTypeOK
<1>2. t \in Stored /\ Stored' = Stored \ {t} /\ Given' = Given
  BY <1>1 DEF Stored, Given
<1>3. ASSUME NEW l \in Links PROVE HeldBy(l)' = IF l = t THEN {p} ELSE HeldBy(l)
  <2>1. p \notin HeldBy(l) /\ (p \in HeldBy(l)' <=> l = t)
    BY DEF HeldBy
  <2>2. l = t => HeldBy(l) = {}
    BY DEF AccountsInv, Local, HeldBy
  <2>3. HeldBy(l)' \ {p} = HeldBy(l) \ {p}
    BY HoldersKept
  <2>4. CASE l = t
    BY <2>1, <2>2, <2>3, <2>4
  <2>5. CASE l # t
    BY <2>1, <2>3, <2>5
  <2> QED
    BY <2>4, <2>5
<1>4. held' = [held EXCEPT ![t] = {p}]
  <2>1. held' = [l \in Links |-> HeldBy(l)']
    OBVIOUS
  <2>2. [held EXCEPT ![t] = {p}] = [l \in Links |-> IF l = t THEN {p} ELSE HeldBy(l)]
    OBVIOUS
  <2> QED
    BY <1>3, <2>1, <2>2
<1> QED
  BY <1>2, <1>4 DEF OneTime!Take, Given, Stored, HeldBy

LEMMA TakeStep ==
  ASSUME AccountsInv, NEW p \in Procs, Consume(p)
  PROVE  OneTime!Next
<1> DEFINE t == req[p].link
<1>1. /\ pc[p] = "consume" /\ UNCHANGED inbox
      /\ linkFor' = [linkFor EXCEPT ![t] = NoId] \/ UNCHANGED linkFor
  BY DEF Consume
<1>2. AccountsTypeOK /\ t \in Links /\ inbox[t] # NoEmail
  BY <1>1 DEF AccountsInv, Local
<1>3. CASE Finish(p)
  <2>1. Others(p) /\ pc'[p] = "idle"
    BY <1>2, <1>3, Finishes DEF At
  <2>2. Given' = Given /\ Stored' \subseteq Stored
    BY <1>1, <1>2 DEF Given, Stored, AccountsTypeOK
  <2> QED
    BY <2>1, <2>2, QuietEnd DEF OneTime!Next
<1>4. CASE /\ linkFor[t] # NoId
           /\ linkFor' = [linkFor EXCEPT ![t] = NoId]
           /\ req' = [req EXCEPT ![p].id = linkFor[t]]
           /\ Goto(p, "setVerified")
  <2>1. linkFor[t] \in Ids /\ "setVerified" \in Labels
    BY <1>2, <1>4 DEF AccountsTypeOK, Labels
  <2>2. PICK i \in Ids : i = linkFor[t]
    BY <2>1
  <2>3. Others(p) /\ pc'[p] = "setVerified" /\ req'[p].link = t
    BY <1>2, <1>4, <2>1, <2>2, LearnsId
  <2>4. PICK l \in Links : l = t
    BY <1>2
  <2>5. OneTime!Take(l, p)
    BY <1>1, <1>2, <1>4, <2>3, <2>4, TakeLink
  <2> QED
    BY <2>5 DEF OneTime!Next
<1> QED
  BY <1>3, <1>4 DEF Consume

LEMMA EnvironmentStep ==
  ASSUME AccountsInv, Crash \/ \E t \in Links : ExpireLink(t)
  PROVE  OneTime!End
<1>1. CASE Crash
  <2>1. Given' = Given /\ Stored' = Stored /\ \A t \in Links : HeldBy(t)' = {}
    BY <1>1 DEF Crash, Given, Stored, HeldBy, links
  <2> QED
    BY <2>1, EndStep
<1>2. CASE \E t \in Links : ExpireLink(t)
  <2>1. Given' = Given /\ \A t \in Links : HeldBy(t)' = HeldBy(t)
    BY <1>2 DEF ExpireLink, Given, HeldBy
  <2>2. Stored' \subseteq Stored
    BY <1>2 DEF AccountsInv, AccountsTypeOK, ExpireLink, Stored
  <2> QED
    BY <2>1, <2>2, EndStep
<1> QED
  BY <1>1, <1>2

LEMMA OneTimeInit == Init => OneTime!Init
<1> SUFFICES ASSUME Init PROVE OneTime!Init
  OBVIOUS
<1>1. Given = {} /\ Stored = {} /\ \A t \in Links : HeldBy(t) = {}
  BY DEF Init, Given, Stored, HeldBy
<1> QED
  BY <1>1 DEF OneTime!Init, Given, Stored, HeldBy

LEMMA OneTimeStep == AccountsInv /\ [Next]_vars => [OneTime!Next]_(OneTime!vars)
<1> SUFFICES ASSUME AccountsInv, [Next]_vars PROVE [OneTime!Next]_(OneTime!vars)
  OBVIOUS
<1>1. ASSUME NEW p \in Procs, Start(p) \/ Step(p) PROVE OneTime!Next
  BY <1>1, OtherStep, IssueStep, TakeStep DEF Step, OneTime!Next
<1>2. ASSUME Crash \/ \E t \in Links : ExpireLink(t) PROVE OneTime!Next
  BY <1>2, EnvironmentStep DEF OneTime!Next
<1>3. CASE UNCHANGED vars
  BY <1>3 DEF vars, OneTime!vars
<1> QED
  BY <1>1, <1>2, <1>3 DEF Next

(* Verification links implement OneTimeKeys. *)
THEOREM LinksOneTime == Spec => LinksAreOneTime
  BY Invariant, OneTimeInit, OneTimeStep, PTL DEF Spec, LinksAreOneTime, OneTime!Spec

=============================================================================
