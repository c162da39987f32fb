---------------------- MODULE AuthorizationCodesProofs ----------------------
(* Theorems about module AuthorizationCodes, for any sets of users, clients *)
(* and codes, any registered redirect URIs and any requests, with or        *)
(* without failures.                                                        *)
EXTENDS AuthorizationCodes, TLAPS

AskLabels == {"hasConsent", "storeConsent", "issueAuthCode"}

(* The rights of a request that has taken code c: nobody else can have it.  *)
Taken(c) == store[c] = NoGrant /\ answers[c] = 0
StaysTaken(c) == store'[c] = NoGrant /\ answers'[c] = 0

(* The locals of a request are set when the label it is at needs them, the  *)
(* scopes it asks for have been shown when it may issue a code, and it      *)
(* answers only for what its code was issued for.                           *)
Local(p) ==
  /\ pc[p] \in AskLabels => req[p].grant \in Grants
  /\ pc[p] \in {"storeConsent", "issueAuthCode"} =>
       req[p].grant.scopes \subseteq shown[Key(req[p].grant)]
  /\ pc[p] \in {"getDel", "findUser"} =>
       req[p].code \in Codes /\ origin[req[p].code] # NoGrant
  /\ pc[p] = "findUser" =>
       /\ Taken(req[p].code)
       /\ req[p].grant = origin[req[p].code]
       /\ Accepts(req[p], origin[req[p].code])

(* A code is stored as it was issued, and answered after it was taken. *)
CodeOK(c) ==
  /\ store[c] \in {NoGrant, origin[c]}
  /\ store[c] # NoGrant \/ origin[c] = NoGrant => answers[c] = 0
  /\ answers[c] <= 1
  /\ origin[c] # NoGrant => origin[c].scopes \subseteq shown[Key(origin[c])]

TakenOnce ==
  \A p, q \in Procs :
    pc[p] = "findUser" /\ pc[q] = "findUser" /\ req[p].code = req[q].code => p = q

ConsentShown ==
  \A k \in Users \X Clients : consents[k] # NoConsent => consents[k] \subseteq shown[k]

CodesInv ==
  /\ CodesTypeOK
  /\ \A p \in Procs : Local(p)
  /\ \A c \in Codes : CodeOK(c)
  /\ TakenOnce
  /\ ConsentShown

-----------------------------------------------------------------------------

LEMMA NoRequestType == NoRequest \in Requests
  BY NonEmptyAssumption DEF NoRequest, Requests

LEMMA KeyType == \A g \in Grants : Key(g) \in Users \X Clients
  BY DEF Grants, Key

LEMMA InitInv == Init => CodesInv
<1> SUFFICES ASSUME Init PROVE CodesInv
  OBVIOUS
<1>1. CodesTypeOK
  BY NoRequestType DEF Init, CodesTypeOK, Labels
<1> QED
  BY <1>1 DEF Init, CodesInv, Local, CodeOK, TakenOnce, ConsentShown, AskLabels

(* One request goes to a label with new locals; the others stay. *)
LEMMA Moves ==
  ASSUME CodesTypeOK, NEW p \in Procs, NEW r \in Requests, NEW label \in Labels,
         Goto(p, label), req' = [req EXCEPT ![p] = r]
  PROVE  /\ pc' \in [Procs -> Labels] /\ req' \in [Procs -> Requests]
         /\ pc'[p] = label /\ req'[p] = r
         /\ \A q \in Procs \ {p} : pc'[q] = pc[q] /\ req'[q] = req[q]
  BY DEF CodesTypeOK, Goto

LEMMA Stays ==
  ASSUME CodesTypeOK, NEW p \in Procs, NEW label \in Labels, Continue(p, label)
  PROVE  Goto(p, label) /\ req[p] \in Requests /\ req' = [req EXCEPT ![p] = req[p]]
  BY DEF CodesTypeOK, Continue

LEMMA Finishes ==
  ASSUME CodesTypeOK, NEW p \in Procs, Finish(p)
  PROVE  /\ pc' \in [Procs -> Labels] /\ req' \in [Procs -> Requests]
         /\ pc'[p] = "idle" /\ req'[p] = NoRequest
         /\ \A q \in Procs \ {p} : pc'[q] = pc[q] /\ req'[q] = req[q]
<1>1. "idle" \in Labels
  BY DEF Labels
<1> QED
  BY <1>1, NoRequestType, Moves DEF Finish

(* A request that does not move keeps its locals: what has been shown only *)
(* grows, what a code was issued for never changes.                        *)
Grows ==
  /\ \A k \in Users \X Clients : shown[k] \subseteq shown'[k]
  /\ \A c \in Codes : origin[c] # NoGrant => origin'[c] = origin[c]

LEMMA LocalKept ==
  ASSUME CodesInv, Grows, NEW q \in Procs, pc'[q] = pc[q], req'[q] = req[q],
         pc[q] = "findUser" => StaysTaken(req[q].code)
  PROVE  Local(q)'
<1>1. Local(q)
  BY DEF CodesInv
<1>2. req[q].grant \in Grants => Key(req[q].grant) \in Users \X Clients
  BY KeyType
<1>3. Key(req'[q].grant) = Key(req[q].grant)
  BY DEF Key
<1>4. pc[q] \in AskLabels => req'[q].grant \in Grants
  BY <1>1 DEF Local
<1>5. pc[q] \in {"storeConsent", "issueAuthCode"} =>
        req[q].grant.scopes \subseteq shown'[Key(req[q].grant)]
  BY <1>1, <1>2 DEF Local, AskLabels, Grows
<1>6. pc[q] \in {"getDel", "findUser"} =>
        req[q].code \in Codes /\ origin'[req[q].code] = origin[req[q].code]
  BY <1>1 DEF Local, Grows
<1> QED
  BY <1>1, <1>3, <1>4, <1>5, <1>6 DEF Local, Taken, StaysTaken

(* What a step of p has to show: that its own locals are right, the codes  *)
(* too, and that it takes no code away from another request.               *)
LEMMA OneMoves ==
  ASSUME CodesInv, Grows, NEW p \in Procs, CodesTypeOK', ConsentShown', Local(p)',
         \A c \in Codes : CodeOK(c)',
         \A q \in Procs \ {p} : pc'[q] = pc[q] /\ req'[q] = req[q],
         \A q \in Procs \ {p} : pc[q] = "findUser" =>
           /\ StaysTaken(req[q].code)
           /\ pc'[p] = "findUser" => req[q].code # req'[p].code
  PROVE  CodesInv'
<1>1. \A q \in Procs : Local(q)'
  <2>1. ASSUME NEW q \in Procs \ {p} PROVE Local(q)'
    BY LocalKept
  <2> QED
    BY <2>1
<1>2. TakenOnce'
  BY DEF CodesInv, TakenOnce
<1> QED
  BY <1>1, <1>2 DEF CodesInv

(* The steps that leave the codes alone. *)
LEMMA QuietStep ==
  ASSUME CodesInv, Grows, NEW p \in Procs, UNCHANGED <<store, origin, answers>>,
         pc' \in [Procs -> Labels], req' \in [Procs -> Requests],
         shown' \in [Users \X Clients -> SUBSET Scopes],
         consents' \in [Users \X Clients -> {NoConsent} \cup (SUBSET Scopes)],
         ConsentShown', Local(p)', pc'[p] # "findUser",
         \A q \in Procs \ {p} : pc'[q] = pc[q] /\ req'[q] = req[q]
  PROVE  CodesInv'
<1>1. CodesTypeOK'
  BY DEF CodesInv, CodesTypeOK
<1>2. ASSUME NEW c \in Codes PROVE CodeOK(c)'
  <2>1. CodeOK(c) /\ origin[c] \in Grants \cup {NoGrant}
    BY DEF CodesInv, CodesTypeOK
  <2>2. origin[c] # NoGrant => Key(origin[c]) \in Users \X Clients
    BY <2>1, KeyType
  <2> QED
    BY <2>1, <2>2 DEF CodeOK, Grows, Key
<1>3. ASSUME NEW q \in Procs \ {p}, pc[q] = "findUser" PROVE StaysTaken(req[q].code)
  BY <1>3 DEF CodesInv, Local, Taken, StaysTaken
<1> QED
  BY <1>1, <1>2, <1>3, OneMoves

(* A request that has finished needs nothing of its locals. *)
LEMMA IdleLocal == ASSUME NEW p, pc'[p] = "idle" PROVE Local(p)'
  BY DEF Local, AskLabels

-----------------------------------------------------------------------------
(* Authorize and Consent. *)

LEMMA StartAuthorizeInv ==
  ASSUME CodesInv, NEW p \in Procs, StartAuthorize(p)
  PROVE  CodesInv'
<1>1. PICK g \in Asked :
        /\ Goto(p, "hasConsent")
        /\ req' = [req EXCEPT ![p] = [NoRequest EXCEPT !.grant = g]]
  BY DEF StartAuthorize, Begin
<1>2. g \in Grants
  BY AskedAssumption
<1>3. [NoRequest EXCEPT !.grant = g] \in Requests /\ "hasConsent" \in Labels
  BY <1>2, NoRequestType DEF Requests, Labels
<1>4. UNCHANGED <<tables, history>>
  BY DEF StartAuthorize
<1>5. [NoRequest EXCEPT !.grant = g].grant = g
  BY DEF NoRequest
<1>6. CodesTypeOK
  BY DEF CodesInv
<1>7. /\ pc' \in [Procs -> Labels] /\ req' \in [Procs -> Requests]
      /\ pc'[p] = "hasConsent" /\ req'[p].grant = g
      /\ \A q \in Procs \ {p} : pc'[q] = pc[q] /\ req'[q] = req[q]
  BY <1>1, <1>3, <1>5, <1>6, Moves
<1>8. Local(p)'
  BY <1>2, <1>7 DEF Local
<1>9. Grows /\ ConsentShown'
  BY <1>4 DEF Grows, CodesInv, ConsentShown, tables, history
<1> QED
  BY <1>4, <1>6, <1>7, <1>8, <1>9, QuietStep DEF tables, history, CodesTypeOK

LEMMA HasConsentInv ==
  ASSUME CodesInv, NEW p \in Procs, HasConsent(p)
  PROVE  CodesInv'
<1> DEFINE g == req[p].grant
<1>1. UNCHANGED <<tables, history>>
  BY DEF HasConsent
<1>2. CodesTypeOK /\ Local(p)
  BY DEF CodesInv
<1>3. Grows /\ ConsentShown'
  BY <1>1 DEF Grows, CodesInv, ConsentShown, tables, history
<1>4. CASE Finish(p)
  BY <1>1, <1>2, <1>3, <1>4, Finishes, IdleLocal, QuietStep
     DEF tables, history, CodesTypeOK
<1>5. CASE /\ consents[Key(g)] # NoConsent
           /\ g.scopes \subseteq consents[Key(g)]
           /\ Continue(p, "issueAuthCode")
  <2>1. g \in Grants /\ Key(g) \in Users \X Clients
    BY <1>2, KeyType DEF HasConsent, Local, AskLabels
  <2>2. g.scopes \subseteq shown[Key(g)]
    BY <1>5, <2>1 DEF CodesInv, ConsentShown
  <2>3. "issueAuthCode" \in Labels
    BY DEF Labels
  <2>4. /\ pc' \in [Procs -> Labels] /\ req' \in [Procs -> Requests]
        /\ pc'[p] = "issueAuthCode" /\ req'[p] = req[p]
        /\ \A q \in Procs \ {p} : pc'[q] = pc[q] /\ req'[q] = req[q]
    BY <1>2, <1>5, <2>3, Stays, Moves
  <2>5. Local(p)'
    BY <1>1, <2>1, <2>2, <2>4 DEF Local, history, Key
  <2> QED
    BY <1>1, <1>2, <1>3, <2>4, <2>5, QuietStep DEF tables, history, CodesTypeOK
<1> QED
  BY <1>4, <1>5 DEF HasConsent

LEMMA StartConsentInv ==
  ASSUME CodesInv, NEW p \in Procs, StartConsent(p)
  PROVE  CodesInv'
<1>1. PICK g \in Asked :
        /\ Goto(p, "storeConsent")
        /\ req' = [req EXCEPT ![p] = [NoRequest EXCEPT !.grant = g]]
        /\ shown' = [shown EXCEPT ![Key(g)] = @ \cup g.scopes]
  BY DEF StartConsent, Begin
<1> DEFINE r == [NoRequest EXCEPT !.grant = g]
<1>2. g \in Grants /\ g.scopes \subseteq Scopes
  BY AskedAssumption DEF Grants
<1>3. r \in Requests /\ "storeConsent" \in Labels /\ r.grant = g
  BY <1>2, NoRequestType DEF Requests, Labels
<1>4. UNCHANGED <<tables, origin, answers>> /\ CodesTypeOK
  BY DEF StartConsent, CodesInv
<1>5. /\ pc' \in [Procs -> Labels] /\ req' \in [Procs -> Requests]
      /\ pc'[p] = "storeConsent" /\ req'[p] = r
      /\ \A q \in Procs \ {p} : pc'[q] = pc[q] /\ req'[q] = req[q]
  BY <1>1, <1>3, <1>4, Moves
<1>6. Key(g) \in Users \X Clients
  BY <1>2, KeyType
<1>7. /\ shown' \in [Users \X Clients -> SUBSET Scopes]
      /\ g.scopes \subseteq shown'[Key(g)]
      /\ \A k \in Users \X Clients : shown[k] \subseteq shown'[k]
  BY <1>1, <1>2, <1>4, <1>6 DEF CodesTypeOK
<1>8. Local(p)'
  BY <1>2, <1>3, <1>5, <1>7 DEF Local, Key
<1>9. Grows /\ ConsentShown'
  BY <1>4, <1>7 DEF Grows, CodesInv, ConsentShown, tables
<1> QED
  BY <1>4, <1>5, <1>7, <1>8, <1>9, QuietStep DEF tables, CodesTypeOK

LEMMA StoreConsentInv ==
  ASSUME CodesInv, NEW p \in Procs, StoreConsent(p)
  PROVE  CodesInv'
<1> DEFINE g == req[p].grant
           put == consents' = [consents EXCEPT ![Key(g)] = g.scopes]
<1>1. UNCHANGED <<store, history>> /\ CodesTypeOK /\ Local(p)
  BY DEF StoreConsent, CodesInv
<1>2. g \in Grants /\ g.scopes \subseteq shown[Key(g)] /\ g.scopes \subseteq Scopes
  BY <1>1 DEF StoreConsent, Local, AskLabels, Grants
<1>3. Key(g) \in Users \X Clients
  BY <1>2, KeyType
<1>4. put \/ UNCHANGED consents
  BY DEF StoreConsent
<1>5. /\ consents' \in [Users \X Clients -> {NoConsent} \cup (SUBSET Scopes)]
      /\ ConsentShown'
  BY <1>1, <1>2, <1>3, <1>4 DEF CodesTypeOK, CodesInv, ConsentShown, history
<1>6. Grows
  BY <1>1 DEF Grows, history
<1>7. CASE Finish(p)
  BY <1>1, <1>5, <1>6, <1>7, Finishes, IdleLocal, QuietStep DEF history, CodesTypeOK
<1>8. CASE Continue(p, "issueAuthCode")
  <2>1. "issueAuthCode" \in Labels
    BY DEF Labels
  <2>2. /\ pc' \in [Procs -> Labels] /\ req' \in [Procs -> Requests]
        /\ pc'[p] = "issueAuthCode" /\ req'[p] = req[p]
        /\ \A q \in Procs \ {p} : pc'[q] = pc[q] /\ req'[q] = req[q]
    BY <1>1, <1>8, <2>1, Stays, Moves
  <2>3. Local(p)'
    BY <1>1, <1>2, <2>2 DEF Local, history, Key
  <2> QED
    BY <1>1, <1>5, <1>6, <2>2, <2>3, QuietStep DEF history, CodesTypeOK
<1> QED
  BY <1>7, <1>8 DEF StoreConsent, Fail

LEMMA IssueAuthCodeInv ==
  ASSUME CodesInv, NEW p \in Procs, IssueAuthCode(p)
  PROVE  CodesInv'
<1> DEFINE g == req[p].grant
<1>1. UNCHANGED <<consents, shown, answers>> /\ CodesTypeOK /\ Local(p)
  BY DEF IssueAuthCode, CodesInv
<1>2. /\ pc' \in [Procs -> Labels] /\ req' \in [Procs -> Requests]
      /\ pc'[p] = "idle"
      /\ \A q \in Procs \ {p} : pc'[q] = pc[q] /\ req'[q] = req[q]
  BY <1>1, Finishes DEF IssueAuthCode
<1>3. ConsentShown' /\ Local(p)'
  BY <1>1, <1>2, IdleLocal DEF CodesInv, ConsentShown
<1>4. CASE UNCHANGED <<store, origin>>
  BY <1>1, <1>2, <1>3, <1>4, QuietStep DEF CodesTypeOK, Grows
<1>5. CASE \E c \in Codes : /\ origin[c] = NoGrant
                            /\ store' = [store EXCEPT ![c] = g]
                            /\ origin' = [origin EXCEPT ![c] = g]
  <2>1. PICK c \in Codes : /\ origin[c] = NoGrant
                           /\ store' = [store EXCEPT ![c] = g]
                           /\ origin' = [origin EXCEPT ![c] = g]
    BY <1>5
  <2>2. g \in Grants /\ g.scopes \subseteq shown[Key(g)]
    BY <1>1 DEF IssueAuthCode, Local, AskLabels
  <2>3. CodesTypeOK' /\ Grows
    BY <1>1, <1>2, <2>1, <2>2 DEF CodesTypeOK, Grows
  <2>4. ASSUME NEW d \in Codes PROVE CodeOK(d)'
    <3>1. CodeOK(d)
      BY DEF CodesInv
    <3>2. CASE d = c
      BY <1>1, <2>1, <2>2, <3>1, <3>2 DEF CodeOK, CodesTypeOK, Key
    <3>3. CASE d # c
      BY <1>1, <2>1, <3>1, <3>3 DEF CodeOK, CodesTypeOK, Key
    <3> QED
      BY <3>2, <3>3
  <2>5. ASSUME NEW q \in Procs \ {p}, pc[q] = "findUser" PROVE StaysTaken(req[q].code)
    <3>1. req[q].code \in Codes /\ req[q].code # c /\ Taken(req[q].code)
      BY <2>1, <2>5 DEF CodesInv, Local
    <3>2. \A d \in Codes \ {c} : store'[d] = store[d] /\ answers'[d] = answers[d]
      BY <1>1, <2>1 DEF CodesTypeOK
    <3> QED
      BY <3>1, <3>2 DEF Taken, StaysTaken
  <2> QED
    BY <1>2, <1>3, <2>3, <2>4, <2>5, OneMoves
<1> QED
  BY <1>4, <1>5 DEF IssueAuthCode

-----------------------------------------------------------------------------
(* Token. *)

LEMMA StartTokenInv ==
  ASSUME CodesInv, NEW p \in Procs, StartToken(p)
  PROVE  CodesInv'
<1>1. PICK c \in {c \in Codes : origin[c] # NoGrant}, a \in Clients, u \in URIs,
           v \in Verifiers \cup {NoVerifier} :
        Begin(p, [NoRequest EXCEPT !.code = c, !.client = a, !.uri = u,
                                   !.verifier = v], "getDel")
  BY DEF StartToken
<1> DEFINE r == [NoRequest EXCEPT !.code = c, !.client = a, !.uri = u, !.verifier = v]
<1>2. r \in Requests /\ "getDel" \in Labels /\ r.code = c
  BY NoRequestType DEF Requests, Labels
<1>3. UNCHANGED <<tables, history>> /\ CodesTypeOK
  BY DEF StartToken, CodesInv
<1>4. /\ pc' \in [Procs -> Labels] /\ req' \in [Procs -> Requests]
      /\ pc'[p] = "getDel" /\ req'[p] = r
      /\ \A q \in Procs \ {p} : pc'[q] = pc[q] /\ req'[q] = req[q]
  <2>1. Goto(p, "getDel") /\ req' = [req EXCEPT ![p] = r]
    BY <1>1 DEF Begin
  <2> QED
    BY <1>2, <1>3, <2>1, Moves
<1>5. Local(p)'
  BY <1>2, <1>3, <1>4 DEF Local, AskLabels, history
<1>6. Grows /\ ConsentShown'
  BY <1>3 DEF Grows, CodesInv, ConsentShown, tables, history
<1> QED
  BY <1>3, <1>4, <1>5, <1>6, QuietStep DEF tables, history, CodesTypeOK

(* A code that is taken or runs out was held by nobody. *)
LEMMA GoneCode ==
  ASSUME CodesInv, NEW c \in Codes, UNCHANGED <<origin, answers, shown>>,
         store' \in {store, [store EXCEPT ![c] = NoGrant]}
  PROVE  /\ store' \in [Codes -> Grants \cup {NoGrant}]
         /\ \A d \in Codes : CodeOK(d)'
         /\ \A q \in Procs : pc[q] = "findUser" => StaysTaken(req[q].code)
<1>1. CodesTypeOK
  BY DEF CodesInv
<1>2. store' \in [Codes -> Grants \cup {NoGrant}]
  BY <1>1 DEF CodesTypeOK
<1>3. \A d \in Codes : store'[d] \in {store[d], NoGrant}
  BY <1>1 DEF CodesTypeOK
<1>4. ASSUME NEW d \in Codes PROVE CodeOK(d)'
  <2>1. CodeOK(d)
    BY DEF CodesInv
  <2> QED
    BY <1>3, <2>1 DEF CodeOK, Key
<1>5. ASSUME NEW q \in Procs, pc[q] = "findUser" PROVE StaysTaken(req[q].code)
  <2>1. req[q].code \in Codes /\ Taken(req[q].code)
    BY <1>5 DEF CodesInv, Local
  <2> QED
    BY <1>3, <2>1 DEF Taken, StaysTaken
<1> QED
  BY <1>2, <1>4, <1>5

LEMMA GetDelInv ==
  ASSUME CodesInv, NEW p \in Procs, GetDel(p)
  PROVE  CodesInv'
<1> DEFINE c == req[p].code
           consume == store' = [store EXCEPT ![c] = NoGrant]
<1>1. pc[p] = "getDel" /\ UNCHANGED <<consents, history>>
  BY DEF GetDel
<1>2. CodesTypeOK /\ Local(p)
  BY DEF CodesInv
<1>3. c \in Codes /\ origin[c] # NoGrant
  BY <1>1, <1>2 DEF Local
<1>4. Grows /\ ConsentShown'
  BY <1>1 DEF Grows, CodesInv, ConsentShown, history
<1>5. consume \/ UNCHANGED store
  BY DEF GetDel
<1>6. /\ store' \in [Codes -> Grants \cup {NoGrant}]
      /\ \A d \in Codes : CodeOK(d)'
      /\ \A q \in Procs : pc[q] = "findUser" => StaysTaken(req[q].code)
  BY <1>1, <1>3, <1>5, GoneCode DEF history
<1>7. CASE Finish(p)
  <2>1. CodesTypeOK'
    BY <1>1, <1>2, <1>6, <1>7, Finishes DEF CodesTypeOK, history
  <2> QED
    BY <1>2, <1>4, <1>6, <1>7, <2>1, Finishes, IdleLocal, OneMoves
<1>8. CASE /\ store[c] # NoGrant /\ Accepts(req[p], store[c])
           /\ consume
           /\ req' = [req EXCEPT ![p].grant = store[c]]
           /\ Goto(p, "findUser")
  <2> DEFINE r == [req[p] EXCEPT !.grant = store[c]]
  <2>1. store[c] \in Grants /\ store[c] = origin[c] /\ answers[c] = 0
    BY <1>2, <1>3, <1>8 DEF CodesInv, CodeOK, CodesTypeOK
  <2>2. req' = [req EXCEPT ![p] = r]
    BY <1>8
  <2>3. req[p] \in Requests
    BY <1>2 DEF CodesTypeOK
  <2>4. r \in Requests /\ "findUser" \in Labels /\ r.code = c /\ r.grant = store[c]
        /\ r.client = req[p].client /\ r.uri = req[p].uri
        /\ r.verifier = req[p].verifier
    BY <2>1, <2>3 DEF Requests, Labels
  <2>5. /\ pc' \in [Procs -> Labels] /\ req' \in [Procs -> Requests]
        /\ pc'[p] = "findUser" /\ req'[p] = r
        /\ \A q \in Procs \ {p} : pc'[q] = pc[q] /\ req'[q] = req[q]
    BY <1>2, <1>8, <2>2, <2>4, Moves
  <2>6. CodesTypeOK'
    BY <1>1, <1>2, <1>6, <2>5 DEF CodesTypeOK, history
  <2>7. StaysTaken(c)
    BY <1>1, <1>2, <1>3, <1>8, <2>1 DEF Taken, StaysTaken, CodesTypeOK, history
  <2>8. Accepts(r, origin[c])
    BY <1>8, <2>1, <2>4 DEF Accepts
  <2>9. Local(p)'
    BY <1>1, <1>3, <2>1, <2>4, <2>5, <2>7, <2>8
       DEF Local, AskLabels, history, Taken, StaysTaken
  <2>10. ASSUME NEW q \in Procs \ {p}, pc[q] = "findUser" PROVE req[q].code # c
    BY <1>8, <2>10 DEF CodesInv, Local, Taken, StaysTaken
  <2>11. req'[p].code = c
    BY <2>4, <2>5
  <2>12. ASSUME NEW q \in Procs \ {p}, pc[q] = "findUser"
         PROVE  StaysTaken(req[q].code) /\ req[q].code # req'[p].code
    BY <1>6, <2>10, <2>11, <2>12
  <2>13. /\ \A d \in Codes : CodeOK(d)'
         /\ \A q \in Procs \ {p} : pc'[q] = pc[q] /\ req'[q] = req[q]
    BY <1>6, <2>5
  <2> QED
    BY <1>4, <2>6, <2>9, <2>12, <2>13, OneMoves
<1> QED
  BY <1>7, <1>8 DEF GetDel, Fail

LEMMA FindUserInv ==
  ASSUME CodesInv, NEW p \in Procs, FindUser(p)
  PROVE  CodesInv'
<1> DEFINE c == req[p].code
<1>1. pc[p] = "findUser" /\ UNCHANGED <<tables, origin, shown>>
  BY DEF FindUser
<1>2. CodesTypeOK /\ Local(p)
  BY DEF CodesInv
<1>3. c \in Codes /\ origin[c] # NoGrant /\ Taken(c)
  BY <1>1, <1>2 DEF Local
<1>4. Grows /\ ConsentShown'
  BY <1>1 DEF Grows, CodesInv, ConsentShown, tables
<1>5. answers' = [answers EXCEPT ![c] = @ + 1] \/ UNCHANGED answers
  BY DEF FindUser
<1>6. /\ answers' \in [Codes -> Nat]
      /\ answers'[c] \in {0, 1}
      /\ \A d \in Codes \ {c} : answers'[d] = answers[d]
  BY <1>2, <1>3, <1>5 DEF CodesTypeOK, Taken, StaysTaken
<1>7. /\ pc' \in [Procs -> Labels] /\ req' \in [Procs -> Requests]
      /\ pc'[p] = "idle"
      /\ \A q \in Procs \ {p} : pc'[q] = pc[q] /\ req'[q] = req[q]
  BY <1>2, Finishes DEF FindUser
<1>8. CodesTypeOK' /\ Local(p)'
  BY <1>1, <1>2, <1>6, <1>7, IdleLocal DEF CodesTypeOK, tables
<1>9. ASSUME NEW d \in Codes PROVE CodeOK(d)'
  <2>1. CodeOK(d)
    BY DEF CodesInv
  <2>2. CASE d = c
    <3>1. store'[d] = NoGrant /\ origin[d] # NoGrant /\ UNCHANGED <<origin, shown>>
      BY <1>1, <1>3, <2>2 DEF Taken, tables
    <3>2. answers'[d] <= 1
      BY <1>6, <2>2
    <3> QED
      BY <2>1, <3>1, <3>2 DEF CodeOK, Key
  <2>3. CASE d # c
    BY <1>1, <1>6, <2>1, <2>3 DEF CodeOK, Key, tables
  <2> QED
    BY <2>2, <2>3
<1>10. ASSUME NEW q \in Procs \ {p}, pc[q] = "findUser" PROVE StaysTaken(req[q].code)
  <2>1. req[q].code \in Codes /\ Taken(req[q].code) /\ req[q].code # c
    BY <1>1, <1>10 DEF CodesInv, Local, TakenOnce
  <2> QED
    BY <1>1, <1>6, <2>1 DEF Taken, StaysTaken, tables
<1> QED
  BY <1>4, <1>7, <1>8, <1>9, <1>10, OneMoves

-----------------------------------------------------------------------------

LEMMA ExpireCodeInv ==
  ASSUME CodesInv, NEW c \in Codes, ExpireCode(c)
  PROVE  CodesInv'
<1>1. /\ store' = [store EXCEPT ![c] = NoGrant]
      /\ UNCHANGED <<consents, pc, req, origin, shown, answers>>
  BY DEF ExpireCode, history
<1>2. /\ store' \in [Codes -> Grants \cup {NoGrant}]
      /\ \A d \in Codes : CodeOK(d)'
      /\ \A q \in Procs : pc[q] = "findUser" => StaysTaken(req[q].code)
  BY <1>1, GoneCode
<1>3. CodesTypeOK' /\ TakenOnce' /\ ConsentShown' /\ Grows
  BY <1>1, <1>2 DEF CodesInv, CodesTypeOK, TakenOnce, ConsentShown, Grows
<1>4. ASSUME NEW q \in Procs PROVE Local(q)'
  BY <1>1, <1>2, <1>3, LocalKept
<1> QED
  BY <1>2, <1>3, <1>4 DEF CodesInv

LEMMA CrashInv == CodesInv /\ Crash => CodesInv'
<1> SUFFICES ASSUME CodesInv, Crash PROVE CodesInv'
  OBVIOUS
<1>1. /\ pc' = [p \in Procs |-> "idle"] /\ req' = [p \in Procs |-> NoRequest]
      /\ UNCHANGED <<consents, store, origin, shown, answers>>
  BY DEF Crash, tables, history
<1>2. CodesTypeOK'
  BY <1>1, NoRequestType DEF CodesInv, CodesTypeOK, Labels
<1>3. ASSUME NEW q \in Procs PROVE Local(q)'
  BY <1>1, IdleLocal
<1>4. ASSUME NEW c \in Codes PROVE CodeOK(c)'
  BY <1>1 DEF CodesInv, CodeOK, Key
<1>5. TakenOnce' /\ ConsentShown'
  BY <1>1 DEF CodesInv, TakenOnce, ConsentShown
<1> QED
  BY <1>2, <1>3, <1>4, <1>5 DEF CodesInv

LEMMA StutterInv == CodesInv /\ UNCHANGED vars => CodesInv'
  BY DEF vars, tables, history, CodesInv, CodesTypeOK, Local, CodeOK, TakenOnce,
         ConsentShown, Taken, Key

LEMMA StepInv == CodesInv /\ [Next]_vars => CodesInv'
  BY StartAuthorizeInv, StartConsentInv, StartTokenInv, HasConsentInv,
     StoreConsentInv, IssueAuthCodeInv, GetDelInv, FindUserInv, ExpireCodeInv,
     CrashInv, StutterInv
     DEF Next

(* The inductive invariant. *)
THEOREM Invariant == Spec => []CodesInv
  BY InitInv, StepInv, PTL DEF Spec

(* Type correctness. *)
THEOREM CodesTypes == Spec => []CodesTypeOK
<1>1. CodesInv => CodesTypeOK
  BY DEF CodesInv
<1> QED
  BY <1>1, Invariant, PTL

(* Whatever number of requests present a code, and however they interleave *)
(* with its expiry, failures and restarts, one gets the tokens.            *)
THEOREM CodesRedeemedOnce == Spec => []CodeRedeemedOnce
<1>1. CodesInv => CodeRedeemedOnce
  BY DEF CodesInv, CodeOK, CodeRedeemedOnce
<1> QED
  BY <1>1, Invariant, PTL

(* A request about to be answered names the client, the redirect URI and,  *)
(* if there was a challenge, the verifier of the authorization its code    *)
(* was issued for.                                                         *)
THEOREM TokensMatchCodes == Spec => []TokenMatchesCode
<1>1. ASSUME CodesInv, NEW p \in Procs, pc[p] = "findUser"
      PROVE  LET g == origin[req[p].code]
             IN /\ g = req[p].grant
                /\ g.client = req[p].client /\ g.uri = req[p].uri
                /\ g.challenge # NoChallenge => g.challenge.verifier = req[p].verifier
  <2> DEFINE g == origin[req[p].code]
  <2>1. g = req[p].grant /\ Accepts(req[p], g)
    BY <1>1 DEF CodesInv, Local
  <2>2. g.challenge # NoChallenge =>
          g.challenge = [verifier |-> req[p].verifier, method |-> "S256"]
    BY <2>1 DEF Accepts, VerifyPKCE
  <2>3. g.client = req[p].client /\ g.uri = req[p].uri
    BY <2>1 DEF Accepts
  <2> QED
    BY <2>1, <2>2, <2>3
<1>2. CodesInv => TokenMatchesCode
  BY <1>1 DEF TokenMatchesCode
<1> QED
  BY <1>2, Invariant, PTL

(* No code is issued for scopes its user was not shown for that client.    *)
THEOREM CodesWithinShown == Spec => []CodeWithinShown
<1>1. CodesInv => CodeWithinShown
  BY DEF CodesInv, CodeOK, CodeWithinShown
<1> QED
  BY <1>1, Invariant, PTL

-----------------------------------------------------------------------------
(* The refinement: authorization codes are one-time keys. *)

Given == {c \in Codes : origin[c] # NoGrant}
Stored == {c \in Codes : store[c] # NoGrant}
Holders(c) == {p \in Procs : pc[p] = "findUser" /\ req[p].code = c}

(* What an End of OneTimeKeys is, in terms of one code. *)
LEMMA EndStep ==
  ASSUME Given \subseteq Given', Stored' \subseteq Stored,
         \A c \in Codes : Holders(c)' \in {Holders(c), {}}
  PROVE  OneTime!End
<1> DEFINE held == [c \in Codes |-> Holders(c)]
<1>1. Given' \in SUBSET Codes /\ Stored' \in SUBSET Stored
  BY DEF Given
<1>2. held' \in [Codes -> SUBSET Procs]
  BY DEF Holders
<1>3. \A c \in Codes : held'[c] \in {held[c], {}}
  OBVIOUS
<1> QED
  BY <1>1, <1>2, <1>3 DEF OneTime!End, Given, Stored, Holders

(* The holders of every code but those of p stay. *)
LEMMA HoldersKept ==
  ASSUME NEW p \in Procs, NEW c,
         \A q \in Procs \ {p} : pc'[q] = pc[q] /\ req'[q] = req[q]
  PROVE  Holders(c)' \ {p} = Holders(c) \ {p}
  BY DEF Holders

(* A request that takes no code, and gives none out, only ends. *)
LEMMA QuietEnd ==
  ASSUME CodesInv, NEW p \in Procs, UNCHANGED origin, Stored' \subseteq Stored,
         pc'[p] # "findUser",
         \A q \in Procs \ {p} : pc'[q] = pc[q] /\ req'[q] = req[q]
  PROVE  OneTime!End
<1>1. Given \subseteq Given'
  BY DEF Given
<1>2. ASSUME NEW c \in Codes PROVE Holders(c)' \in {Holders(c), {}}
  <2>1. p \notin Holders(c)'
    BY DEF Holders
  <2>2. Holders(c)' = Holders(c) \ {p}
    BY <2>1, HoldersKept
  <2>3. p \in Holders(c) => Holders(c) = {p}
    BY DEF CodesInv, TakenOnce, Holders
  <2> QED
    BY <2>2, <2>3
<1> QED
  BY <1>1, <1>2, EndStep

LEMMA IssueStep ==
  ASSUME CodesInv, NEW p \in Procs, IssueAuthCode(p)
  PROVE  OneTime!Next
<1> DEFINE g == req[p].grant
<1>1. CodesTypeOK /\ Local(p) /\ pc[p] = "issueAuthCode" /\ Finish(p)
  BY DEF IssueAuthCode, CodesInv
<1>2. /\ pc'[p] = "idle"
      /\ \A q \in Procs \ {p} : pc'[q] = pc[q] /\ req'[q] = req[q]
  BY <1>1, Finishes
<1>3. CASE UNCHANGED <<store, origin>>
  BY <1>2, <1>3, QuietEnd DEF Stored, OneTime!Next
<1>4. CASE \E c \in Codes : /\ origin[c] = NoGrant
                            /\ store' = [store EXCEPT ![c] = g]
                            /\ origin' = [origin EXCEPT ![c] = g]
  <2>1. PICK c \in Codes : /\ origin[c] = NoGrant
                           /\ store' = [store EXCEPT ![c] = g]
                           /\ origin' = [origin EXCEPT ![c] = g]
    BY <1>4
  <2>2. g \in Grants /\ g # NoGrant
    BY <1>1, NoGrantAssumption DEF Local, AskLabels
  <2>3. c \notin Given /\ Given' = Given \cup {c}
    BY <1>1, <2>1, <2>2 DEF CodesTypeOK, Given
  <2>4. Stored' = Stored \cup {c}
    BY <1>1, <2>1, <2>2 DEF CodesTypeOK, Stored
  <2>5. \A d \in Codes : Holders(d)' = Holders(d)
    <3>1. \A d \in Codes : p \notin Holders(d) /\ p \notin Holders(d)'
      BY <1>1, <1>2 DEF Holders
    <3> QED
      BY <1>2, <3>1, HoldersKept
  <2>6. OneTime!Issue(c)
    BY <2>3, <2>4, <2>5 DEF OneTime!Issue, Given, Stored, Holders
  <2> QED
    BY <2>6 DEF OneTime!Next
<1> QED
  BY <1>3, <1>4 DEF IssueAuthCode

LEMMA TakeCode ==
  ASSUME CodesInv, NEW p \in Procs, NEW c \in Codes, pc[p] = "getDel",
         UNCHANGED origin, store[c] # NoGrant, store' = [store EXCEPT ![c] = NoGrant],
         pc'[p] = "findUser", req'[p].code = c,
         \A q \in Procs \ {p} : pc'[q] = pc[q] /\ req'[q] = req[q]
  PROVE  OneTime!Take(c, p)
<1> DEFINE held == [d \in Codes |-> Holders(d)]
<1>1. c \in Stored /\ Stored' = Stored \ {c}
  BY DEF CodesInv, CodesTypeOK, Stored
<1>2. Given' = Given
  BY DEF Given
<1>3. ASSUME NEW d \in Codes PROVE Holders(d)' = IF d = c THEN {p} ELSE Holders(d)
  <2>1. p \notin Holders(d) /\ (p \in Holders(d)' <=> d = c)
    BY DEF Holders
  <2>2. d = c => Holders(d) = {}
    BY DEF CodesInv, Local, Taken, Holders
  <2>3. Holders(d)' \ {p} = Holders(d) \ {p}
    BY HoldersKept
  <2>4. CASE d = c
    BY <2>1, <2>2, <2>3, <2>4
  <2>5. CASE d # c
    BY <2>1, <2>3, <2>5
  <2> QED
    BY <2>4, <2>5
<1>4. held' = [held EXCEPT ![c] = {p}]
  <2>1. held' = [d \in Codes |-> Holders(d)']
    OBVIOUS
  <2>2. [held EXCEPT ![c] = {p}] = [d \in Codes |-> IF d = c THEN {p} ELSE Holders(d)]
    OBVIOUS
  <2> QED
    BY <1>3, <2>1, <2>2
<1> QED
  BY <1>1, <1>2, <1>4 DEF OneTime!Take, Given, Stored, Holders

LEMMA TakeStep ==
  ASSUME CodesInv, NEW p \in Procs, GetDel(p)
  PROVE  OneTime!Next
<1> DEFINE c == req[p].code
           consume == store' = [store EXCEPT ![c] = NoGrant]
<1>1. CodesTypeOK /\ Local(p) /\ pc[p] = "getDel" /\ UNCHANGED <<consents, history>>
  BY DEF GetDel, CodesInv
<1>2. c \in Codes
  BY <1>1 DEF Local
<1>3. consume \/ UNCHANGED store
  BY DEF GetDel
<1>4. Stored' \subseteq Stored
  BY <1>1, <1>2, <1>3 DEF CodesTypeOK, Stored
<1>5. CASE Finish(p)
  BY <1>1, <1>4, <1>5, Finishes, QuietEnd DEF OneTime!Next, history
<1>6. CASE /\ store[c] # NoGrant /\ consume
           /\ req' = [req EXCEPT ![p].grant = store[c]]
           /\ Goto(p, "findUser")
  <2>1. req[p] \in Requests
    BY <1>1 DEF CodesTypeOK
  <2>2. req'[p] = [req[p] EXCEPT !.grant = store[c]]
    BY <1>1, <1>6 DEF CodesTypeOK
  <2>3. /\ pc'[p] = "findUser" /\ req'[p].code = c
        /\ \A q \in Procs \ {p} : pc'[q] = pc[q] /\ req'[q] = req[q]
    BY <1>1, <1>6, <2>1, <2>2 DEF CodesTypeOK, Goto, Requests
  <2>4. PICK d \in Codes : d = c
    BY <1>2
  <2>5. OneTime!Take(d, p)
    BY <1>1, <1>6, <2>3, <2>4, TakeCode DEF history
  <2> QED
    BY <2>5 DEF OneTime!Next
<1> QED
  BY <1>5, <1>6 DEF GetDel, Fail

(* A step that moves one request and leaves the codes alone. *)
LEMMA OtherStep ==
  ASSUME CodesInv, NEW p \in Procs,
         \/ StartAuthorize(p) \/ StartConsent(p) \/ StartToken(p)
         \/ HasConsent(p) \/ StoreConsent(p) \/ FindUser(p)
  PROVE  OneTime!End
<1>1. UNCHANGED <<origin, store>>
  BY DEF StartAuthorize, StartConsent, StartToken, HasConsent, StoreConsent,
         FindUser, tables, history
<1>2. \E label \in Labels \ {"findUser"} : \E r :
        pc' = [pc EXCEPT ![p] = label] /\ req' = [req EXCEPT ![p] = r]
  <2>1. CodesTypeOK
    BY DEF CodesInv
  <2>2. CASE StartAuthorize(p) \/ StartConsent(p) \/ StartToken(p)
    BY <2>2 DEF StartAuthorize, StartConsent, StartToken, Begin, Goto, Labels
  <2>3. CASE Finish(p)
    BY <2>3 DEF Finish, Goto, Labels
  <2>4. CASE Continue(p, "issueAuthCode")
    BY <2>1, <2>4, Stays DEF Goto, Labels
  <2> QED
    BY <2>2, <2>3, <2>4 DEF HasConsent, StoreConsent, FindUser, Fail
<1>3. /\ pc'[p] # "findUser"
      /\ \A q \in Procs \ {p} : pc'[q] = pc[q] /\ req'[q] = req[q]
  BY <1>2 DEF CodesInv, CodesTypeOK
<1> QED
  BY <1>1, <1>3, QuietEnd DEF Stored

LEMMA EnvironmentStep ==
  ASSUME CodesInv, Crash \/ \E c \in Codes : ExpireCode(c)
  PROVE  OneTime!End
<1>1. UNCHANGED origin /\ Given' = Given
  BY DEF Crash, ExpireCode, history, Given
<1>2. CASE Crash
  <2>1. Stored' = Stored
    BY <1>2 DEF Crash, Stored, tables
  <2>2. \A d \in Codes : Holders(d)' = {}
    BY <1>2 DEF Crash, Holders
  <2> QED
    BY <1>1, <2>1, <2>2, EndStep
<1>3. CASE \E c \in Codes : ExpireCode(c)
  <2>1. Stored' \subseteq Stored
    BY <1>3 DEF CodesInv, CodesTypeOK, ExpireCode, Stored
  <2>2. \A d \in Codes : Holders(d)' = Holders(d)
    BY <1>3 DEF ExpireCode, Holders
  <2> QED
    BY <1>1, <2>1, <2>2, EndStep
<1> QED
  BY <1>2, <1>3

LEMMA OneTimeInit == Init => OneTime!Init
<1> SUFFICES ASSUME Init PROVE OneTime!Init
  OBVIOUS
<1>1. Given = {} /\ Stored = {} /\ \A c \in Codes : Holders(c) = {}
  BY DEF Init, Given, Stored, Holders
<1> QED
  BY <1>1 DEF OneTime!Init, Given, Stored, Holders

LEMMA OneTimeStep == CodesInv /\ [Next]_vars => [OneTime!Next]_(OneTime!vars)
<1> SUFFICES ASSUME CodesInv, [Next]_vars PROVE [OneTime!Next]_(OneTime!vars)
  OBVIOUS
<1>1. CASE Next
  BY <1>1, IssueStep, TakeStep, OtherStep, EnvironmentStep DEF Next, OneTime!Next
<1>2. CASE UNCHANGED vars
  BY <1>2 DEF vars, tables, history, OneTime!vars
<1> QED
  BY <1>1, <1>2

(* Authorization codes implement OneTimeKeys. *)
THEOREM CodesOneTime == Spec => CodesAreOneTime
  BY Invariant, OneTimeInit, OneTimeStep, PTL DEF Spec, CodesAreOneTime, OneTime!Spec

=============================================================================
