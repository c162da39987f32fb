------------------------- MODULE AuthorizationCodes -------------------------
(* The authorization code flow (internal/oauth/handlers.go and client.go):  *)
(* Authorize and Consent issue a code, Token exchanges it.  Consent rows    *)
(* are in Cassandra, one per user and client, and replaced by each INSERT;  *)
(* codes are keys in Redis that hold what they were issued for.  A process  *)
(* of Procs is a request goroutine, with one step per round trip.           *)
(*                                                                          *)
(* A PKCE challenge is the verifier it was made from and the method: the    *)
(* hash of a verifier equals an S256 challenge of that verifier only.       *)
EXTENDS Integers

CONSTANTS
  Users, Clients, URIs, Scopes, Verifiers, Codes,
  Procs,                       \* request goroutines
  RedirectURIs,                \* redirect_uris of each registered client
  Asked,                       \* what Authorize and Consent may be asked for
  NoVerifier, NoCode, NoGrant, \* absent values
  NoConsent,                   \* no row in user_consents
  MayFail                      \* BOOLEAN: round trips may fail, the server crash

ASSUME AbsentAssumption == NoVerifier \notin Verifiers /\ NoCode \notin Codes
ASSUME NonEmptyAssumption == Clients # {} /\ URIs # {}
ASSUME NoConsentAssumption == \A granted \in SUBSET Scopes : granted # NoConsent
ASSUME RedirectURIsAssumption == RedirectURIs \in [Clients -> SUBSET URIs]
ASSUME MayFailAssumption == MayFail \in BOOLEAN

Challenges == [verifier: Verifiers, method: {"S256", "plain"}]
NoChallenge == [verifier |-> NoVerifier, method |-> "S256"]

(* authCodeMeta, which is also what a request to Authorize or Consent asks. *)
Grants == [user: Users, client: Clients, uri: URIs, scopes: SUBSET Scopes,
           challenge: Challenges \cup {NoChallenge}]

ASSUME NoGrantAssumption == NoGrant \notin Grants
ASSUME AskedAssumption == Asked \subseteq Grants

VARIABLES
  consents,  \* user_consents: the scopes of the row, or NoConsent
  store,     \* oauth_code:c, NoGrant when the key is absent
  pc,        \* next round trip of each request
  req,       \* local variables of each request
  origin,    \* history: what each code was issued for
  shown,     \* history: scopes submitted through the consent form
  answers    \* history: the token answers, numbered by code

tables == <<consents, store>>
history == <<origin, shown, answers>>
vars == <<tables, pc, req, history>>

Labels == {"idle", "hasConsent", "storeConsent", "issueAuthCode", "getDel", "findUser"}

(* grant: what Authorize or Consent was asked for, or what the code that   *)
(* Token consumed was issued for; code, client, uri, verifier: the         *)
(* parameters of the Token request.                                        *)
Requests == [grant: Grants \cup {NoGrant}, code: Codes \cup {NoCode},
             client: Clients, uri: URIs, verifier: Verifiers \cup {NoVerifier}]

NoRequest == [grant |-> NoGrant, code |-> NoCode,
              client |-> CHOOSE a \in Clients : TRUE,
              uri |-> CHOOSE u \in URIs : TRUE, verifier |-> NoVerifier]

CodesTypeOK ==
  /\ consents \in [Users \X Clients -> {NoConsent} \cup (SUBSET Scopes)]
  /\ store \in [Codes -> Grants \cup {NoGrant}]
  /\ pc \in [Procs -> Labels]
  /\ req \in [Procs -> Requests]
  /\ origin \in [Codes -> Grants \cup {NoGrant}]
  /\ shown \in [Users \X Clients -> SUBSET Scopes]
  /\ answers \in [Codes -> Nat]

Init ==
  /\ consents = [k \in Users \X Clients |-> NoConsent]
  /\ store = [c \in Codes |-> NoGrant]
  /\ pc = [p \in Procs |-> "idle"]
  /\ req = [p \in Procs |-> NoRequest]
  /\ origin = [c \in Codes |-> NoGrant]
  /\ shown = [k \in Users \X Clients |-> {}]
  /\ answers = [c \in Codes |-> 0]

-----------------------------------------------------------------------------

Goto(p, label) == pc' = [pc EXCEPT ![p] = label]
Continue(p, label) == Goto(p, label) /\ UNCHANGED req
Finish(p) == Goto(p, "idle") /\ req' = [req EXCEPT ![p] = NoRequest]

Begin(p, r, label) ==
  /\ pc[p] = "idle"
  /\ Goto(p, label)
  /\ req' = [req EXCEPT ![p] = r]

Fail(p) == MayFail /\ Finish(p)

(* The key of the consent row a grant is about. *)
Key(g) == <<g.user, g.client>>

-----------------------------------------------------------------------------
(* Authorize, of a user with an SSO session: the client and its redirect   *)
(* URI are checked before anything is read of the consent.                 *)

StartAuthorize(p) ==
  \E g \in Asked :
    /\ g.uri \in RedirectURIs[g.client]
    /\ Begin(p, [NoRequest EXCEPT !.grant = g], "hasConsent")
    /\ UNCHANGED <<tables, history>>

(* HasConsent; an error counts as no consent and leads to the consent      *)
(* page.  Only then is the challenge's method looked at.  Mutant: a row is *)
(* consent, whatever its scopes.                                           *)
HasAnyConsent(p) ==
  /\ pc[p] = "hasConsent"
  /\ consents[Key(req[p].grant)] # NoConsent
  /\ Continue(p, "issueAuthCode")
  /\ UNCHANGED <<tables, history>>
HasConsent(p) ==
  /\ pc[p] = "hasConsent"
  /\ LET g == req[p].grant
         granted == /\ consents[Key(g)] # NoConsent
                    /\ g.scopes \subseteq consents[Key(g)]
     IN \/ granted /\ g.challenge.method = "S256" /\ Continue(p, "issueAuthCode")
        \/ granted /\ g.challenge.method # "S256" /\ Finish(p)
        \/ (~granted \/ MayFail) /\ Finish(p)
  /\ UNCHANGED <<tables, history>>

(* Consent: the form of the consent page carries the query of Authorize    *)
(* and which button was pressed; the handler checks the one as little as   *)
(* the other, and goes on after Deny as after Allow.                       *)
StartConsent(p) ==
  \E g \in Asked :
    /\ Begin(p, [NoRequest EXCEPT !.grant = g], "storeConsent")
    /\ shown' = [shown EXCEPT ![Key(g)] = @ \cup g.scopes]
    /\ UNCHANGED <<tables, origin, answers>>

(* StoreConsent replaces the row of the user and the client. *)
StoreConsent(p) ==
  /\ pc[p] = "storeConsent"
  /\ LET g == req[p].grant
         put == consents' = [consents EXCEPT ![Key(g)] = g.scopes]
     IN \/ put /\ Continue(p, "issueAuthCode")
        \/ Fail(p) /\ (put \/ UNCHANGED consents)
  /\ UNCHANGED <<store, history>>

(* issueAuthCode: SET with a fresh code, which the redirect delivers; with *)
(* an error there is no redirect and nobody learns the code.  Mutant: its  *)
(* arguments clientID and redirectURI are swapped.                         *)
IssueSwapped(p) ==
  /\ pc[p] = "issueAuthCode"
  /\ \E c \in Codes :
       LET g == req[p].grant
           meta == [g EXCEPT !.client = g.uri, !.uri = g.client]
       IN origin[c] = NoGrant /\ store' = [store EXCEPT ![c] = meta]
                              /\ origin' = [origin EXCEPT ![c] = meta]
  /\ Finish(p)
  /\ UNCHANGED <<consents, shown, answers>>
IssueAuthCode(p) ==
  /\ pc[p] = "issueAuthCode"
  /\ \/ \E c \in Codes :
          /\ origin[c] = NoGrant
          /\ store' = [store EXCEPT ![c] = req[p].grant]
          /\ origin' = [origin EXCEPT ![c] = req[p].grant]
     \/ MayFail /\ UNCHANGED <<store, origin>>
  /\ Finish(p)
  /\ UNCHANGED <<consents, shown, answers>>

-----------------------------------------------------------------------------
(* Token, grant_type=authorization_code. *)

StartToken(p) ==
  \E c \in {c \in Codes : origin[c] # NoGrant}, a \in Clients, u \in URIs,
     v \in Verifiers \cup {NoVerifier} :
    /\ Begin(p, [NoRequest EXCEPT !.code = c, !.client = a, !.uri = u,
                                  !.verifier = v], "getDel")
    /\ UNCHANGED <<tables, history>>

VerifyPKCE(verifier, challenge) ==
  challenge = [verifier |-> verifier, method |-> "S256"]

(* Mutant: a challenge is only verified when a verifier is sent. *)
AcceptsUnverified(r, g) ==
  /\ g.client = r.client /\ g.uri = r.uri
  /\ r.verifier = NoVerifier \/ VerifyPKCE(r.verifier, g.challenge)
(* With no challenge the verifier is not looked at. *)
Accepts(r, g) ==
  /\ g.client = r.client /\ g.uri = r.uri
  /\ g.challenge # NoChallenge =>
       r.verifier # NoVerifier /\ VerifyPKCE(r.verifier, g.challenge)

(* GETDEL consumes the code; then the parameters are checked against it.   *)
(* Mutant: GET.                                                            *)
GetCode(p) ==
  /\ pc[p] = "getDel"
  /\ store[req[p].code] # NoGrant
  /\ Accepts(req[p], store[req[p].code])
  /\ req' = [req EXCEPT ![p].grant = store[req[p].code]]
  /\ Goto(p, "findUser")
  /\ UNCHANGED <<tables, history>>
GetDel(p) ==
  /\ pc[p] = "getDel"
  /\ LET c == req[p].code
         consume == store' = [store EXCEPT ![c] = NoGrant]
     IN \/ /\ store[c] # NoGrant /\ Accepts(req[p], store[c])
           /\ consume
           /\ req' = [req EXCEPT ![p].grant = store[c]]
           /\ Goto(p, "findUser")
        \/ store[c] # NoGrant /\ ~Accepts(req[p], store[c]) /\ consume /\ Finish(p)
        \/ store[c] = NoGrant /\ Finish(p) /\ UNCHANGED store
        \/ Fail(p) /\ (consume \/ UNCHANGED store)
  /\ UNCHANGED <<consents, history>>

(* FindByID, and the answer: the two JWTs are for the user of the code and *)
(* the client of the request.                                              *)
FindUser(p) ==
  /\ pc[p] = "findUser"
  /\ \/ answers' = [answers EXCEPT ![req[p].code] = @ + 1]
     \/ MayFail /\ UNCHANGED answers
  /\ Finish(p)
  /\ UNCHANGED <<tables, origin, shown>>

(* The 60 seconds of a code are over. *)
ExpireCode(c) ==
  /\ store[c] # NoGrant
  /\ store' = [store EXCEPT ![c] = NoGrant]
  /\ UNCHANGED <<consents, pc, req, history>>

(* The server stops and starts again. *)
Crash ==
  /\ MayFail
  /\ \E p \in Procs : pc[p] # "idle"
  /\ pc' = [p \in Procs |-> "idle"]
  /\ req' = [p \in Procs |-> NoRequest]
  /\ UNCHANGED <<tables, history>>

-----------------------------------------------------------------------------

Next ==
  \/ \E p \in Procs :
       \/ StartAuthorize(p)
       \/ StartConsent(p)
       \/ StartToken(p)
       \/ HasConsent(p)
       \/ StoreConsent(p)
       \/ IssueAuthCode(p)
       \/ GetDel(p)
       \/ FindUser(p)
  \/ \E c \in Codes : ExpireCode(c)
  \/ Crash

Spec == Init /\ [][Next]_vars

-----------------------------------------------------------------------------

(* A code is answered with tokens once, however many requests present it   *)
(* at the same time.                                                       *)
CodeRedeemedOnce == \A c \in Codes : answers[c] <= 1

(* Tokens are only about to be issued to a request that names the client   *)
(* and the redirect URI of the code's authorization and, if that carried a *)
(* challenge, its verifier; and for the user who gave it.                  *)
TokenMatchesCode ==
  \A p \in Procs : pc[p] = "findUser" =>
    LET g == origin[req[p].code]
    IN /\ g = req[p].grant
       /\ g.client = req[p].client /\ g.uri = req[p].uri
       /\ g.challenge # NoChallenge => g.challenge.verifier = req[p].verifier

(* No code is issued for a scope its user was never asked about, for that  *)
(* client, on the consent page; whatever consent rows were replaced,       *)
(* unreadable or lost in between.                                          *)
CodeWithinShown ==
  \A c \in Codes : origin[c] # NoGrant =>
    origin[c].scopes \subseteq shown[Key(origin[c])]

(* Authorization codes as one-time keys, held by the requests that have    *)
(* taken them and not answered yet.                                        *)
OneTime == INSTANCE OneTimeKeys WITH
  Keys <- Codes,
  Holders <- Procs,
  given <- {c \in Codes : origin[c] # NoGrant},
  stored <- {c \in Codes : store[c] # NoGrant},
  held <- [c \in Codes |-> {p \in Procs : pc[p] = "findUser" /\ req[p].code = c}]

(* An authorization code is a one-time key: of the requests that present   *)
(* it one gets to answer, and neither a failure nor a restart of the       *)
(* server lets it be presented again.                                      *)
CodesAreOneTime == OneTime!Spec

=============================================================================
