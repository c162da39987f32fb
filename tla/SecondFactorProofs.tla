------------------------- MODULE SecondFactorProofs -------------------------
(* Theorems about module SecondFactor, for any sets of secrets, MFA         *)
(* sessions and goroutines and any number of recovery codes, with or        *)
(* without failures.                                                        *)
EXTENDS SecondFactor, FiniteSetTheorems, TLAPS

EnrollLabels == {"storeSecret", "deleteCodes", "insertCode"}
Enrolling(p) == pc[p] \in EnrollLabels

(* p is to store MFA session req[p].session, or has taken it. *)
Presents(p) == req[p].op \in {"verify", "recovery"}
Holds(p) == Presents(p) /\ pc[p] # "consume"
Owns(p) == pc[p] = "storeMFA" \/ Holds(p)

(* p has marked its recovery code and is not answered yet. *)
Spending(p) == req[p].op = "recovery" /\ pc[p] \in {"findUser", "disable", "store"}

(* The codes of other sets that are accepted belong to enrolments that     *)
(* overlap the one of s.                                                   *)
OnlyOverlapping(s) ==
  \A c \in Codes :
    codes[c] = "unused" /\ SetOf(c) # s => {SetOf(c), s} \in overlapped

(* The labels of each operation, and what a request at them relies on. *)
Placed(p) ==
  /\ req[p].op = "enroll" <=> Enrolling(p)
  /\ pc[p] \in {"idle", "storeMFA", "enable"} => ~Presents(p)
  /\ pc[p] \in {"consume", "list", "mark", "disable", "store"} => Presents(p)
  /\ pc[p] \in {"list", "mark", "disable"} => req[p].op = "recovery"
  /\ pc[p] = "findUser" => req[p].op \in {"confirm", "verify", "recovery"}

Local(p) ==
  /\ Placed(p)
  /\ Enrolling(p) => req[p].secret \in generated \ delivered
  /\ pc[p] = "insertCode" => OnlyOverlapping(req[p].secret)
  /\ pc[p] = "enable" => req[p].secret \in confirmed
  /\ Presents(p) => req[p].session \in issued
  /\ Owns(p) => /\ req[p].session \in issued \ mfa
                /\ admitted[req[p].session] = 0
  /\ req[p].op = "recovery" => /\ req[p].code \in Codes
                               /\ SetOf(req[p].code) \in delivered
  /\ Spending(p) => codes[req[p].code] # "unused"

(* Two requests share neither an enrolment nor an MFA session. *)
Apart(p, q) ==
  /\ Enrolling(p) /\ Enrolling(q) =>
       /\ req[p].secret # req[q].secret
       /\ {req[p].secret, req[q].secret} \in overlapped
  /\ Owns(p) /\ Owns(q) => req[p].session # req[q].session

SessionOK(m) ==
  /\ admitted[m] <= 1
  /\ m \in mfa => m \in issued
  /\ m \in mfa \/ m \notin issued => admitted[m] = 0

CodeOK(c) == uses[c] > 0 => codes[c] # "unused" /\ SetOf(c) \in delivered

FactorInv ==
  /\ SecondFactorTypeOK
  /\ delivered \subseteq generated
  /\ EnabledIsConfirmed
  /\ SetsMixOnlyIfOverlapped
  /\ \A p \in Procs : Local(p)
  /\ \A p \in Procs : \A q \in Procs \ {p} : Apart(p, q)
  /\ \A m \in Sessions : SessionOK(m)
  /\ \A c \in Codes : CodeOK(c)

-----------------------------------------------------------------------------

LEMMA NoRequestType == NoRequest \in Requests
  BY CodesPerSetAssumption DEF NoRequest, Requests, Ops

LEMMA RequestTypes ==
  ASSUME SecondFactorTypeOK, NEW p \in Procs
  PROVE  /\ req[p] \in Requests
         /\ req[p].secret \in Secrets \cup {NoSecret}
         /\ req[p].session \in Sessions \cup {NoSession}
         /\ req[p].code \in Codes \cup {NoCode}
         /\ req[p].next \in 1..CodesPerSet
<1>1. req[p] \in Requests
  BY DEF SecondFactorTypeOK
<1> QED
  BY <1>1 DEF Requests

LEMMA InitInv == Init => FactorInv
<1> SUFFICES ASSUME Init PROVE FactorInv
  OBVIOUS
<1>1. SecondFactorTypeOK
  BY NoRequestType DEF Init, SecondFactorTypeOK, Labels
<1>2. \A p \in Procs : pc[p] = "idle" /\ req[p].op = "none"
  BY DEF Init, NoRequest
<1>3. \A p \in Procs : Local(p) /\ \A q \in Procs : Apart(p, q)
  BY <1>2 DEF Local, Placed, Apart, Enrolling, EnrollLabels, Owns, Holds, Presents,
              Spending
<1> QED
  BY <1>1, <1>3 DEF Init, FactorInv, EnabledIsConfirmed, SetsMixOnlyIfOverlapped,
                    SessionOK, CodeOK

-----------------------------------------------------------------------------
(* How requests move. *)

Others(p) == \A q \in Procs \ {p} : pc'[q] = pc[q] /\ req'[q] = req[q]

At(p, label, r) == pc'[p] = label /\ req'[p] = r /\ Others(p)

MovesTyped == pc' \in [Procs -> Labels] /\ req' \in [Procs -> Requests]

LEMMA Moves ==
  ASSUME SecondFactorTypeOK, NEW p \in Procs, NEW r \in Requests,
         NEW label \in Labels, Goto(p, label), req' = [req EXCEPT ![p] = r]
  PROVE  At(p, label, r) /\ MovesTyped
  BY DEF SecondFactorTypeOK, Goto, At, Others, MovesTyped

LEMMA Begins ==
  ASSUME SecondFactorTypeOK, NEW p \in Procs, NEW r \in Requests,
         NEW label \in Labels, Begin(p, r, label)
  PROVE  At(p, label, r) /\ MovesTyped /\ pc[p] = "idle"
  BY Moves DEF Begin

LEMMA Continues ==
  ASSUME SecondFactorTypeOK, NEW p \in Procs, NEW label \in Labels,
         Continue(p, label)
  PROVE  At(p, label, req[p]) /\ MovesTyped
<1>1. req[p] \in Requests /\ req' = [req EXCEPT ![p] = req[p]]
  BY DEF SecondFactorTypeOK, Continue
<1> QED
  BY <1>1, Moves DEF Continue

LEMMA Finishes ==
  ASSUME SecondFactorTypeOK, NEW p \in Procs, Finish(p)
  PROVE  At(p, "idle", NoRequest) /\ MovesTyped
<1>1. "idle" \in Labels
  BY DEF Labels
<1> QED
  BY <1>1, NoRequestType, Moves DEF Finish

(* A request that is answered has nothing to rely on and owns nothing. *)
LEMMA Answered ==
  ASSUME NEW p \in Procs, At(p, "idle", NoRequest)
  PROVE  Local(p)' /\ ~Enrolling(p)' /\ ~Owns(p)'
  BY DEF At, Local, Placed, NoRequest, Enrolling, EnrollLabels, Owns, Holds,
         Presents, Spending

LEMMA ApartSymmetric ==
  ASSUME NEW p, NEW q, Apart(p, q)
  PROVE  Apart(q, p)
<1>1. {req[p].secret, req[q].secret} = {req[q].secret, req[p].secret}
  OBVIOUS
<1> QED
  BY <1>1 DEF Apart

(* The history that only grows. *)
Grows ==
  /\ generated \subseteq generated' /\ issued \subseteq issued'
  /\ confirmed \subseteq confirmed' /\ overlapped \subseteq overlapped'

(* What p does not take up, it is not in the way with. *)
LEMMA ApartKept ==
  ASSUME FactorInv, Grows, NEW p \in Procs, NEW q \in Procs \ {p}, Others(p),
         Enrolling(p)' => Enrolling(p) /\ req'[p].secret = req[p].secret,
         Owns(p)' => Owns(p) /\ req'[p].session = req[p].session
  PROVE  Apart(p, q)'
<1>1. Apart(p, q) /\ pc'[q] = pc[q] /\ req'[q] = req[q]
  BY DEF FactorInv, Others
<1>2. Enrolling(q)' = Enrolling(q) /\ Owns(q)' = Owns(q)
  BY <1>1 DEF Enrolling, Owns, Holds, Presents
<1> QED
  BY <1>1, <1>2 DEF Apart, Grows

(* Two requests that do not move. *)
LEMMA ApartStill ==
  ASSUME FactorInv, Grows, NEW q \in Procs, NEW r \in Procs \ {q},
         pc'[q] = pc[q], req'[q] = req[q], pc'[r] = pc[r], req'[r] = req[r]
  PROVE  Apart(q, r)'
<1>1. Apart(q, r)
  BY DEF FactorInv
<1>2. /\ Enrolling(q)' = Enrolling(q) /\ Owns(q)' = Owns(q)
      /\ Enrolling(r)' = Enrolling(r) /\ Owns(r)' = Owns(r)
  BY DEF Enrolling, Owns, Holds, Presents
<1> QED
  BY <1>1, <1>2 DEF Apart, Grows

(* A request that does not move keeps what it relies on: nobody else       *)
(* delivers its secret, or gives back or uses its MFA session, and no      *)
(* delivered code becomes unused.                                          *)
LEMMA LocalKept ==
  ASSUME FactorInv, Grows, NEW q \in Procs, pc'[q] = pc[q], req'[q] = req[q],
         delivered \subseteq delivered',
         Enrolling(q) => req[q].secret \notin delivered',
         pc[q] = "insertCode" => OnlyOverlapping(req[q].secret)',
         Owns(q) => /\ req[q].session \notin mfa'
                    /\ admitted'[req[q].session] = 0,
         \A c \in Codes : SetOf(c) \in delivered /\ codes'[c] = "unused" =>
                            codes[c] = "unused"
  PROVE  Local(q)'
<1>1. Local(q)
  BY DEF FactorInv
<1>2. /\ Placed(q)' = Placed(q) /\ Enrolling(q)' = Enrolling(q)
      /\ Presents(q)' = Presents(q) /\ Owns(q)' = Owns(q)
      /\ Spending(q)' = Spending(q)
  BY DEF Placed, Enrolling, Presents, Owns, Holds, Spending
<1>3. Enrolling(q) => req[q].secret \in generated' \ delivered'
  BY <1>1 DEF Local, Grows
<1>4. Spending(q) => req[q].code \in Codes /\ SetOf(req[q].code) \in delivered
                     /\ codes[req[q].code] # "unused"
  BY <1>1 DEF Local, Spending
<1>5. Spending(q) => codes'[req[q].code] # "unused"
  BY <1>4
<1>6. pc'[q] = "insertCode" => OnlyOverlapping(req[q].secret)'
  OBVIOUS
<1> QED
  BY <1>1, <1>2, <1>3, <1>5, <1>6 DEF Local, Grows

(* What a step of p has to show. *)
LEMMA OneMoves ==
  ASSUME FactorInv, Grows, NEW p \in Procs, Others(p), SecondFactorTypeOK',
         (delivered \subseteq generated)', EnabledIsConfirmed',
         SetsMixOnlyIfOverlapped', Local(p)',
         \A q \in Procs \ {p} : Local(q)' /\ Apart(p, q)',
         \A m \in Sessions : SessionOK(m)',
         \A c \in Codes : CodeOK(c)'
  PROVE  FactorInv'
<1>1. ASSUME NEW q \in Procs PROVE Local(q)'
  BY <1>1
<1>2. ASSUME NEW q \in Procs, NEW r \in Procs \ {q} PROVE Apart(q, r)'
  <2>1. CASE q = p
    BY <1>2, <2>1
  <2>2. CASE r = p
    <3>1. Apart(p, q)'
      BY <1>2, <2>2
    <3> QED
      BY <2>2, <3>1, ApartSymmetric DEF Apart, Enrolling, Owns, Holds, Presents
  <2>3. CASE q # p /\ r # p
    BY <1>2, <2>3, ApartStill DEF Others
  <2> QED
    BY <2>1, <2>2, <2>3
<1> QED
  BY <1>1, <1>2 DEF FactorInv

(* The steps that store no key and no code and deliver and admit nothing.  *)
LEMMA QuietStep ==
  ASSUME FactorInv, Grows, NEW p \in Procs, Others(p), SecondFactorTypeOK',
         UNCHANGED <<delivered, admitted, uses>>, mfa' \subseteq mfa,
         \A c \in Codes : codes'[c] = "unused" => codes[c] = "unused",
         EnabledIsConfirmed', Local(p)',
         \A q \in Procs \ {p} : Apart(p, q)'
  PROVE  FactorInv'
<1>1. ASSUME NEW q \in Procs \ {p} PROVE Local(q)'
  <2>1. Local(q) /\ pc'[q] = pc[q] /\ req'[q] = req[q]
    BY DEF FactorInv, Others
  <2>2. pc[q] = "insertCode" => OnlyOverlapping(req[q].secret)'
    BY <2>1 DEF Local, OnlyOverlapping, Grows
  <2> QED
    BY <2>1, <2>2, LocalKept DEF Local
<1>2. SetsMixOnlyIfOverlapped'
  BY DEF FactorInv, SetsMixOnlyIfOverlapped, Grows
<1>3. \A m \in Sessions : SessionOK(m)'
  BY DEF FactorInv, SessionOK, Grows
<1>4. \A c \in Codes : CodeOK(c)'
  BY DEF FactorInv, CodeOK
<1>5. (delivered \subseteq generated)'
  BY DEF FactorInv, Grows
<1> QED
  BY <1>1, <1>2, <1>3, <1>4, <1>5, OneMoves

(* Those of them that answer the request. *)
LEMMA QuietAnswer ==
  ASSUME FactorInv, Grows, NEW p \in Procs, Finish(p), SecondFactorTypeOK',
         UNCHANGED <<delivered, admitted, uses>>, mfa' \subseteq mfa,
         \A c \in Codes : codes'[c] = "unused" => codes[c] = "unused",
         EnabledIsConfirmed'
  PROVE  FactorInv'
<1>1. At(p, "idle", NoRequest) /\ Others(p)
  BY Finishes DEF FactorInv, At
<1>2. Local(p)' /\ ~Enrolling(p)' /\ ~Owns(p)'
  BY <1>1, Answered
<1>3. \A q \in Procs \ {p} : Apart(p, q)'
  BY <1>2 DEF Apart
<1> QED
  BY <1>1, <1>2, <1>3, QuietStep

(* Those that go on with what they hold. *)
LEMMA QuietContinue ==
  ASSUME FactorInv, Grows, NEW p \in Procs, NEW label \in Labels,
         Continue(p, label), SecondFactorTypeOK',
         UNCHANGED <<delivered, admitted, uses>>, mfa' \subseteq mfa,
         \A c \in Codes : codes'[c] = "unused" => codes[c] = "unused",
         EnabledIsConfirmed', Local(p)',
         Enrolling(p)' => Enrolling(p), Owns(p)' => Owns(p)
  PROVE  FactorInv'
<1>1. At(p, label, req[p]) /\ Others(p) /\ req'[p] = req[p]
  BY Continues DEF FactorInv, At
<1>2. \A q \in Procs \ {p} : Apart(p, q)'
  BY <1>1, ApartKept
<1> QED
  BY <1>1, <1>2, QuietStep

-----------------------------------------------------------------------------
(* Requests arrive. *)

LEMMA StartEnrollInv ==
  ASSUME FactorInv, NEW p \in Procs, StartEnroll(p)
  PROVE  FactorInv'
<1>1. PICK s \in Secrets \ generated :
        /\ Begin(p, [NoRequest EXCEPT !.op = "enroll", !.secret = s], "storeSecret")
        /\ generated' = generated \cup {s}
        /\ overlapped' = overlapped \cup
             {{s, req[q].secret} : q \in {q \in Procs : req[q].op = "enroll"}}
  BY DEF StartEnroll
<1>2. UNCHANGED <<row, codes, mfa, issued, history>>
  BY DEF StartEnroll
<1>3. PICK r \in Requests :
        /\ r = [NoRequest EXCEPT !.op = "enroll", !.secret = s]
        /\ r.op = "enroll" /\ r.secret = s
  <2> DEFINE d == [NoRequest EXCEPT !.op = "enroll", !.secret = s]
  <2>1. d \in Requests
    BY NoRequestType DEF Requests, NoRequest, Ops
  <2>2. d.op = "enroll" /\ d.secret = s
    BY DEF NoRequest
  <2> QED
    BY <2>1, <2>2
<1>4. SecondFactorTypeOK /\ "storeSecret" \in Labels
  BY DEF FactorInv, Labels
<1>5. At(p, "storeSecret", r) /\ MovesTyped
  BY <1>1, <1>3, <1>4, Begins
<1>6. \A q \in Procs \ {p} : Enrolling(q) =>
        /\ req[q].op = "enroll"
        /\ req[q].secret \in generated
  BY DEF FactorInv, Local, Placed
<1>7. Grows
  BY <1>1, <1>2 DEF Grows, history
<1>8. overlapped' \subseteq SUBSET Secrets
  <2>1. \A q \in Procs : req[q].op = "enroll" => req[q].secret \in Secrets
    BY <1>4 DEF FactorInv, Local, Placed, SecondFactorTypeOK
  <2> QED
    BY <1>1, <1>4, <2>1 DEF SecondFactorTypeOK
<1>9. SecondFactorTypeOK'
  BY <1>1, <1>2, <1>4, <1>5, <1>8 DEF SecondFactorTypeOK, MovesTyped, row, history
<1>10. Enrolling(p)' /\ ~Owns(p)'
  BY <1>3, <1>5 DEF At, Enrolling, EnrollLabels, Owns, Holds, Presents
<1>11. Local(p)'
  <2>1. s \in generated' \ delivered'
    BY <1>1, <1>2 DEF FactorInv, history
  <2> QED
    BY <1>3, <1>5, <1>10, <2>1 DEF At, Local, Placed, Presents, Spending
<1>12. ASSUME NEW q \in Procs \ {p} PROVE Apart(p, q)'
  <2>1. Enrolling(q)' = Enrolling(q) /\ req'[q] = req[q]
    BY <1>5 DEF At, Others, Enrolling
  <2>2. ASSUME Enrolling(q)
        PROVE  s # req[q].secret /\ {s, req[q].secret} \in overlapped'
    BY <1>1, <1>6, <2>2
  <2> QED
    BY <1>3, <1>5, <1>10, <2>1, <2>2 DEF Apart, At
<1> QED
  BY <1>2, <1>5, <1>7, <1>9, <1>11, <1>12, QuietStep
     DEF At, row, history, FactorInv, EnabledIsConfirmed

LEMMA StartConfirmInv ==
  ASSUME FactorInv, NEW p \in Procs, StartConfirm(p)
  PROVE  FactorInv'
<1>1. PICK s \in delivered \cup {NoSecret} :
        Begin(p, [NoRequest EXCEPT !.op = "confirm", !.secret = s], "findUser")
  BY DEF StartConfirm
<1>2. UNCHANGED <<row, codes, mfa, pools, history>>
  BY DEF StartConfirm
<1>3. SecondFactorTypeOK /\ "findUser" \in Labels
  BY DEF FactorInv, Labels
<1>4. PICK r \in Requests :
        /\ r = [NoRequest EXCEPT !.op = "confirm", !.secret = s]
        /\ r.op = "confirm"
  <2> DEFINE d == [NoRequest EXCEPT !.op = "confirm", !.secret = s]
  <2>1. d \in Requests
    BY <1>3, NoRequestType DEF Requests, NoRequest, Ops, SecondFactorTypeOK
  <2>2. d.op = "confirm"
    BY DEF NoRequest
  <2> QED
    BY <2>1, <2>2
<1>5. At(p, "findUser", r) /\ MovesTyped
  BY <1>1, <1>3, <1>4, Begins
<1>6. Grows /\ SecondFactorTypeOK'
  BY <1>2, <1>3, <1>5
     DEF Grows, SecondFactorTypeOK, MovesTyped, row, pools, history
<1>7. ~Enrolling(p)' /\ ~Owns(p)'
  BY <1>4, <1>5 DEF At, Enrolling, EnrollLabels, Owns, Holds, Presents
<1>8. Local(p)' /\ \A q \in Procs \ {p} : Apart(p, q)'
  BY <1>4, <1>5, <1>7 DEF At, Local, Placed, Presents, Spending, Apart
<1> QED
  BY <1>2, <1>5, <1>6, <1>8, QuietStep
     DEF At, row, pools, history, FactorInv, EnabledIsConfirmed

LEMMA StartLoginInv ==
  ASSUME FactorInv, NEW p \in Procs, StartLogin(p)
  PROVE  FactorInv'
<1>1. PICK m \in Sessions \ issued :
        /\ Begin(p, [NoRequest EXCEPT !.op = "login", !.session = m], "storeMFA")
        /\ issued' = issued \cup {m}
  BY DEF StartLogin
<1>2. UNCHANGED <<row, codes, mfa, generated, overlapped, history>>
  BY DEF StartLogin
<1>3. SecondFactorTypeOK /\ "storeMFA" \in Labels
  BY DEF FactorInv, Labels
<1>4. PICK r \in Requests :
        /\ r = [NoRequest EXCEPT !.op = "login", !.session = m]
        /\ r.op = "login" /\ r.session = m
  <2> DEFINE d == [NoRequest EXCEPT !.op = "login", !.session = m]
  <2>1. d \in Requests
    BY NoRequestType DEF Requests, NoRequest, Ops
  <2>2. d.op = "login" /\ d.session = m
    BY DEF NoRequest
  <2> QED
    BY <2>1, <2>2
<1>5. At(p, "storeMFA", r) /\ MovesTyped
  BY <1>1, <1>3, <1>4, Begins
<1>6. Grows /\ SecondFactorTypeOK'
  BY <1>1, <1>2, <1>3, <1>5 DEF Grows, SecondFactorTypeOK, MovesTyped, row, history
<1>7. ~Enrolling(p)' /\ ~Presents(p)'
  BY <1>4, <1>5 DEF At, Enrolling, EnrollLabels, Presents
<1>8. m \in issued' \ mfa' /\ admitted'[m] = 0
  BY <1>1, <1>2 DEF FactorInv, SessionOK, history
<1>9. Local(p)'
  BY <1>4, <1>5, <1>7, <1>8 DEF At, Local, Placed, Owns, Holds, Spending
<1>10. ASSUME NEW q \in Procs \ {p} PROVE Apart(p, q)'
  <2>1. Owns(q)' = Owns(q) /\ req'[q] = req[q]
    BY <1>5 DEF At, Others, Owns, Holds, Presents
  <2>2. Owns(q) => req[q].session # m
    BY <1>1 DEF FactorInv, Local
  <2> QED
    BY <1>4, <1>5, <1>7, <2>1, <2>2 DEF Apart, At
<1> QED
  BY <1>2, <1>5, <1>6, <1>9, <1>10, QuietStep
     DEF At, row, history, FactorInv, EnabledIsConfirmed

(* A request that presents an MFA session, and has not taken it yet. *)
LEMMA PresentsInv ==
  ASSUME FactorInv, NEW p \in Procs, NEW r \in Requests, Begin(p, r, "consume"),
         r.op \in {"verify", "recovery"}, r.session \in issued,
         r.op = "recovery" => r.code \in Codes /\ SetOf(r.code) \in delivered,
         UNCHANGED <<row, codes, mfa, pools, history>>
  PROVE  FactorInv'
<1>1. SecondFactorTypeOK /\ "consume" \in Labels
  BY DEF FactorInv, Labels
<1>2. At(p, "consume", r) /\ MovesTyped
  BY <1>1, Begins
<1>3. Grows /\ SecondFactorTypeOK'
  BY <1>1, <1>2 DEF Grows, SecondFactorTypeOK, MovesTyped, row, pools, history
<1>4. ~Enrolling(p)' /\ ~Owns(p)'
  BY <1>2 DEF At, Enrolling, EnrollLabels, Owns, Holds, Presents
<1>5. Local(p)' /\ \A q \in Procs \ {p} : Apart(p, q)'
  BY <1>2, <1>4 DEF At, Local, Placed, Presents, Spending, Apart, pools, history
<1> QED
  BY <1>2, <1>3, <1>5, QuietStep
     DEF At, row, pools, history, FactorInv, EnabledIsConfirmed

LEMMA StartVerifyInv ==
  ASSUME FactorInv, NEW p \in Procs, StartVerify(p)
  PROVE  FactorInv'
<1>1. PICK m \in issued, s \in delivered \cup {NoSecret} :
        Begin(p, [NoRequest EXCEPT !.op = "verify", !.session = m, !.secret = s],
              "consume")
  BY DEF StartVerify
<1>2. m \in Sessions /\ s \in Secrets \cup {NoSecret}
  BY DEF FactorInv, SecondFactorTypeOK
<1>3. PICK r \in Requests :
        /\ r = [NoRequest EXCEPT !.op = "verify", !.session = m, !.secret = s]
        /\ r.op = "verify" /\ r.session = m
  <2> DEFINE d == [NoRequest EXCEPT !.op = "verify", !.session = m, !.secret = s]
  <2>1. d \in Requests
    BY <1>2, NoRequestType DEF Requests, NoRequest, Ops
  <2>2. d.op = "verify" /\ d.session = m
    BY DEF NoRequest
  <2> QED
    BY <2>1, <2>2
<1> QED
  BY <1>1, <1>3, PresentsInv DEF StartVerify

LEMMA StartRecoveryInv ==
  ASSUME FactorInv, NEW p \in Procs, StartRecovery(p)
  PROVE  FactorInv'
<1>1. PICK m \in issued, c \in {c \in Codes : SetOf(c) \in delivered} :
        Begin(p, [NoRequest EXCEPT !.op = "recovery", !.session = m, !.code = c],
              "consume")
  BY DEF StartRecovery
<1>2. m \in Sessions
  BY DEF FactorInv, SecondFactorTypeOK
<1>3. PICK r \in Requests :
        /\ r = [NoRequest EXCEPT !.op = "recovery", !.session = m, !.code = c]
        /\ r.op = "recovery" /\ r.session = m /\ r.code = c
  <2> DEFINE d == [NoRequest EXCEPT !.op = "recovery", !.session = m, !.code = c]
  <2>1. d \in Requests
    BY <1>2, NoRequestType DEF Requests, NoRequest, Ops
  <2>2. d.op = "recovery" /\ d.session = m /\ d.code = c
    BY DEF NoRequest
  <2> QED
    BY <2>1, <2>2
<1> QED
  BY <1>1, <1>3, PresentsInv DEF StartRecovery

-----------------------------------------------------------------------------
(* Enroll. *)

LEMMA StoreSecretInv ==
  ASSUME FactorInv, NEW p \in Procs, StoreSecret(p)
  PROVE  FactorInv'
<1>1. pc[p] = "storeSecret" /\ UNCHANGED <<codes, mfa, pools, history>>
  BY DEF StoreSecret
<1>2. SecondFactorTypeOK /\ Local(p)
  BY DEF FactorInv
<1>3. UpdateTOTP(req[p].secret, FALSE) \/ UNCHANGED row
  BY DEF StoreSecret
<1>4. EnabledIsConfirmed' /\ Grows
  BY <1>1, <1>3 DEF UpdateTOTP, row, FactorInv, EnabledIsConfirmed, Grows, pools, history
<1>5. secret' \in Secrets \cup {NoSecret} /\ enabled' \in BOOLEAN
  <2>1. secret \in Secrets \cup {NoSecret} /\ enabled \in BOOLEAN
    BY <1>2 DEF SecondFactorTypeOK
  <2>2. req[p].secret \in Secrets \cup {NoSecret}
    BY <1>2, RequestTypes
  <2> QED
    BY <1>3, <2>1, <2>2 DEF UpdateTOTP, row
<1>6. MovesTyped => SecondFactorTypeOK'
  BY <1>1, <1>2, <1>5 DEF SecondFactorTypeOK, MovesTyped, pools, history
<1>7. CASE Finish(p)
  BY <1>1, <1>2, <1>4, <1>6, <1>7, Finishes, QuietAnswer DEF pools, history
<1>8. CASE Continue(p, "deleteCodes")
  <2>1. "deleteCodes" \in Labels
    BY DEF Labels
  <2>2. At(p, "deleteCodes", req[p]) /\ MovesTyped
    BY <1>2, <1>8, <2>1, Continues
  <2>3. Enrolling(p) /\ Enrolling(p)' /\ ~Owns(p)'
    BY <1>1, <1>2, <2>2 DEF At, Local, Placed, Enrolling, EnrollLabels, Owns, Holds, Presents
  <2>4. Local(p)'
    BY <1>1, <1>2, <2>2, <2>3
       DEF At, Local, Placed, Presents, Owns, Holds, Spending, pools, history
  <2> QED
    BY <1>1, <1>4, <1>6, <1>8, <2>1, <2>2, <2>3, <2>4, QuietContinue DEF pools, history
<1> QED
  BY <1>7, <1>8 DEF StoreSecret, Fail

LEMMA DeleteCodesInv ==
  ASSUME FactorInv, NEW p \in Procs, DeleteCodes(p)
  PROVE  FactorInv'
<1> DEFINE delete == codes' = [c \in Codes |-> "none"]
<1>1. pc[p] = "deleteCodes" /\ UNCHANGED <<row, mfa, pools, history>>
  BY DEF DeleteCodes
<1>2. SecondFactorTypeOK /\ Local(p)
  BY DEF FactorInv
<1>3. delete \/ UNCHANGED codes
  BY DEF DeleteCodes
<1>4. \A c \in Codes : codes'[c] = "unused" => codes[c] = "unused"
  BY <1>3
<1>5. EnabledIsConfirmed' /\ Grows
  BY <1>1 DEF row, FactorInv, EnabledIsConfirmed, Grows, pools, history
<1>6. MovesTyped => SecondFactorTypeOK'
  BY <1>1, <1>2, <1>3 DEF SecondFactorTypeOK, MovesTyped, row, pools, history
<1>7. CASE Finish(p)
  BY <1>1, <1>2, <1>4, <1>5, <1>6, <1>7, Finishes, QuietAnswer DEF pools, history
<1>8. CASE delete /\ Continue(p, "insertCode")
  <2>1. "insertCode" \in Labels
    BY DEF Labels
  <2>2. At(p, "insertCode", req[p]) /\ MovesTyped
    BY <1>2, <1>8, <2>1, Continues
  <2>3. Enrolling(p) /\ Enrolling(p)' /\ ~Owns(p)'
    BY <1>1, <1>2, <2>2 DEF At, Local, Placed, Enrolling, EnrollLabels, Owns, Holds, Presents
  <2>4. OnlyOverlapping(req[p].secret)'
    BY <1>8 DEF OnlyOverlapping
  <2>5. Local(p)'
    BY <1>1, <1>2, <2>2, <2>3, <2>4
       DEF At, Local, Placed, Presents, Owns, Holds, Spending, pools, history
  <2> QED
    BY <1>1, <1>4, <1>5, <1>6, <1>8, <2>1, <2>2, <2>3, <2>5, QuietContinue DEF pools, history
<1> QED
  BY <1>7, <1>8 DEF DeleteCodes, Fail

(* A code of an enrolment in flight becomes acceptable: its set overlaps   *)
(* every enrolment in flight, and none of its codes has been used.         *)
LEMMA InsertCodeInv ==
  ASSUME FactorInv, NEW p \in Procs, InsertCode(p)
  PROVE  FactorInv'
<1> DEFINE s == req[p].secret
           insert == codes' = [codes EXCEPT ![<<s, req[p].next>>] = "unused"]
<1>1. pc[p] = "insertCode" /\ UNCHANGED <<row, mfa, pools, confirmed, admitted, uses>>
  BY DEF InsertCode
<1>2. SecondFactorTypeOK /\ Local(p)
  BY DEF FactorInv
<1>3. Enrolling(p) /\ ~Presents(p) /\ s \in generated \ delivered /\ OnlyOverlapping(s)
  BY <1>1, <1>2 DEF Local, Placed, Enrolling, EnrollLabels, Presents
<1>4. insert \/ UNCHANGED codes
  BY DEF InsertCode
<1>5. /\ codes' \in [Codes -> {"none", "unused", "used"}]
      /\ \A c \in Codes : codes'[c] = "unused" => codes[c] = "unused" \/ SetOf(c) = s
  <2>1. s \in Secrets /\ <<s, req[p].next>> \in Codes /\ SetOf(<<s, req[p].next>>) = s
    BY <1>2, <1>3, RequestTypes DEF SecondFactorTypeOK, Codes, SetOf
  <2> QED
    BY <1>2, <1>4, <2>1 DEF SecondFactorTypeOK
<1>6. delivered' \in {delivered, delivered \cup {s}}
  BY DEF InsertCode
<1>7. \/ At(p, "idle", NoRequest) /\ MovesTyped
      \/ /\ delivered' = delivered
         /\ pc'[p] = "insertCode" /\ req'[p].op = req[p].op
         /\ req'[p].secret = s /\ Others(p) /\ MovesTyped
  <2>1. CASE Finish(p)
    BY <1>2, <2>1, Finishes
  <2>2. CASE /\ req[p].next < CodesPerSet
             /\ req' = [req EXCEPT ![p].next = @ + 1]
             /\ UNCHANGED <<pc, delivered>>
    <3> DEFINE d == [req[p] EXCEPT !.next = @ + 1]
    <3>1. req[p] \in Requests /\ req[p].next + 1 \in 1..CodesPerSet
      BY <1>2, <2>2, CodesPerSetAssumption, RequestTypes
    <3>2. d \in Requests /\ d.op = req[p].op /\ d.secret = s
      BY <3>1 DEF Requests
    <3>3. req' = [req EXCEPT ![p] = d]
      BY <2>2
    <3> QED
      BY <1>1, <1>2, <2>2, <3>2, <3>3 DEF SecondFactorTypeOK, Others, MovesTyped
  <2> QED
    BY <2>1, <2>2 DEF InsertCode, Fail
<1>8. Others(p) /\ MovesTyped /\ Grows
  BY <1>1, <1>7 DEF At, Grows, pools
<1>9. SecondFactorTypeOK' /\ (delivered \subseteq generated)' /\ EnabledIsConfirmed'
  BY <1>1, <1>2, <1>3, <1>5, <1>6, <1>8
     DEF SecondFactorTypeOK, MovesTyped, FactorInv, EnabledIsConfirmed, row, pools
<1>10. ASSUME NEW c \in Codes, NEW t, {s, t} \in overlapped,
              codes'[c] = "unused", SetOf(c) # t,
              codes[c] = "unused" => {SetOf(c), t} \in overlapped
       PROVE  {SetOf(c), t} \in overlapped'
  BY <1>1, <1>5, <1>10 DEF pools
<1>11. ASSUME NEW c \in Codes, codes'[c] = "unused", SetOf(c) # s
       PROVE  {SetOf(c), s} \in overlapped'
  BY <1>1, <1>3, <1>5, <1>11 DEF OnlyOverlapping, pools
<1>12. Local(p)'
  <2>1. CASE At(p, "idle", NoRequest)
    BY <2>1, Answered
  <2>2. CASE /\ delivered' = delivered
             /\ pc'[p] = "insertCode" /\ req'[p].op = req[p].op
             /\ req'[p].secret = s
    <3>2. req'[p].secret \in generated' \ delivered'
      BY <1>1, <1>3, <2>2 DEF pools
    <3>3. req'[p].op = "enroll" /\ Enrolling(p)' /\ ~Presents(p)' /\ ~Owns(p)'
      BY <1>2, <1>3, <2>2
         DEF Local, Placed, Enrolling, EnrollLabels, Presents, Owns, Holds
    <3>4. OnlyOverlapping(req[p].secret)'
      BY <1>11, <2>2 DEF OnlyOverlapping
    <3> QED
      BY <2>2, <3>2, <3>3, <3>4 DEF Local, Placed, Spending
  <2> QED
    BY <1>7, <2>1, <2>2
<1>13. ASSUME NEW q \in Procs \ {p} PROVE Local(q)' /\ Apart(p, q)'
  <2>1. Local(q) /\ Apart(p, q) /\ pc'[q] = pc[q] /\ req'[q] = req[q]
    BY <1>8 DEF FactorInv, Others
  <2>2. Enrolling(q) => req[q].secret # s /\ {s, req[q].secret} \in overlapped
    BY <1>3, <2>1 DEF Apart
  <2>3. Enrolling(q) => req[q].secret \notin delivered'
    BY <1>6, <2>1, <2>2 DEF Local
  <2>4. ASSUME pc[q] = "insertCode" PROVE OnlyOverlapping(req[q].secret)'
    <3>1. Enrolling(q) /\ OnlyOverlapping(req[q].secret)
      BY <2>1, <2>4 DEF Local, Enrolling, EnrollLabels
    <3>2. ASSUME NEW c \in Codes, codes'[c] = "unused", SetOf(c) # req[q].secret
          PROVE  {SetOf(c), req[q].secret} \in overlapped'
      BY <1>10, <2>2, <3>1, <3>2 DEF OnlyOverlapping
    <3> QED
      BY <2>1, <3>2 DEF OnlyOverlapping
  <2>5. \A c \in Codes : SetOf(c) \in delivered /\ codes'[c] = "unused" =>
                           codes[c] = "unused"
    BY <1>3, <1>5
  <2>6. Owns(q) => req[q].session \notin mfa' /\ admitted'[req[q].session] = 0
    BY <1>1, <2>1 DEF Local
  <2>7. Local(q)'
    BY <1>6, <1>8, <2>1, <2>3, <2>4, <2>5, <2>6, LocalKept
  <2>8. /\ Enrolling(p)' => Enrolling(p) /\ req'[p].secret = req[p].secret
        /\ ~Owns(p)'
    BY <1>1, <1>2, <1>3, <1>7, Answered
       DEF At, Local, Placed, Enrolling, EnrollLabels, Presents, Owns, Holds
  <2>9. Apart(p, q)'
    BY <1>8, <2>8, ApartKept
  <2> QED
    BY <2>7, <2>9
<1>14. SetsMixOnlyIfOverlapped'
  <2>1. SetsMixOnlyIfOverlapped
    BY DEF FactorInv
  <2>2. ASSUME NEW c \in Codes, NEW d \in Codes,
               codes'[c] = "unused", codes'[d] = "unused", SetOf(c) # SetOf(d)
        PROVE  {SetOf(c), SetOf(d)} \in overlapped
    <3>1. CASE codes[c] = "unused" /\ codes[d] = "unused"
      BY <2>1, <2>2, <3>1 DEF SetsMixOnlyIfOverlapped
    <3>2. CASE SetOf(c) = s
      <4>1. {SetOf(d), s} \in overlapped
        BY <1>3, <1>5, <2>2, <3>2 DEF OnlyOverlapping
      <4>2. {SetOf(d), s} = {SetOf(c), SetOf(d)}
        BY <3>2
      <4> QED
        BY <4>1, <4>2
    <3>3. CASE SetOf(d) = s
      BY <1>3, <1>5, <2>2, <3>3 DEF OnlyOverlapping
    <3> QED
      BY <1>5, <2>2, <3>1, <3>2, <3>3
  <2> QED
    BY <1>1, <2>2 DEF SetsMixOnlyIfOverlapped, pools
<1>15. \A m \in Sessions : SessionOK(m)'
  BY <1>1 DEF FactorInv, SessionOK, pools
<1>16. ASSUME NEW c \in Codes PROVE CodeOK(c)'
  BY <1>1, <1>3, <1>5, <1>6 DEF FactorInv, CodeOK
<1> QED
  BY <1>8, <1>9, <1>12, <1>13, <1>14, <1>15, <1>16, OneMoves

-----------------------------------------------------------------------------
(* Confirm, and what Verify and Recovery do with the row. *)

LEMMA FindUserInv ==
  ASSUME FactorInv, NEW p \in Procs, FindUser(p)
  PROVE  FactorInv'
<1>1. /\ pc[p] = "findUser"
      /\ UNCHANGED <<row, codes, mfa, pools, delivered, admitted, uses>>
  BY DEF FindUser
<1>2. SecondFactorTypeOK /\ Local(p)
  BY DEF FactorInv
<1>3. confirmed' \in {confirmed, confirmed \cup {secret}}
  BY DEF FindUser
<1>4. Grows /\ EnabledIsConfirmed'
  BY <1>1, <1>3 DEF Grows, FactorInv, EnabledIsConfirmed, row, pools
<1>5. MovesTyped => SecondFactorTypeOK'
  BY <1>1, <1>2, <1>3 DEF SecondFactorTypeOK, MovesTyped, row, pools
<1>6. ~Enrolling(p)
  BY <1>1 DEF Enrolling, EnrollLabels
<1>7. CASE Finish(p)
  BY <1>1, <1>2, <1>4, <1>5, <1>7, Finishes, QuietAnswer
<1>8. CASE /\ req[p].op = "confirm" /\ req[p].secret = secret
           /\ confirmed' = confirmed \cup {secret}
           /\ Continue(p, "enable")
  <2>1. "enable" \in Labels
    BY DEF Labels
  <2>2. At(p, "enable", req[p]) /\ MovesTyped
    BY <1>2, <1>8, <2>1, Continues
  <2>3. ~Enrolling(p)' /\ ~Owns(p)'
    BY <1>8, <2>2 DEF At, Enrolling, EnrollLabels, Owns, Holds, Presents
  <2>4. Local(p)'
    BY <1>8, <2>2, <2>3 DEF At, Local, Placed, Presents, Spending
  <2> QED
    BY <1>1, <1>4, <1>5, <1>8, <2>1, <2>2, <2>3, <2>4, QuietContinue
<1>9. CASE req[p].op = "verify" /\ Continue(p, "store") /\ UNCHANGED confirmed
  <2>1. "store" \in Labels
    BY DEF Labels
  <2>2. At(p, "store", req[p]) /\ MovesTyped
    BY <1>2, <1>9, <2>1, Continues
  <2>3. ~Enrolling(p)' /\ Owns(p) /\ Presents(p) /\ Presents(p)'
    BY <1>1, <1>9, <2>2 DEF At, Enrolling, EnrollLabels, Owns, Holds, Presents
  <2>4. Local(p)'
    BY <1>1, <1>2, <1>9, <2>2, <2>3 DEF At, Local, Placed, Spending, pools
  <2> QED
    BY <1>1, <1>4, <1>5, <1>9, <2>1, <2>2, <2>3, <2>4, QuietContinue
<1>10. CASE /\ req[p].op = "recovery"
            /\ req' = [req EXCEPT ![p].secret = secret]
            /\ Goto(p, "disable")
            /\ UNCHANGED confirmed
  <2> DEFINE d == [req[p] EXCEPT !.secret = secret]
  <2>1. "disable" \in Labels /\ req[p] \in Requests /\ secret \in Secrets \cup {NoSecret}
    BY <1>2, RequestTypes DEF Labels, SecondFactorTypeOK
  <2>2. d \in Requests /\ d.op = "recovery"
        /\ d.session = req[p].session /\ d.code = req[p].code
    BY <1>10, <2>1 DEF Requests
  <2>3. req' = [req EXCEPT ![p] = d]
    BY <1>10
  <2>4. PICK r \in Requests : r = d
    BY <2>2
  <2>5. At(p, "disable", r) /\ MovesTyped
    BY <1>2, <1>10, <2>1, <2>3, <2>4, Moves
  <2>6. pc'[p] = "disable" /\ req'[p].op = "recovery" /\ Others(p)
        /\ req'[p].session = req[p].session /\ req'[p].code = req[p].code
    BY <2>2, <2>4, <2>5 DEF At
  <2>7. ~Enrolling(p)' /\ Owns(p) /\ Presents(p) /\ Presents(p)' /\ Spending(p)
    BY <1>1, <1>10, <2>6 DEF Enrolling, EnrollLabels, Owns, Holds, Presents, Spending
  <2>8. Local(p)'
    BY <1>1, <1>2, <1>10, <2>6, <2>7 DEF Local, Placed, pools
  <2>9. \A q \in Procs \ {p} : Apart(p, q)'
    BY <1>4, <2>6, <2>7, ApartKept
  <2> QED
    BY <1>1, <1>4, <1>5, <2>5, <2>6, <2>8, <2>9, QuietStep
<1> QED
  BY <1>7, <1>8, <1>9, <1>10 DEF FindUser, Fail

LEMMA EnableInv ==
  ASSUME FactorInv, NEW p \in Procs, Enable(p)
  PROVE  FactorInv'
<1>1. /\ pc[p] = "enable" /\ Finish(p)
      /\ UNCHANGED <<codes, mfa, pools, history>>
      /\ UpdateTOTP(req[p].secret, TRUE) \/ UNCHANGED row
  BY DEF Enable, Fail
<1>2. SecondFactorTypeOK /\ req[p].secret \in confirmed
  BY <1>1 DEF FactorInv, Local
<1>3. secret' \in Secrets \cup {NoSecret} /\ enabled' \in BOOLEAN /\ MovesTyped
  BY <1>1, <1>2, RequestTypes, Finishes DEF UpdateTOTP, row, SecondFactorTypeOK
<1>4. SecondFactorTypeOK'
  BY <1>1, <1>2, <1>3 DEF SecondFactorTypeOK, MovesTyped, pools, history
<1>5. EnabledIsConfirmed' /\ Grows
  BY <1>1, <1>2
     DEF UpdateTOTP, row, FactorInv, EnabledIsConfirmed, Grows, pools, history
<1> QED
  BY <1>1, <1>4, <1>5, QuietAnswer DEF pools, history

LEMMA DisableInv ==
  ASSUME FactorInv, NEW p \in Procs, Disable(p)
  PROVE  FactorInv'
<1>1. /\ pc[p] = "disable" /\ Continue(p, "store")
      /\ UNCHANGED <<codes, mfa, pools, history>>
      /\ UpdateTOTP(req[p].secret, FALSE) \/ UNCHANGED row
  BY DEF Disable
<1>2. SecondFactorTypeOK /\ Local(p) /\ "store" \in Labels
  BY DEF FactorInv, Labels
<1>3. At(p, "store", req[p]) /\ MovesTyped
  BY <1>1, <1>2, Continues
<1>4. secret' \in Secrets \cup {NoSecret} /\ enabled' \in BOOLEAN
  <2>1. secret \in Secrets \cup {NoSecret} /\ enabled \in BOOLEAN
    BY <1>2 DEF SecondFactorTypeOK
  <2>2. req[p].secret \in Secrets \cup {NoSecret}
    BY <1>2, RequestTypes
  <2> QED
    BY <1>1, <2>1, <2>2 DEF UpdateTOTP, row
<1>5. SecondFactorTypeOK'
  BY <1>1, <1>2, <1>3, <1>4 DEF SecondFactorTypeOK, MovesTyped, pools, history
<1>6. EnabledIsConfirmed' /\ Grows
  BY <1>1 DEF UpdateTOTP, row, FactorInv, EnabledIsConfirmed, Grows, pools, history
<1>7. /\ ~Enrolling(p)' /\ Owns(p) /\ Presents(p) /\ Presents(p)'
      /\ req[p].op = "recovery" /\ Spending(p)
  BY <1>1, <1>2, <1>3
     DEF At, Local, Placed, Enrolling, EnrollLabels, Owns, Holds, Presents, Spending
<1>8. Local(p)'
  BY <1>1, <1>2, <1>3, <1>7 DEF At, Local, Placed, pools, history
<1> QED
  BY <1>1, <1>2, <1>5, <1>6, <1>7, <1>8, QuietContinue DEF pools, history

-----------------------------------------------------------------------------
(* MFA sessions and recovery codes. *)

(* The session is stored once, by the only request that has it. *)
LEMMA StoreMFASessionInv ==
  ASSUME FactorInv, NEW p \in Procs, StoreMFASession(p)
  PROVE  FactorInv'
<1>1. /\ pc[p] = "storeMFA" /\ Finish(p)
      /\ UNCHANGED <<row, codes, pools, history>>
      /\ mfa' = mfa \cup {req[p].session} \/ mfa' = mfa
  BY DEF StoreMFASession
<1>2. SecondFactorTypeOK /\ Owns(p) /\ Local(p)
  BY <1>1 DEF FactorInv, Owns
<1>3. req[p].session \in issued \ mfa /\ admitted[req[p].session] = 0
  BY <1>2 DEF Local
<1>4. At(p, "idle", NoRequest) /\ MovesTyped /\ Others(p)
  BY <1>1, <1>2, Finishes DEF At
<1>5. Grows /\ SecondFactorTypeOK' /\ EnabledIsConfirmed' /\ SetsMixOnlyIfOverlapped'
  BY <1>1, <1>2, <1>3, <1>4
     DEF Grows, SecondFactorTypeOK, MovesTyped, row, pools, history, FactorInv,
         EnabledIsConfirmed, SetsMixOnlyIfOverlapped
<1>6. Local(p)' /\ ~Enrolling(p)' /\ ~Owns(p)'
  BY <1>4, Answered
<1>7. ASSUME NEW q \in Procs \ {p} PROVE Local(q)' /\ Apart(p, q)'
  <2>1. Local(q) /\ Apart(p, q) /\ pc'[q] = pc[q] /\ req'[q] = req[q]
    BY <1>4 DEF FactorInv, Others
  <2>2. Owns(q) => /\ req[q].session \notin mfa'
                   /\ admitted'[req[q].session] = 0
    BY <1>1, <1>2, <2>1 DEF Local, Apart, history
  <2>3. pc[q] = "insertCode" => OnlyOverlapping(req[q].secret)'
    BY <1>1, <2>1 DEF Local, OnlyOverlapping, pools
  <2>4. Enrolling(q) => req[q].secret \notin delivered'
    BY <1>1, <2>1 DEF Local, history
  <2>5. Local(q)'
    BY <1>1, <1>5, <2>1, <2>2, <2>3, <2>4, LocalKept DEF history
  <2> QED
    BY <1>6, <2>5 DEF Apart
<1>8. ASSUME NEW m \in Sessions PROVE SessionOK(m)'
  BY <1>1, <1>3 DEF FactorInv, SessionOK, pools, history
<1>9. \A c \in Codes : CodeOK(c)'
  BY <1>1 DEF FactorInv, CodeOK, history
<1>10. (delivered \subseteq generated)'
  BY <1>1 DEF FactorInv, pools, history
<1> QED
  BY <1>4, <1>5, <1>6, <1>7, <1>8, <1>9, <1>10, OneMoves

(* The session leaves the store with the request that takes it. *)
LEMMA ConsumeMFASessionInv ==
  ASSUME FactorInv, NEW p \in Procs, ConsumeMFASession(p)
  PROVE  FactorInv'
<1>1. /\ pc[p] = "consume" /\ UNCHANGED <<row, codes, pools, history>>
      /\ mfa' \in {mfa, mfa \ {req[p].session}}
  BY DEF ConsumeMFASession
<1>2. SecondFactorTypeOK /\ Local(p) /\ Presents(p)
  BY <1>1 DEF FactorInv, Local, Placed
<1>3. Grows /\ EnabledIsConfirmed'
  BY <1>1 DEF Grows, row, pools, history, FactorInv, EnabledIsConfirmed
<1>4. MovesTyped => SecondFactorTypeOK'
  BY <1>1, <1>2 DEF SecondFactorTypeOK, MovesTyped, row, pools, history
<1>5. CASE Finish(p)
  BY <1>1, <1>2, <1>3, <1>4, <1>5, Finishes, QuietAnswer DEF history
<1>6. CASE /\ req[p].session \in mfa
           /\ mfa' = mfa \ {req[p].session}
           /\ AfterConsume(p)
  <2>1. PICK label \in {"findUser", "list"} :
          /\ Continue(p, label)
          /\ label = IF req[p].op = "verify" THEN "findUser" ELSE "list"
    BY <1>6 DEF AfterConsume
  <2>2. At(p, label, req[p]) /\ MovesTyped
    BY <1>2, <2>1, Continues DEF Labels
  <2>3. pc'[p] = label /\ req'[p] = req[p] /\ Others(p)
    BY <2>2 DEF At
  <2>4. ~Enrolling(p)' /\ Presents(p)' /\ ~Spending(p)
    BY <1>1, <1>2, <2>1, <2>3 DEF Enrolling, EnrollLabels, Presents, Spending
  <2>5. req[p].session \in issued' \ mfa' /\ admitted'[req[p].session] = 0
    BY <1>1, <1>2, <1>6 DEF FactorInv, SessionOK, Local, pools, history, SecondFactorTypeOK
  <2>6. Placed(p)'
    BY <1>2, <2>1, <2>3, <2>4 DEF Placed, Presents
  <2>7. label = "findUser" => req[p].op = "verify"
    BY <2>1
  <2>8. Local(p)'
    BY <1>1, <1>2, <2>1, <2>3, <2>4, <2>5, <2>6, <2>7
       DEF Local, Spending, pools, history
  <2>9. ASSUME NEW q \in Procs \ {p} PROVE Apart(p, q)'
    <3>1. Owns(q)' = Owns(q) /\ req'[q] = req[q]
      BY <2>3 DEF Others, Owns, Holds, Presents
    <3>2. Owns(q) => req[q].session # req[p].session
      BY <1>6 DEF FactorInv, Local
    <3> QED
      BY <2>3, <2>4, <3>1, <3>2 DEF Apart
  <2> QED
    BY <1>1, <1>3, <1>4, <2>2, <2>3, <2>8, <2>9, QuietStep DEF history
<1> QED
  BY <1>5, <1>6 DEF ConsumeMFASession, Fail

LEMMA ListUnusedInv ==
  ASSUME FactorInv, NEW p \in Procs, ListUnused(p)
  PROVE  FactorInv'
<1>1. pc[p] = "list" /\ UNCHANGED <<row, codes, mfa, pools, history>>
  BY DEF ListUnused
<1>2. SecondFactorTypeOK /\ Local(p) /\ req[p].op = "recovery"
  BY <1>1 DEF FactorInv, Local, Placed
<1>3. Grows /\ EnabledIsConfirmed'
  BY <1>1 DEF Grows, row, pools, history, FactorInv, EnabledIsConfirmed
<1>4. MovesTyped => SecondFactorTypeOK'
  BY <1>1, <1>2 DEF SecondFactorTypeOK, MovesTyped, row, pools, history
<1>5. CASE Finish(p)
  BY <1>1, <1>2, <1>3, <1>4, <1>5, Finishes, QuietAnswer DEF history
<1>6. CASE Continue(p, "mark")
  <2>1. "mark" \in Labels
    BY DEF Labels
  <2>2. At(p, "mark", req[p]) /\ MovesTyped
    BY <1>2, <1>6, <2>1, Continues
  <2>3. ~Enrolling(p)' /\ Owns(p) /\ Presents(p) /\ Presents(p)'
    BY <1>1, <1>2, <2>2 DEF At, Enrolling, EnrollLabels, Owns, Holds, Presents
  <2>4. Local(p)'
    BY <1>1, <1>2, <2>2, <2>3 DEF At, Local, Placed, Spending, pools, history
  <2> QED
    BY <1>1, <1>3, <1>4, <1>6, <2>1, <2>2, <2>3, <2>4, QuietContinue DEF history
<1> QED
  BY <1>5, <1>6 DEF ListUnused, Fail

LEMMA MarkUsedInv ==
  ASSUME FactorInv, NEW p \in Procs, MarkUsed(p)
  PROVE  FactorInv'
<1>1. /\ pc[p] = "mark" /\ UNCHANGED <<row, mfa, pools, history>>
      /\ PutUsed(p) \/ UNCHANGED codes
  BY DEF MarkUsed
<1>2. SecondFactorTypeOK /\ Local(p) /\ req[p].op = "recovery" /\ req[p].code \in Codes
  BY <1>1 DEF FactorInv, Local, Placed
<1>3. /\ codes' \in [Codes -> {"none", "unused", "used"}]
      /\ \A c \in Codes : codes'[c] = "unused" => codes[c] = "unused"
  BY <1>1, <1>2 DEF PutUsed, SecondFactorTypeOK
<1>4. Grows /\ EnabledIsConfirmed'
  BY <1>1 DEF Grows, row, pools, history, FactorInv, EnabledIsConfirmed
<1>5. MovesTyped => SecondFactorTypeOK'
  BY <1>1, <1>2, <1>3 DEF SecondFactorTypeOK, MovesTyped, row, pools, history
<1>6. CASE Finish(p)
  BY <1>1, <1>2, <1>3, <1>4, <1>5, <1>6, Finishes, QuietAnswer DEF history
<1>7. CASE PutUsed(p) /\ Continue(p, "findUser")
  <2>1. "findUser" \in Labels
    BY DEF Labels
  <2>2. At(p, "findUser", req[p]) /\ MovesTyped
    BY <1>2, <1>7, <2>1, Continues
  <2>3. ~Enrolling(p)' /\ Owns(p) /\ Presents(p) /\ Presents(p)'
    BY <1>1, <1>2, <2>2 DEF At, Enrolling, EnrollLabels, Owns, Holds, Presents
  <2>4. codes'[req[p].code] # "unused"
    BY <1>2, <1>7 DEF PutUsed, SecondFactorTypeOK
  <2>5. Local(p)'
    BY <1>1, <1>2, <2>2, <2>3, <2>4 DEF At, Local, Placed, Spending, pools, history
  <2> QED
    BY <1>1, <1>3, <1>4, <1>5, <1>7, <2>1, <2>2, <2>3, <2>5, QuietContinue DEF history
<1> QED
  BY <1>6, <1>7 DEF MarkUsed, Fail

(* The session and the code of a completed login are spent already. *)
LEMMA StoreRefreshTokenInv ==
  ASSUME FactorInv, NEW p \in Procs, StoreRefreshToken(p)
  PROVE  FactorInv'
<1> DEFINE m == req[p].session
           admit == admitted' = [admitted EXCEPT ![m] = @ + 1]
           use == uses' = IF req[p].op = "recovery"
                          THEN [uses EXCEPT ![req[p].code] = @ + 1] ELSE uses
<1>1. /\ pc[p] = "store" /\ Finish(p)
      /\ UNCHANGED <<row, codes, mfa, pools, delivered, confirmed>>
      /\ (admit /\ use) \/ UNCHANGED <<admitted, uses>>
  BY DEF StoreRefreshToken, Fail
<1>2. SecondFactorTypeOK /\ Local(p) /\ Presents(p) /\ Owns(p)
  BY <1>1 DEF FactorInv, Local, Placed, Owns, Holds
<1>3. m \in Sessions /\ m \in issued \ mfa /\ admitted[m] = 0
  BY <1>2 DEF Local, SecondFactorTypeOK
<1>4. req[p].op = "recovery" => /\ req[p].code \in Codes
                                /\ SetOf(req[p].code) \in delivered
                                /\ codes[req[p].code] # "unused"
  BY <1>1, <1>2 DEF Local, Spending
<1>5. At(p, "idle", NoRequest) /\ MovesTyped /\ Others(p)
  BY <1>1, <1>2, Finishes DEF At
<1>6. admitted' \in [Sessions -> Nat]
  BY <1>1, <1>2 DEF SecondFactorTypeOK
<1>7. uses' \in [Codes -> Nat]
  BY <1>1, <1>2 DEF SecondFactorTypeOK
<1>8. Grows /\ SecondFactorTypeOK' /\ EnabledIsConfirmed' /\ SetsMixOnlyIfOverlapped'
  BY <1>1, <1>2, <1>5, <1>6, <1>7
     DEF Grows, SecondFactorTypeOK, MovesTyped, row, pools, FactorInv,
         EnabledIsConfirmed, SetsMixOnlyIfOverlapped
<1>9. Local(p)' /\ ~Enrolling(p)' /\ ~Owns(p)'
  BY <1>5, Answered
<1>10. ASSUME NEW q \in Procs \ {p} PROVE Local(q)' /\ Apart(p, q)'
  <2>1. Local(q) /\ Apart(p, q) /\ pc'[q] = pc[q] /\ req'[q] = req[q]
    BY <1>5 DEF FactorInv, Others
  <2>2. ASSUME Owns(q) PROVE admitted'[req[q].session] = 0
    <3>1. req[q].session # m /\ req[q].session \in Sessions /\ admitted[req[q].session] = 0
      BY <1>2, <2>1, <2>2 DEF Local, Apart, SecondFactorTypeOK
    <3> QED
      BY <1>1, <1>2, <3>1 DEF SecondFactorTypeOK
  <2>3. pc[q] = "insertCode" => OnlyOverlapping(req[q].secret)'
    BY <1>1, <2>1 DEF Local, OnlyOverlapping, pools
  <2>4. Enrolling(q) => req[q].secret \notin delivered'
    BY <1>1, <2>1 DEF Local
  <2>5. Owns(q) => req[q].session \notin mfa'
    BY <1>1, <2>1 DEF Local
  <2>6. Local(q)'
    BY <1>1, <1>8, <2>1, <2>2, <2>3, <2>4, <2>5, LocalKept
  <2> QED
    BY <1>9, <2>6 DEF Apart
<1>11. ASSUME NEW n \in Sessions PROVE SessionOK(n)'
  <2>1. SessionOK(n)
    BY DEF FactorInv
  <2>2. admitted'[n] = IF admit /\ n = m THEN 1 ELSE admitted[n]
    BY <1>1, <1>2, <1>3 DEF SecondFactorTypeOK
  <2> QED
    BY <1>1, <1>3, <2>1, <2>2 DEF SessionOK, pools
<1>12. ASSUME NEW c \in Codes PROVE CodeOK(c)'
  <2>1. CodeOK(c)
    BY DEF FactorInv
  <2>2. uses'[c] = uses[c] \/ (req[p].op = "recovery" /\ c = req[p].code)
    BY <1>1, <1>2 DEF SecondFactorTypeOK
  <2> QED
    BY <1>1, <1>4, <2>1, <2>2 DEF CodeOK
<1>13. (delivered \subseteq generated)'
  BY <1>1 DEF FactorInv, pools
<1> QED
  BY <1>5, <1>8, <1>9, <1>10, <1>11, <1>12, <1>13, OneMoves

(* Steps of no request. *)
LEMMA ExpireMFASessionInv ==
  ASSUME FactorInv, mfa' \subseteq mfa,
         UNCHANGED <<row, codes, pc, req, pools, history>>
  PROVE  FactorInv'
<1>1. Grows /\ SecondFactorTypeOK' /\ EnabledIsConfirmed' /\ SetsMixOnlyIfOverlapped'
  BY DEF Grows, SecondFactorTypeOK, row, pools, history, FactorInv,
         EnabledIsConfirmed, SetsMixOnlyIfOverlapped
<1>2. ASSUME NEW q \in Procs PROVE Local(q)'
  <2>1. Local(q)
    BY DEF FactorInv
  <2>2. pc[q] = "insertCode" => OnlyOverlapping(req[q].secret)'
    BY <2>1 DEF Local, OnlyOverlapping, pools
  <2> QED
    BY <1>1, <2>1, <2>2, LocalKept DEF Local, history
<1>3. \A q \in Procs : \A r \in Procs \ {q} : Apart(q, r)'
  BY <1>1, ApartStill
<1>4. /\ \A m \in Sessions : SessionOK(m)'
      /\ \A c \in Codes : CodeOK(c)'
  BY DEF FactorInv, SessionOK, CodeOK, pools, history
<1> QED
  BY <1>1, <1>2, <1>3, <1>4 DEF FactorInv, pools, history

LEMMA CrashInv ==
  ASSUME FactorInv, Crash
  PROVE  FactorInv'
<1>1. UNCHANGED <<row, codes, mfa, pools, history>>
  BY DEF Crash
<1>2. ASSUME NEW p \in Procs PROVE pc'[p] = "idle" /\ req'[p] = NoRequest
  BY DEF Crash
<1>3. pc' \in [Procs -> Labels] /\ req' \in [Procs -> Requests]
  BY NoRequestType DEF Crash, Labels
<1>4. ASSUME NEW p \in Procs PROVE Local(p)' /\ ~Enrolling(p)' /\ ~Owns(p)'
  BY <1>2 DEF Local, Placed, NoRequest, Enrolling, EnrollLabels, Owns, Holds,
              Presents, Spending
<1>5. \A p \in Procs : \A q \in Procs \ {p} : Apart(p, q)'
  BY <1>4 DEF Apart
<1>6. SecondFactorTypeOK' /\ EnabledIsConfirmed' /\ SetsMixOnlyIfOverlapped'
  BY <1>1, <1>3 DEF SecondFactorTypeOK, row, pools, history, FactorInv,
                    EnabledIsConfirmed, SetsMixOnlyIfOverlapped
<1>7. /\ \A m \in Sessions : SessionOK(m)'
      /\ \A c \in Codes : CodeOK(c)'
  BY <1>1 DEF FactorInv, SessionOK, CodeOK, pools, history
<1> QED
  BY <1>1, <1>4, <1>5, <1>6, <1>7 DEF FactorInv, pools, history

-----------------------------------------------------------------------------

LEMMA StepInv == FactorInv /\ [Next]_vars => FactorInv'
<1> SUFFICES ASSUME FactorInv, [Next]_vars PROVE FactorInv'
  OBVIOUS
<1>1. ASSUME NEW p \in Procs, Start(p) PROVE FactorInv'
  BY <1>1, StartEnrollInv, StartConfirmInv, StartLoginInv, StartVerifyInv,
     StartRecoveryInv DEF Start
<1>2. ASSUME NEW p \in Procs, Step(p) PROVE FactorInv'
  BY <1>2, StoreSecretInv, DeleteCodesInv, InsertCodeInv, FindUserInv, EnableInv,
     DisableInv, StoreMFASessionInv, ConsumeMFASessionInv, ListUnusedInv,
     MarkUsedInv, StoreRefreshTokenInv DEF Step
<1>3. ASSUME NEW m \in Sessions, ExpireMFASession(m) PROVE FactorInv'
  BY <1>3, ExpireMFASessionInv DEF ExpireMFASession
<1>4. CASE Crash
  BY <1>4, CrashInv
<1>5. CASE UNCHANGED vars
  BY <1>5, ExpireMFASessionInv DEF vars
<1> QED
  BY <1>1, <1>2, <1>3, <1>4, <1>5 DEF Next

(* The invariant all the safety theorems of this module rest on. *)
THEOREM Invariant == Spec => []FactorInv
  BY InitInv, StepInv, PTL DEF Spec

(* The state of the second factor has its types. *)
THEOREM TypeCorrect == Spec => []SecondFactorTypeOK
<1>1. FactorInv => SecondFactorTypeOK
  BY DEF FactorInv
<1> QED
  BY <1>1, Invariant, PTL

(* An MFA session completes one login, by Verify or by Recovery. *)
THEOREM LoginOnce == Spec => []OneLoginPerSession
<1>1. FactorInv => OneLoginPerSession
  BY DEF FactorInv, SessionOK, OneLoginPerSession
<1> QED
  BY <1>1, Invariant, PTL

(* While 2FA is enabled the row holds a secret that Confirm has validated. *)
THEOREM EnabledConfirmed == Spec => []EnabledIsConfirmed
<1>1. FactorInv => EnabledIsConfirmed
  BY DEF FactorInv
<1> QED
  BY <1>1, Invariant, PTL

(* A recovery code that completed a login is never accepted afterwards. *)
THEOREM SpentStaysDead == Spec => []SpentCodesAreDead
<1>1. FactorInv => SpentCodesAreDead
  BY DEF FactorInv, CodeOK, SpentCodesAreDead
<1> QED
  BY <1>1, Invariant, PTL

(* Codes of two sets are accepted together only after enrolments that      *)
(* overlapped.                                                             *)
THEOREM SetsMix == Spec => []SetsMixOnlyIfOverlapped
<1>1. FactorInv => SetsMixOnlyIfOverlapped
  BY DEF FactorInv
<1> QED
  BY <1>1, Invariant, PTL

-----------------------------------------------------------------------------
(* How often a recovery code may be used.                                  *)

(* RecoveryCodeUsedOnce fails: Recovery lists the unused codes and marks    *)
(* one in two round trips.  But only the requests that have listed a code  *)
(* before one of them marks it use it too: however many MFA sessions there *)
(* are, a code completes no more logins than there are requests at a time. *)
RecoveryCodeBudget == \A c \in Codes : uses[c] <= Cardinality(Procs)

(* The requests that have found a code unused and may yet complete a login *)
(* with it: none joins them once the code has been used.                   *)
Claims(p) ==
  req[p].op = "recovery" /\ pc[p] \in {"mark", "findUser", "disable", "store"}
Claimants(c) == {p \in Procs : Claims(p) /\ req[p].code = c}

Within(c) == uses[c] + Cardinality(Claimants(c)) <= Cardinality(Procs)

BudgetInv == \A c \in Codes : Within(c)

LEMMA Counts ==
  ASSUME NEW c
  PROVE  /\ Cardinality(Procs) \in Nat
         /\ IsFiniteSet(Claimants(c)) /\ Cardinality(Claimants(c)) \in Nat
         /\ Cardinality(Claimants(c)') \in Nat
         /\ Cardinality(Claimants(c)') <= Cardinality(Procs)
<1>1. Claimants(c) \subseteq Procs /\ Claimants(c)' \subseteq Procs
  BY DEF Claimants
<1> QED
  BY <1>1, ProcsAssumption, FS_Subset, FS_CardinalityType

(* Whoever claims no code it did not claim before leaves the budget alone. *)
LEMMA ClaimsShrink ==
  ASSUME SecondFactorTypeOK, BudgetInv, UNCHANGED uses,
         \A p \in Procs : Claims(p)' => Claims(p) /\ req'[p].code = req[p].code
  PROVE  BudgetInv'
<1> SUFFICES ASSUME NEW c \in Codes PROVE Within(c)'
  BY DEF BudgetInv
<1>1. Claimants(c)' \subseteq Claimants(c)
  BY DEF Claimants
<1>2. Cardinality(Claimants(c)') <= Cardinality(Claimants(c))
  BY <1>1, Counts, FS_Subset
<1>3. uses[c] \in Nat /\ uses[c] + Cardinality(Claimants(c)) <= Cardinality(Procs)
  BY DEF SecondFactorTypeOK, BudgetInv, Within
<1>4. uses[c] + Cardinality(Claimants(c)') <= Cardinality(Procs)
  BY <1>2, <1>3, Counts
<1> QED
  BY <1>4 DEF Within

LEMMA ClaimsOfOthers ==
  ASSUME NEW p \in Procs, Others(p),
         Claims(p)' => Claims(p) /\ req'[p].code = req[p].code
  PROVE  \A q \in Procs : Claims(q)' => Claims(q) /\ req'[q].code = req[q].code
  BY DEF Claims, Others

LEMMA AnswerShrinks ==
  ASSUME SecondFactorTypeOK, BudgetInv, UNCHANGED uses, NEW p \in Procs, Finish(p)
  PROVE  BudgetInv'
<1>1. At(p, "idle", NoRequest)
  BY Finishes
<1>2. Others(p) /\ ~Claims(p)'
  BY <1>1 DEF At, Claims
<1> QED
  BY <1>2, ClaimsOfOthers, ClaimsShrink

(* Requests that go on with what they have; those of the other operations, *)
(* and those that claim already.                                           *)
LEMMA ContinueShrinks ==
  ASSUME SecondFactorTypeOK, BudgetInv, UNCHANGED uses, NEW p \in Procs,
         NEW label \in Labels, Continue(p, label),
         req[p].op # "recovery" \/ Claims(p) \/ label \in {"consume", "list"}
  PROVE  BudgetInv'
<1>1. At(p, label, req[p])
  BY Continues
<1>2. Others(p) /\ (Claims(p)' => Claims(p) /\ req'[p].code = req[p].code)
  BY <1>1 DEF At, Claims
<1> QED
  BY <1>2, ClaimsOfOthers, ClaimsShrink

LEMMA StartShrinks ==
  ASSUME SecondFactorTypeOK, BudgetInv, NEW p \in Procs, Start(p)
  PROVE  BudgetInv'
<1>1. UNCHANGED uses
  BY DEF Start, StartEnroll, StartConfirm, StartLogin, StartVerify, StartRecovery, history
<1>2. Others(p)
  BY DEF Start, StartEnroll, StartConfirm, StartLogin, StartVerify, StartRecovery,
         Begin, Goto, Others, SecondFactorTypeOK
<1>3. ~Claims(p)'
  <2>1. CASE StartConfirm(p)
    <3>1. PICK s : req' = [req EXCEPT ![p] = [NoRequest EXCEPT !.op = "confirm", !.secret = s]]
      BY <2>1 DEF StartConfirm, Begin
    <3>2. req'[p].op = "confirm"
      BY <3>1 DEF NoRequest, SecondFactorTypeOK
    <3> QED
      BY <3>2 DEF Claims
  <2>2. CASE ~StartConfirm(p)
    <3>1. pc'[p] \in {"storeSecret", "storeMFA", "consume"}
      BY <2>2 DEF Start, StartEnroll, StartLogin, StartVerify, StartRecovery, Begin,
                  Goto, SecondFactorTypeOK
    <3> QED
      BY <3>1 DEF Claims
  <2> QED
    BY <2>1, <2>2
<1> QED
  BY <1>1, <1>2, <1>3, ClaimsOfOthers, ClaimsShrink

LEMMA EnrollShrinks ==
  ASSUME FactorInv, BudgetInv, NEW p \in Procs,
         StoreSecret(p) \/ DeleteCodes(p) \/ InsertCode(p)
  PROVE  BudgetInv'
<1>1. SecondFactorTypeOK /\ UNCHANGED uses
  BY DEF StoreSecret, DeleteCodes, InsertCode, history, FactorInv
<1>2. CASE Finish(p)
  BY <1>1, <1>2, AnswerShrinks
<1>3. CASE ~Finish(p)
  <2>1. Others(p) /\ pc'[p] \in {"deleteCodes", "insertCode"}
    BY <1>1, <1>3 DEF StoreSecret, DeleteCodes, InsertCode, Fail, Continue, Goto, Others,
                      SecondFactorTypeOK
  <2> QED
    BY <1>1, <2>1, ClaimsOfOthers, ClaimsShrink DEF Claims
<1> QED
  BY <1>2, <1>3

LEMMA FindUserShrinks ==
  ASSUME FactorInv, BudgetInv, NEW p \in Procs, FindUser(p)
  PROVE  BudgetInv'
<1>1. SecondFactorTypeOK /\ UNCHANGED uses /\ pc[p] = "findUser"
  BY DEF FindUser, FactorInv
<1>2. CASE Finish(p)
  BY <1>1, <1>2, AnswerShrinks
<1>3. CASE req[p].op \in {"confirm", "verify"} /\ \E label \in {"enable", "store"} : Continue(p, label)
  BY <1>1, <1>3, ContinueShrinks DEF Labels
<1>4. CASE /\ req[p].op = "recovery"
           /\ req' = [req EXCEPT ![p].secret = secret]
           /\ Goto(p, "disable")
  <2>1. req[p] \in Requests
    BY <1>1, RequestTypes
  <2>2. req'[p].code = req[p].code
    BY <1>1, <1>4, <2>1 DEF SecondFactorTypeOK, Requests
  <2>3. Others(p)
    BY <1>1, <1>4 DEF Others, Goto, SecondFactorTypeOK
  <2>4. Claims(p)
    BY <1>1, <1>4 DEF Claims
  <2> QED
    BY <1>1, <2>2, <2>3, <2>4, ClaimsOfOthers, ClaimsShrink
<1> QED
  BY <1>2, <1>3, <1>4 DEF FindUser, Fail

LEMMA PassShrinks ==
  ASSUME FactorInv, BudgetInv, NEW p \in Procs,
         \/ Enable(p) \/ Disable(p) \/ StoreMFASession(p)
         \/ ConsumeMFASession(p) \/ MarkUsed(p)
  PROVE  BudgetInv'
<1>1. SecondFactorTypeOK /\ Placed(p) /\ UNCHANGED uses
  BY DEF Enable, Disable, StoreMFASession, ConsumeMFASession, MarkUsed, history,
         FactorInv, Local
<1>2. CASE Finish(p)
  BY <1>1, <1>2, AnswerShrinks
<1>3. CASE Disable(p) /\ Continue(p, "store")
  BY <1>1, <1>3, ContinueShrinks DEF Disable, Placed, Claims, Labels
<1>4. CASE MarkUsed(p) /\ Continue(p, "findUser")
  BY <1>1, <1>4, ContinueShrinks DEF MarkUsed, Placed, Claims, Labels
<1>5. CASE ConsumeMFASession(p) /\ AfterConsume(p)
  BY <1>1, <1>5, ContinueShrinks
     DEF ConsumeMFASession, AfterConsume, Placed, Presents, Labels
<1> QED
  BY <1>2, <1>3, <1>4, <1>5
     DEF Enable, Disable, StoreMFASession, ConsumeMFASession, MarkUsed, Fail

(* A new claim is made on a code that nobody has used. *)
LEMMA ListUnusedBudget ==
  ASSUME FactorInv, BudgetInv, NEW p \in Procs, ListUnused(p)
  PROVE  BudgetInv'
<1>1. SecondFactorTypeOK /\ UNCHANGED uses
  BY DEF ListUnused, history, FactorInv
<1>2. CASE Finish(p)
  BY <1>1, <1>2, AnswerShrinks
<1>3. CASE codes[req[p].code] = "unused" /\ Continue(p, "mark")
  <2>1. At(p, "mark", req[p])
    BY <1>1, <1>3, Continues DEF Labels
  <2>2. ASSUME NEW c \in Codes PROVE Within(c)'
    <3>1. uses[c] \in Nat /\ uses'[c] = uses[c]
      BY <1>1 DEF SecondFactorTypeOK
    <3>2. CASE c = req[p].code
      <4>1. uses[c] = 0
        BY <1>3, <3>1, <3>2 DEF FactorInv, CodeOK
      <4>2. uses'[c] + Cardinality(Claimants(c)') <= Cardinality(Procs)
        BY <3>1, <4>1, Counts
      <4> QED
        BY <4>2 DEF Within
    <3>3. CASE c # req[p].code
      <4>1. Claimants(c)' \subseteq Claimants(c)
        BY <2>1, <3>3 DEF At, Others, Claimants, Claims
      <4>2. Cardinality(Claimants(c)') <= Cardinality(Claimants(c))
        BY <4>1, Counts, FS_Subset
      <4>3. uses[c] + Cardinality(Claimants(c)) <= Cardinality(Procs)
        BY DEF BudgetInv, Within
      <4>4. uses'[c] + Cardinality(Claimants(c)') <= Cardinality(Procs)
        BY <3>1, <4>2, <4>3, Counts
      <4> QED
        BY <4>4 DEF Within
    <3> QED
      BY <3>2, <3>3
  <2> QED
    BY <2>2 DEF BudgetInv
<1> QED
  BY <1>2, <1>3 DEF ListUnused, Fail

(* A login that is completed uses its claim up. *)
LEMMA StoreRefreshTokenBudget ==
  ASSUME FactorInv, BudgetInv, NEW p \in Procs, StoreRefreshToken(p)
  PROVE  BudgetInv'
<1>1. SecondFactorTypeOK /\ pc[p] = "store" /\ Finish(p)
  BY DEF StoreRefreshToken, Fail, FactorInv
<1>2. CASE UNCHANGED uses
  BY <1>1, <1>2, AnswerShrinks
<1>3. CASE req[p].op = "recovery" /\ uses' = [uses EXCEPT ![req[p].code] = @ + 1]
  <2>1. At(p, "idle", NoRequest)
    BY <1>1, Finishes
  <2>2. ASSUME NEW c \in Codes PROVE Within(c)'
    <3>1. /\ uses[c] \in Nat
          /\ uses'[c] = IF c = req[p].code THEN uses[c] + 1 ELSE uses[c]
      BY <1>1, <1>3 DEF SecondFactorTypeOK
    <3>2. uses[c] + Cardinality(Claimants(c)) <= Cardinality(Procs)
      BY DEF BudgetInv, Within
    <3>3. Claimants(c)' = Claimants(c) \ {p}
      BY <2>1 DEF At, Others, Claimants, Claims
    <3>4. CASE c = req[p].code
      <4>1. p \in Claimants(c)
        BY <1>1, <1>3, <3>4 DEF Claimants, Claims
      <4>2. Cardinality(Claimants(c)') = Cardinality(Claimants(c)) - 1
        BY <3>3, <4>1, Counts, FS_RemoveElement
      <4>3. uses'[c] + Cardinality(Claimants(c)') <= Cardinality(Procs)
        BY <3>1, <3>2, <3>4, <4>2, Counts
      <4> QED
        BY <4>3 DEF Within
    <3>5. CASE c # req[p].code
      <4>1. Cardinality(Claimants(c)') <= Cardinality(Claimants(c))
        BY <3>3, Counts, FS_Subset
      <4>2. uses'[c] + Cardinality(Claimants(c)') <= Cardinality(Procs)
        BY <3>1, <3>2, <3>5, <4>1, Counts
      <4> QED
        BY <4>2 DEF Within
    <3> QED
      BY <3>4, <3>5
  <2> QED
    BY <2>2 DEF BudgetInv
<1> QED
  BY <1>2, <1>3 DEF StoreRefreshToken

LEMMA BudgetStep == FactorInv /\ BudgetInv /\ [Next]_vars => BudgetInv'
<1> SUFFICES ASSUME FactorInv, BudgetInv, [Next]_vars PROVE BudgetInv'
  OBVIOUS
<1>1. SecondFactorTypeOK
  BY DEF FactorInv
<1>2. ASSUME NEW p \in Procs, Start(p) \/ Step(p) PROVE BudgetInv'
  BY <1>1, <1>2, StartShrinks, EnrollShrinks, FindUserShrinks, PassShrinks,
     ListUnusedBudget, StoreRefreshTokenBudget DEF Step
<1>3. CASE UNCHANGED vars \/ \E m \in Sessions : ExpireMFASession(m)
  <2>1. UNCHANGED <<pc, req, uses>>
    BY <1>3 DEF vars, history, ExpireMFASession
  <2> QED
    BY <1>1, <2>1, ClaimsShrink DEF Claims
<1>4. CASE Crash
  <2>1. UNCHANGED uses /\ \A p \in Procs : pc'[p] = "idle"
    BY <1>4 DEF Crash, history
  <2> QED
    BY <1>1, <2>1, ClaimsShrink DEF Claims
<1> QED
  BY <1>2, <1>3, <1>4 DEF Next

(* A recovery code completes no more logins than there are requests at a   *)
(* time: those that listed it before one of them marked it.                *)
THEOREM RecoveryCodesBounded == Spec => []RecoveryCodeBudget
<1>1. Init => BudgetInv
  <2> SUFFICES ASSUME Init, NEW c \in Codes PROVE Within(c)
    BY DEF BudgetInv
  <2>1. uses[c] = 0 /\ Claimants(c) = {}
    BY DEF Init, Claimants, Claims
  <2>2. Cardinality(Procs) \in Nat /\ Cardinality(Claimants(c)) = 0
    BY <2>1, Counts, FS_EmptySet
  <2> QED
    BY <2>1, <2>2 DEF Within
<1>2. SecondFactorTypeOK /\ BudgetInv => RecoveryCodeBudget
  <2> SUFFICES ASSUME SecondFactorTypeOK, BudgetInv, NEW c \in Codes
               PROVE  uses[c] <= Cardinality(Procs)
    BY DEF RecoveryCodeBudget
  <2>1. uses[c] \in Nat /\ uses[c] + Cardinality(Claimants(c)) <= Cardinality(Procs)
    BY DEF SecondFactorTypeOK, BudgetInv, Within
  <2> QED
    BY <2>1, Counts
<1> QED
  BY <1>1, <1>2, BudgetStep, Invariant, TypeCorrect, PTL DEF Spec

-----------------------------------------------------------------------------
(* The refinement: MFA sessions are one-time keys. *)

Given == {m \in issued : \A p \in Procs : pc[p] = "storeMFA" => req[p].session # m}
HeldBy(m) == {p \in Procs : Holds(p) /\ req[p].session = m}

(* What an End of OneTimeKeys is, in terms of one session. *)
LEMMA EndStep ==
  ASSUME Given \subseteq Given', issued' \subseteq Sessions, mfa' \subseteq mfa,
         \A m \in Sessions : HeldBy(m)' \in {HeldBy(m), {}}
  PROVE  OneTime!End
<1> DEFINE held == [m \in Sessions |-> HeldBy(m)]
<1>1. Given' \in SUBSET Sessions
  BY DEF Given
<1>2. held' \in [Sessions -> SUBSET Procs]
  BY DEF HeldBy
<1>3. \A m \in Sessions : held'[m] \in {held[m], {}}
  OBVIOUS
<1> QED
  BY <1>1, <1>2, <1>3 DEF OneTime!End, Given, HeldBy, Holds, Presents

(* The holders of every session but p stay. *)
LEMMA HoldersKept ==
  ASSUME NEW p \in Procs, NEW m, Others(p)
  PROVE  HeldBy(m)' \ {p} = HeldBy(m) \ {p}
  BY DEF HeldBy, Holds, Presents, Others

(* A request that takes no session, and gives none out, only ends. *)
LEMMA QuietEnd ==
  ASSUME FactorInv, NEW p \in Procs, Others(p), issued \subseteq issued',
         issued' \subseteq Sessions, mfa' \subseteq mfa,
         pc'[p] = "storeMFA" => req'[p].session \notin issued,
         Holds(p)' => Holds(p) /\ req'[p].session = req[p].session
  PROVE  OneTime!End
<1>1. Given \subseteq Given'
  BY DEF Given, Others
<1>2. ASSUME NEW m \in Sessions PROVE HeldBy(m)' \in {HeldBy(m), {}}
  <2>1. HeldBy(m)' \ {p} = HeldBy(m) \ {p}
    BY HoldersKept
  <2>2. p \in HeldBy(m)' => p \in HeldBy(m)
    BY DEF HeldBy
  <2>3. p \in HeldBy(m) => HeldBy(m) = {p}
    BY DEF FactorInv, Apart, Owns, HeldBy
  <2> QED
    BY <2>1, <2>2, <2>3
<1> QED
  BY <1>1, <1>2, EndStep

(* Requests arrive. *)
LEMMA StartEnd ==
  ASSUME FactorInv, NEW p \in Procs, Start(p)
  PROVE  OneTime!End
<1>1. SecondFactorTypeOK /\ pc[p] = "idle" /\ ~Holds(p)
  BY DEF FactorInv, Local, Placed, Holds, Start, StartEnroll, StartConfirm, StartLogin,
         StartVerify, StartRecovery, Begin
<1>2. FactorInv'
  BY StepInv DEF Next
<1>3. issued' \subseteq Sessions
  BY <1>2 DEF FactorInv, SecondFactorTypeOK
<1>4. issued \subseteq issued' /\ mfa' = mfa
  BY DEF Start, StartEnroll, StartConfirm, StartLogin, StartVerify, StartRecovery,
         pools
<1>5. /\ Others(p) /\ (Presents(p)' => pc'[p] = "consume")
      /\ pc'[p] = "storeMFA" => req'[p].session \notin issued
  <2>1. ASSUME NEW r, NEW label, Begin(p, r, label)
        PROVE  Others(p) /\ pc'[p] = label /\ req'[p] = r
    BY <1>1, <2>1 DEF Begin, Goto, Others, SecondFactorTypeOK
  <2>2. CASE StartEnroll(p)
    <3>1. PICK s : Begin(p, [NoRequest EXCEPT !.op = "enroll", !.secret = s], "storeSecret")
      BY <2>2 DEF StartEnroll
    <3> DEFINE d == [NoRequest EXCEPT !.op = "enroll", !.secret = s]
    <3>2. d.op = "enroll"
      BY DEF NoRequest
    <3>3. Others(p) /\ pc'[p] = "storeSecret" /\ req'[p] = d
      BY <2>1, <3>1
    <3> QED
      BY <3>2, <3>3 DEF Presents
  <2>3. CASE StartConfirm(p)
    <3>1. PICK s : Begin(p, [NoRequest EXCEPT !.op = "confirm", !.secret = s], "findUser")
      BY <2>3 DEF StartConfirm
    <3> DEFINE d == [NoRequest EXCEPT !.op = "confirm", !.secret = s]
    <3>2. d.op = "confirm"
      BY DEF NoRequest
    <3>3. Others(p) /\ pc'[p] = "findUser" /\ req'[p] = d
      BY <2>1, <3>1
    <3> QED
      BY <3>2, <3>3 DEF Presents
  <2>4. CASE StartLogin(p)
    <3>1. PICK m \in Sessions \ issued :
            Begin(p, [NoRequest EXCEPT !.op = "login", !.session = m], "storeMFA")
      BY <2>4 DEF StartLogin
    <3> DEFINE d == [NoRequest EXCEPT !.op = "login", !.session = m]
    <3>2. d.op = "login" /\ d.session = m
      BY DEF NoRequest
    <3>3. Others(p) /\ pc'[p] = "storeMFA" /\ req'[p] = d
      BY <2>1, <3>1
    <3> QED
      BY <3>2, <3>3 DEF Presents
  <2>5. CASE StartVerify(p) \/ StartRecovery(p)
    <3>1. \E r : Begin(p, r, "consume")
      BY <2>5 DEF StartVerify, StartRecovery
    <3> QED
      BY <2>1, <3>1
  <2> QED
    BY <2>2, <2>3, <2>4, <2>5 DEF Start
<1> QED
  BY <1>1, <1>3, <1>4, <1>5, QuietEnd DEF Holds

(* Steps that keep what the request holds, or answer it. *)
LEMMA OtherStep ==
  ASSUME FactorInv, NEW p \in Procs,
         \/ StoreSecret(p) \/ DeleteCodes(p) \/ InsertCode(p) \/ FindUser(p)
         \/ Enable(p) \/ Disable(p) \/ ListUnused(p) \/ MarkUsed(p)
         \/ StoreRefreshToken(p)
  PROVE  OneTime!End
<1>1. SecondFactorTypeOK /\ Placed(p)
  BY DEF FactorInv, Local
<1>2. issued' = issued /\ mfa' = mfa /\ pc[p] \notin {"idle", "consume", "storeMFA"}
  BY DEF StoreSecret, DeleteCodes, InsertCode, FindUser, Enable, Disable, ListUnused,
         MarkUsed, StoreRefreshToken, pools
<1>3. \/ Finish(p)
      \/ \E label \in Labels : /\ label \notin {"idle", "consume", "storeMFA"}
                               /\ Continue(p, label)
      \/ \E n : req' = [req EXCEPT ![p].next = n] /\ UNCHANGED pc
      \/ \E s : req' = [req EXCEPT ![p].secret = s] /\ Goto(p, "disable")
  <2>1. CASE InsertCode(p)
    BY <2>1 DEF InsertCode, Fail
  <2>2. CASE FindUser(p)
    BY <2>2 DEF FindUser, Fail, Labels
  <2>3. CASE ~InsertCode(p) /\ ~FindUser(p)
    BY <2>3 DEF StoreSecret, DeleteCodes, Enable, Disable, ListUnused, MarkUsed,
                StoreRefreshToken, Fail, Labels
  <2> QED
    BY <2>1, <2>2, <2>3
<1>4. /\ Others(p) /\ pc'[p] \notin {"consume", "storeMFA"}
      /\ Presents(p)' => Presents(p) /\ req'[p].session = req[p].session
  <2>1. req[p] \in Requests
    BY <1>1, RequestTypes
  <2>2. CASE Finish(p)
    BY <1>1, <2>2, Finishes DEF At, NoRequest, Presents
  <2>3. CASE \E label \in Labels : /\ label \notin {"idle", "consume", "storeMFA"}
                                   /\ Continue(p, label)
    BY <1>1, <2>3, Continues DEF At, Presents
  <2>4. CASE \E n : req' = [req EXCEPT ![p].next = n] /\ UNCHANGED pc
    <3>1. PICK n : req' = [req EXCEPT ![p].next = n]
      BY <2>4
    <3>2. req'[p] = [req[p] EXCEPT !.next = n] /\ Others(p)
      BY <1>1, <2>4, <3>1 DEF SecondFactorTypeOK, Others
    <3> QED
      BY <1>2, <2>1, <2>4, <3>2 DEF Presents, Requests
  <2>5. CASE \E s : req' = [req EXCEPT ![p].secret = s] /\ Goto(p, "disable")
    <3>1. PICK s : req' = [req EXCEPT ![p].secret = s]
      BY <2>5
    <3>2. req'[p] = [req[p] EXCEPT !.secret = s] /\ pc'[p] = "disable" /\ Others(p)
      BY <1>1, <2>5, <3>1 DEF SecondFactorTypeOK, Others, Goto
    <3> QED
      BY <2>1, <3>2 DEF Presents, Requests
  <2> QED
    BY <1>3, <2>2, <2>3, <2>4, <2>5
<1> QED
  BY <1>1, <1>2, <1>4, QuietEnd DEF Holds, SecondFactorTypeOK

(* The SET of StoreMFASession hands the session out. *)
LEMMA IssueStep ==
  ASSUME FactorInv, NEW p \in Procs, StoreMFASession(p)
  PROVE  OneTime!Next
<1>1. /\ pc[p] = "storeMFA" /\ Finish(p) /\ issued' = issued
      /\ mfa' = mfa \cup {req[p].session} \/ mfa' = mfa
  BY DEF StoreMFASession, pools
<1>2. SecondFactorTypeOK /\ Owns(p) /\ req[p].session \in issued
  BY <1>1 DEF FactorInv, Local, Owns
<1>3. /\ pc'[p] = "idle" /\ req'[p] = NoRequest /\ Others(p)
      /\ ~Holds(p) /\ ~Holds(p)'
  BY <1>1, <1>2, Finishes DEF At, FactorInv, Local, Placed, Holds, Presents, NoRequest
<1>4. CASE mfa' = mfa
  BY <1>1, <1>2, <1>3, <1>4, QuietEnd DEF SecondFactorTypeOK, OneTime!Next
<1>5. CASE mfa' = mfa \cup {req[p].session}
  <2>1. PICK m \in Sessions : m = req[p].session
    BY <1>2 DEF SecondFactorTypeOK
  <2>2. m \notin Given
    BY <1>1, <2>1 DEF Given
  <2>3. ASSUME NEW q \in Procs \ {p}, pc[q] = "storeMFA" PROVE req[q].session # m
    BY <1>2, <2>1, <2>3 DEF FactorInv, Apart, Owns
  <2>4. Given' = Given \cup {m}
    BY <1>1, <1>2, <1>3, <2>1, <2>3 DEF Given, Others
  <2>5. \A n \in Sessions : HeldBy(n)' = HeldBy(n)
    <3>1. \A n \in Sessions : p \notin HeldBy(n) /\ p \notin HeldBy(n)'
      BY <1>3 DEF HeldBy
    <3> QED
      <4>1. \A n \in Sessions : HeldBy(n)' \ {p} = HeldBy(n) \ {p}
        BY <1>3, HoldersKept
      <4> QED
        BY <3>1, <4>1
  <2>6. OneTime!Issue(m)
    BY <1>5, <2>1, <2>2, <2>4, <2>5
       DEF OneTime!Issue, Given, HeldBy, Holds, Presents
  <2> QED
    BY <2>6 DEF OneTime!Next
<1> QED
  BY <1>1, <1>4, <1>5

LEMMA TakeSession ==
  ASSUME FactorInv, NEW p \in Procs, NEW m \in Sessions, m \in mfa,
         mfa' = mfa \ {m}, UNCHANGED issued, pc[p] = "consume",
         pc'[p] \in {"findUser", "list"}, req'[p] = req[p], Presents(p),
         req[p].session = m, Others(p)
  PROVE  OneTime!Take(m, p)
<1> DEFINE held == [n \in Sessions |-> HeldBy(n)]
<1>1. m \in issued /\ \A q \in Procs : Owns(q) => req[q].session # m
  BY DEF FactorInv, Local, SessionOK
<1>2. Given' = Given
  BY DEF Given, Others
<1>3. ASSUME NEW n \in Sessions PROVE HeldBy(n)' = IF n = m THEN {p} ELSE HeldBy(n)
  <2>1. p \notin HeldBy(n) /\ (p \in HeldBy(n)' <=> n = m)
    BY DEF HeldBy, Holds, Presents
  <2>2. n = m => HeldBy(n) = {}
    BY <1>1 DEF HeldBy, Owns
  <2>3. HeldBy(n)' \ {p} = HeldBy(n) \ {p}
    BY HoldersKept
  <2>4. CASE n = m
    BY <2>1, <2>2, <2>3, <2>4
  <2>5. CASE n # m
    BY <2>1, <2>3, <2>5
  <2> QED
    BY <2>4, <2>5
<1>4. held' = [held EXCEPT ![m] = {p}]
  <2>1. held' = [n \in Sessions |-> HeldBy(n)']
    OBVIOUS
  <2>2. [held EXCEPT ![m] = {p}] = [n \in Sessions |-> IF n = m THEN {p} ELSE HeldBy(n)]
    OBVIOUS
  <2> QED
    BY <1>3, <2>1, <2>2
<1> QED
  BY <1>2, <1>4 DEF OneTime!Take, Given, HeldBy, Holds, Presents

LEMMA TakeStep ==
  ASSUME FactorInv, NEW p \in Procs, ConsumeMFASession(p)
  PROVE  OneTime!Next
<1>1. /\ pc[p] = "consume" /\ UNCHANGED issued
      /\ mfa' \in {mfa, mfa \ {req[p].session}}
  BY DEF ConsumeMFASession, pools
<1>2. SecondFactorTypeOK /\ Presents(p) /\ req[p].session \in Sessions
  BY <1>1 DEF FactorInv, SecondFactorTypeOK, Local, Placed
<1>3. CASE Finish(p)
  <2>1. pc'[p] = "idle" /\ Others(p) /\ ~Holds(p)'
    BY <1>2, <1>3, Finishes DEF At, NoRequest, Holds, Presents
  <2> QED
    BY <1>1, <1>2, <2>1, QuietEnd DEF SecondFactorTypeOK, OneTime!Next
<1>4. CASE /\ req[p].session \in mfa
           /\ mfa' = mfa \ {req[p].session}
           /\ AfterConsume(p)
  <2>1. PICK label \in {"findUser", "list"} : Continue(p, label)
    BY <1>4 DEF AfterConsume
  <2>2. pc'[p] = label /\ req'[p] = req[p] /\ Others(p)
    BY <1>2, <2>1, Continues DEF At, Labels
  <2>3. PICK m \in Sessions : m = req[p].session
    BY <1>2
  <2>4. OneTime!Take(m, p)
    BY <1>1, <1>2, <1>4, <2>2, <2>3, TakeSession
  <2> QED
    BY <2>4 DEF OneTime!Next
<1> QED
  BY <1>3, <1>4 DEF ConsumeMFASession, Fail

LEMMA EnvironmentStep ==
  ASSUME FactorInv, Crash \/ \E m \in Sessions : ExpireMFASession(m)
  PROVE  OneTime!End
<1>1. UNCHANGED issued /\ mfa' \subseteq mfa /\ issued \subseteq Sessions
  BY DEF Crash, ExpireMFASession, pools, FactorInv, SecondFactorTypeOK
<1>2. CASE Crash
  <2>1. Given \subseteq Given'
    BY <1>1, <1>2 DEF Crash, Given
  <2>2. \A m \in Sessions : HeldBy(m)' = {}
    BY <1>2 DEF Crash, HeldBy, Holds, Presents, NoRequest
  <2> QED
    BY <1>1, <2>1, <2>2, EndStep
<1>3. CASE \E m \in Sessions : ExpireMFASession(m)
  <2>1. Given' = Given /\ \A m \in Sessions : HeldBy(m)' = HeldBy(m)
    BY <1>1, <1>3 DEF ExpireMFASession, Given, HeldBy, Holds, Presents
  <2> QED
    BY <1>1, <2>1, EndStep
<1> QED
  BY <1>2, <1>3

LEMMA OneTimeInit == Init => OneTime!Init
<1> SUFFICES ASSUME Init PROVE OneTime!Init
  OBVIOUS
<1>1. Given = {} /\ mfa = {} /\ \A m \in Sessions : HeldBy(m) = {}
  BY DEF Init, Given, HeldBy, Holds, Presents, NoRequest
<1> QED
  BY <1>1 DEF OneTime!Init, Given, HeldBy, Holds, Presents

LEMMA OneTimeStep == FactorInv /\ [Next]_vars => [OneTime!Next]_(OneTime!vars)
<1> SUFFICES ASSUME FactorInv, [Next]_vars PROVE [OneTime!Next]_(OneTime!vars)
  OBVIOUS
<1>1. ASSUME NEW p \in Procs, Start(p) PROVE OneTime!Next
  BY <1>1, StartEnd DEF OneTime!Next
<1>2. ASSUME NEW p \in Procs, Step(p) PROVE OneTime!Next
  BY <1>2, IssueStep, TakeStep, OtherStep DEF Step, OneTime!Next
<1>3. ASSUME Crash \/ \E m \in Sessions : ExpireMFASession(m) PROVE OneTime!Next
  BY <1>3, EnvironmentStep DEF OneTime!Next
<1>4. CASE UNCHANGED vars
  BY <1>4 DEF vars, pools, OneTime!vars
<1> QED
  BY <1>1, <1>2, <1>3, <1>4 DEF Next

(* MFA sessions implement OneTimeKeys. *)
THEOREM SessionsOneTime == Spec => MFASessionsAreOneTime
  BY Invariant, OneTimeInit, OneTimeStep, PTL
     DEF Spec, MFASessionsAreOneTime, OneTime!Spec

=============================================================================
