--------------------------- MODULE PromiseProofs ---------------------------
(* The promises of SessionLifecycle and OneTimeKeys hold for any sets of    *)
(* tokens, keys and requests: what implements one of them keeps them.      *)
EXTENDS SessionLifecycle, OneTimeKeys, TLAPS

-----------------------------------------------------------------------------
(* Chains of one-time tokens.                                              *)

(* What makes OneHolder inductive: the chain of a token is known exactly   *)
(* when the token is no longer new, and begins with a token that is no     *)
(* longer new itself, so that a login cannot draw the name of a chain that *)
(* is in use.                                                              *)
ChainsBegun ==
  /\ \A t \in Tokens : status[t] # "new" => chain[t] \in Tokens /\ status[chain[t]] # "new"
  /\ \A s \in renewing : status[s] # "new"

LifecycleInv == LifecycleTypeOK /\ ChainsBegun /\ OneHolder

(* A login opens a chain whose name no token and no renewal carries yet.   *)
LEMMA OpenKeeps ==
  ASSUME LifecycleInv, NEW t \in Tokens, Open(t)
  PROVE  LifecycleInv'
<1>1. LifecycleTypeOK'
  BY DEF LifecycleInv, LifecycleTypeOK, Statuses, Open
<1>2. ChainsBegun'
  BY DEF LifecycleInv, LifecycleTypeOK, Statuses, ChainsBegun, Open
<1>3. \A s \in Tokens : Held(s) => chain[s] # t
  BY DEF LifecycleInv, ChainsBegun, Held, Open
<1>4. t \notin renewing
  BY DEF LifecycleInv, ChainsBegun, Open
<1>5. OneHolder'
  BY <1>3, <1>4 DEF LifecycleInv, LifecycleTypeOK, OneHolder, Held, Open
<1>6. QED
  BY <1>1, <1>2, <1>5 DEF LifecycleInv

(* Storing a drawn token and exchanging a usable one change the holder of  *)
(* the chain, never the number of holders.                                 *)
LEMMA StoreKeeps ==
  ASSUME LifecycleInv, NEW t \in Tokens, Store(t)
  PROVE  LifecycleInv'
<1>1. LifecycleTypeOK'
  BY DEF LifecycleInv, LifecycleTypeOK, Statuses, Store
<1>2. ChainsBegun'
  BY DEF LifecycleInv, LifecycleTypeOK, Statuses, ChainsBegun, Store
<1>3. OneHolder'
  BY DEF LifecycleInv, LifecycleTypeOK, OneHolder, Held, Store
<1>4. QED
  BY <1>1, <1>2, <1>3 DEF LifecycleInv

LEMMA ExchangeKeeps ==
  ASSUME LifecycleInv, NEW t \in Tokens, Exchange(t)
  PROVE  LifecycleInv'
<1>1. LifecycleTypeOK'
  BY DEF LifecycleInv, LifecycleTypeOK, Statuses, ChainsBegun, Exchange
<1>2. ChainsBegun'
  BY DEF LifecycleInv, LifecycleTypeOK, Statuses, ChainsBegun, Exchange
<1>3. \A s \in Tokens : Held(s) /\ chain[s] = chain[t] => s = t
  BY DEF LifecycleInv, OneHolder, Held, Exchange
<1>4. OneHolder'
  BY <1>3 DEF LifecycleInv, LifecycleTypeOK, OneHolder, Held, Exchange
<1>5. QED
  BY <1>1, <1>2, <1>4 DEF LifecycleInv

(* The renewal ends when it draws the next token.                          *)
LEMMA DrawKeeps ==
  ASSUME LifecycleInv, NEW s \in Tokens, NEW t \in Tokens, Draw(s, t)
  PROVE  LifecycleInv'
<1>1. LifecycleTypeOK'
  BY DEF LifecycleInv, LifecycleTypeOK, Statuses, Draw
<1>2. ChainsBegun'
  BY DEF LifecycleInv, LifecycleTypeOK, Statuses, ChainsBegun, Draw
<1>3. \A r \in Tokens : Held(r) => chain[r] # s
  BY DEF LifecycleInv, OneHolder, Draw
<1>4. OneHolder'
  BY <1>3 DEF LifecycleInv, LifecycleTypeOK, OneHolder, Held, Draw
<1>5. QED
  BY <1>1, <1>2, <1>4 DEF LifecycleInv

LEMMA CloseKeeps ==
  ASSUME LifecycleInv, NEW S \in SUBSET Tokens, NEW R \in SUBSET Tokens, Close(S, R)
  PROVE  LifecycleInv'
<1>1. LifecycleTypeOK'
  BY DEF LifecycleInv, LifecycleTypeOK, Statuses, Close
<1>2. ChainsBegun'
  BY DEF LifecycleInv, LifecycleTypeOK, Statuses, ChainsBegun, Close
<1>3. \A t \in Tokens : Held(t)' => Held(t) /\ chain'[t] = chain[t]
  BY DEF LifecycleInv, LifecycleTypeOK, Held, Close
<1>4. OneHolder'
  BY <1>3 DEF LifecycleInv, OneHolder, Close
<1>5. QED
  BY <1>1, <1>2, <1>4 DEF LifecycleInv

LEMMA LifecycleInductive == LifecycleSpec => []LifecycleInv
<1>1. LifecycleInit => LifecycleInv
  BY DEF LifecycleInit, LifecycleInv, LifecycleTypeOK, Statuses, ChainsBegun, OneHolder, Held
<1>2. LifecycleInv /\ [LifecycleNext]_lifecycleVars => LifecycleInv'
  <2> SUFFICES ASSUME LifecycleInv, [LifecycleNext]_lifecycleVars PROVE LifecycleInv'
    OBVIOUS
  <2>1. CASE UNCHANGED lifecycleVars
    BY <2>1 DEF lifecycleVars, LifecycleInv, LifecycleTypeOK, ChainsBegun, OneHolder, Held
  <2>2. CASE \E t \in Tokens : Open(t) \/ Store(t) \/ Exchange(t)
    BY <2>2, OpenKeeps, StoreKeeps, ExchangeKeeps
  <2>3. CASE \E s, t \in Tokens : Draw(s, t)
    BY <2>3, DrawKeeps
  <2>4. CASE \E S, R \in SUBSET Tokens : Close(S, R)
    BY <2>4, CloseKeeps
  <2>5. QED
    BY <2>1, <2>2, <2>3, <2>4 DEF LifecycleNext
<1>3. QED
  BY <1>1, <1>2, PTL DEF LifecycleSpec

(* A chain never has two holders, so that no two clients can each exchange *)
(* a token of the same login (login.go, Refresh).                          *)
THEOREM ChainHasOneHolder == LifecycleSpec => []OneHolder
<1>1. LifecycleInv => OneHolder
  BY DEF LifecycleInv
<1>2. QED
  BY <1>1, LifecycleInductive, PTL

(* A refresh token is exchanged at most once (GETDEL in                    *)
(* ConsumeRefreshToken).                                                   *)
THEOREM TokensAreOneTime == LifecycleSpec => SpentStaysSpent
<1>1. ASSUME LifecycleInv, [LifecycleNext]_lifecycleVars, NEW t \in Tokens, status[t] = "spent"
      PROVE  status'[t] = "spent"
  <2>1. CASE \E r \in Tokens : Open(r) \/ Store(r) \/ Exchange(r)
    BY <1>1, <2>1 DEF LifecycleInv, LifecycleTypeOK, Open, Store, Exchange
  <2>2. CASE \E s, r \in Tokens : Draw(s, r)
    BY <1>1, <2>2 DEF LifecycleInv, LifecycleTypeOK, Draw
  <2>3. CASE \E S, R \in SUBSET Tokens : Close(S, R)
    BY <1>1, <2>3 DEF Close
  <2>4. CASE UNCHANGED lifecycleVars
    BY <1>1, <2>4 DEF lifecycleVars
  <2>5. QED
    BY <1>1, <2>1, <2>2, <2>3, <2>4 DEF LifecycleNext
<1>2. LifecycleInv /\ [LifecycleNext]_lifecycleVars
        => [\A t \in Tokens : status[t] = "spent" => status'[t] = "spent"]_lifecycleVars
  BY <1>1
<1>3. QED
  BY <1>2, LifecycleInductive, PTL DEF LifecycleSpec, SpentStaysSpent

(* A chain that is neither held nor being renewed is over, whatever is     *)
(* still in flight.                                                        *)
THEOREM ClosingIsFinal == LifecycleSpec => ClosedStaysClosed
<1>1. ASSUME LifecycleInv, [LifecycleNext]_lifecycleVars, NEW s \in Tokens,
             status[s] # "new", ~Active(s)
      PROVE  ~Active(s)'
  <2>1. CASE \E t \in Tokens : Open(t)
    BY <1>1, <2>1 DEF LifecycleInv, LifecycleTypeOK, Active, Held, Open
  <2>2. CASE \E t \in Tokens : Store(t)
    BY <1>1, <2>2 DEF LifecycleInv, LifecycleTypeOK, Active, Held, Store
  <2>3. CASE \E t \in Tokens : Exchange(t)
    BY <1>1, <2>3 DEF LifecycleInv, LifecycleTypeOK, Active, Held, Exchange
  <2>4. CASE \E r, t \in Tokens : Draw(r, t)
    BY <1>1, <2>4 DEF LifecycleInv, LifecycleTypeOK, Active, Held, Draw
  <2>5. CASE \E S, R \in SUBSET Tokens : Close(S, R)
    BY <1>1, <2>5 DEF LifecycleInv, LifecycleTypeOK, Active, Held, Close
  <2>6. CASE UNCHANGED lifecycleVars
    BY <1>1, <2>6 DEF lifecycleVars, Active, Held
  <2>7. QED
    BY <1>1, <2>1, <2>2, <2>3, <2>4, <2>5, <2>6 DEF LifecycleNext
<1>2. LifecycleInv /\ [LifecycleNext]_lifecycleVars
        => [\A s \in Tokens : status[s] # "new" /\ ~Active(s) => ~Active(s)']_lifecycleVars
  BY <1>1
<1>3. QED
  BY <1>2, LifecycleInductive, PTL DEF LifecycleSpec, ClosedStaysClosed

-----------------------------------------------------------------------------
(* Keys good for one use.                                                  *)

(* A key that was taken has one holder and cannot be taken again; it       *)
(* follows from the steps.                                                 *)
THEOREM KeysHeldAlone == Spec => [](OneTimeTypeOK /\ HeldAlone)
<1> DEFINE Inv == OneTimeTypeOK /\ HeldAlone
<1>1. Init => Inv
  BY DEF Init, OneTimeTypeOK, HeldAlone
<1>2. Inv /\ [Next]_vars => Inv'
  <2> SUFFICES ASSUME Inv, [Next]_vars PROVE Inv'
    OBVIOUS
  <2>1. ASSUME NEW k \in Keys, Issue(k) PROVE Inv'
    BY <2>1 DEF Issue, OneTimeTypeOK, HeldAlone
  <2>2. ASSUME NEW k \in Keys, NEW p \in Holders, Take(k, p) PROVE Inv'
    BY <2>2 DEF Take, OneTimeTypeOK, HeldAlone
  <2>3. ASSUME End PROVE Inv'
    BY <2>3 DEF End, OneTimeTypeOK, HeldAlone
  <2>4. ASSUME UNCHANGED vars PROVE Inv'
    BY <2>4 DEF vars, OneTimeTypeOK, HeldAlone
  <2> QED
    BY <2>1, <2>2, <2>3, <2>4 DEF Next
<1> QED
  BY <1>1, <1>2, PTL DEF Spec

=============================================================================
