-------------------------- MODULE SessionLifecycle --------------------------
(* What the login sessions promise, without requests, Redis keys or        *)
(* goroutines.  A login begins a chain of one-time refresh tokens; each    *)
(* exchange spends the chain's token and, unless something goes wrong,     *)
(* stores the next one.  A chain may be closed at any time: by a logout, a *)
(* revocation, a TTL or a failure.  Module Sessions implements this under  *)
(* the mapping given in SessionsRefinement.                                *)

CONSTANTS Tokens, NoToken

VARIABLES
  status,   \* token -> "new" | "drawn" | "usable" | "spent"
  chain,    \* token -> the login token of its chain, NoToken while new
  renewing  \* chains whose token has been exchanged, the next not drawn yet

lifecycleVars == <<status, chain, renewing>>

Statuses == {"new", "drawn", "usable", "spent"}

LifecycleTypeOK ==
  /\ status \in [Tokens -> Statuses]
  /\ chain \in [Tokens -> Tokens \cup {NoToken}]
  /\ renewing \subseteq Tokens

LifecycleInit ==
  /\ status = [t \in Tokens |-> "new"]
  /\ chain = [t \in Tokens |-> NoToken]
  /\ renewing = {}

(* A login draws the first token of a new chain. *)
Open(t) ==
  /\ status[t] = "new"
  /\ status' = [status EXCEPT ![t] = "drawn"]
  /\ chain' = [chain EXCEPT ![t] = t]
  /\ UNCHANGED renewing

(* A drawn token becomes exchangeable. *)
Store(t) ==
  /\ status[t] = "drawn"
  /\ status' = [status EXCEPT ![t] = "usable"]
  /\ UNCHANGED <<chain, renewing>>

(* A client exchanges the token: from here on only its chain is renewing. *)
Exchange(t) ==
  /\ status[t] = "usable"
  /\ status' = [status EXCEPT ![t] = "spent"]
  /\ renewing' = renewing \cup {chain[t]}
  /\ UNCHANGED chain

(* A renewing chain draws its next token. *)
Draw(s, t) ==
  /\ s \in renewing
  /\ status[t] = "new"
  /\ status' = [status EXCEPT ![t] = "drawn"]
  /\ chain' = [chain EXCEPT ![t] = s]
  /\ renewing' = renewing \ {s}

(* The tokens of S are given up, and the renewals of R abandoned. *)
Close(S, R) ==
  /\ \A t \in S : status[t] \in {"drawn", "usable"}
  /\ status' = [t \in Tokens |-> IF t \in S THEN "spent" ELSE status[t]]
  /\ renewing' = renewing \ R
  /\ UNCHANGED chain

LifecycleNext ==
  \/ \E t \in Tokens : Open(t) \/ Store(t) \/ Exchange(t)
  \/ \E s, t \in Tokens : Draw(s, t)
  \/ \E S, R \in SUBSET Tokens : Close(S, R)

LifecycleSpec == LifecycleInit /\ [][LifecycleNext]_lifecycleVars

-----------------------------------------------------------------------------

Held(t) == status[t] \in {"drawn", "usable"}

(* Some token of chain s can be, or is about to be, exchanged. *)
Active(s) == s \in renewing \/ \E t \in Tokens : Held(t) /\ chain[t] = s

(* A chain has one holder: one token that is drawn or usable, or one       *)
(* renewal, never both and never two.                                      *)
OneHolder ==
  \A s, t \in Tokens :
    /\ Held(s) /\ Held(t) /\ chain[s] = chain[t] => s = t
    /\ Held(t) => chain[t] \notin renewing

(* A login that has been closed, for whatever reason, is never reopened    *)
(* by a request that was still in flight.                                  *)
ClosedStaysClosed ==
  [][\A s \in Tokens : status[s] # "new" /\ ~Active(s) => ~Active(s)']_lifecycleVars

(* A token is exchanged at most once: a spent token stays spent. *)
SpentStaysSpent ==
  [][\A t \in Tokens : status[t] = "spent" => status'[t] = "spent"]_lifecycleVars

=============================================================================
