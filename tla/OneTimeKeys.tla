----------------------------- MODULE OneTimeKeys -----------------------------
(* What the program promises of a key that is good for one use: the reset   *)
(* and verification links, the MFA sessions and the authorization codes.    *)
(* The request that takes a key from the store is its only holder; when it  *)
(* has used the key or failed, or when the key has run out, the key is gone *)
(* for good.                                                                *)
CONSTANTS
  Keys,
  Holders   \* the requests

VARIABLES
  given,    \* keys that were handed out
  stored,   \* keys that can be taken
  held      \* the requests that have taken a key and not finished

vars == <<given, stored, held>>

OneTimeTypeOK ==
  /\ given \subseteq Keys
  /\ stored \subseteq given
  /\ held \in [Keys -> SUBSET Holders]

Init ==
  /\ given = {}
  /\ stored = {}
  /\ held = [k \in Keys |-> {}]

(* A new key is handed out and stored. *)
Issue(k) ==
  /\ k \in Keys \ given
  /\ given' = given \cup {k}
  /\ stored' = stored \cup {k}
  /\ UNCHANGED held

Take(k, p) ==
  /\ k \in stored
  /\ stored' = stored \ {k}
  /\ held' = [held EXCEPT ![k] = {p}]
  /\ UNCHANGED given

(* Holders have used their key or failed; keys have run out, or were lost  *)
(* with the answer that they had been taken, or before they were stored.   *)
End ==
  /\ given' \in SUBSET Keys
  /\ given \subseteq given'
  /\ stored' \in SUBSET stored
  /\ held' \in [Keys -> SUBSET Holders]
  /\ \A k \in Keys : held'[k] \in {held[k], {}}

Next ==
  \/ \E k \in Keys : Issue(k)
  \/ \E k \in Keys, p \in Holders : Take(k, p)
  \/ End

Spec == Init /\ [][Next]_vars

-----------------------------------------------------------------------------

(* A key has one holder at most, and none while it can still be taken:     *)
(* what a request does with a key it has taken, no other request does.     *)
HeldAlone ==
  \A k \in Keys :
    /\ \A p, q \in held[k] : p = q
    /\ held[k] # {} => k \in given \ stored

=============================================================================
