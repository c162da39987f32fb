------------------------- MODULE SessionsRefinement -------------------------
(* Module Sessions implements SessionLifecycle: the refinement mapping.    *)
EXTENDS Sessions

(* The chains whose refresh request has consumed a token and not drawn the *)
(* next one yet.                                                           *)
Renewing ==
  {root[req[p].old] :
     p \in {q \in Procs : pc[q] \in {"srem", "findUser"} /\ req[q].op = "refresh"}}

(* t has been generated and its SET not been sent yet. *)
Drawn(t) == \E p \in Procs : pc[p] = "setRefresh" /\ req[p].new = t

Status ==
  [t \in Tokens |->
     IF root[t] = NoToken THEN "new"
     ELSE IF Live(t) THEN "usable"
     ELSE IF Drawn(t) THEN "drawn"
     ELSE "spent"]

Lifecycle == INSTANCE SessionLifecycle
               WITH status <- Status, chain <- root, renewing <- Renewing

(* The concurrent requests, with their failures, crashes and revocations,  *)
(* behave like chains of one-time tokens: every round trip of every        *)
(* handler is a step of the lifecycle or invisible to it.                  *)
ImplementsLifecycle == Lifecycle!LifecycleSpec

(* A login that has ended, by logout, revocation, TTL or failure, is never *)
(* reopened by a request that was still in flight.                         *)
LoginIsFinal == Lifecycle!ClosedStaysClosed

=============================================================================
