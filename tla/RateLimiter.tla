----------------------------- MODULE RateLimiter -----------------------------
(* The request limiter in front of registration, login and reset-request    *)
(* (SlidingWindowLimiter in internal/middleware/ratelimit.go).  There is    *)
(* one counter per path and client address; counters do not interact, so    *)
(* one stands for all.  Every request sends INCR and EXPIRE in a pipeline,  *)
(* and commands of other requests run between the two.  With MayFail the    *)
(* pipeline may break at any point; the limiter then lets the request pass. *)
(*                                                                          *)
(* Time is counted in ticks and the TTL by the ticks left, as in module     *)
(* Lockout; a pipeline sees at most one tick.  The counter is only compared *)
(* with the limit: it saturates one above it.                               *)
EXTENDS Integers, Sequences, FiniteSets

CONSTANTS
  Procs,    \* request goroutines of one client address on one path
  Limit,    \* requests let through per window
  Window,   \* the window, in ticks
  MayFail   \* BOOLEAN: the pipeline may fail

ASSUME LimitAssumption == Limit \in Nat \ {0}
ASSUME ProcsAssumption == IsFiniteSet(Procs)
(* A window is longer than a pipeline takes. *)
ASSUME WindowAssumption == Window \in Nat /\ Window > 1
ASSUME MayFailAssumption == MayFail \in BOOLEAN

NoTTL == -1   \* the counter has no expiry

VARIABLES
  count,     \* rl:...:path:ip, 0 when the key is absent
  ttl,       \* ticks until the key expires; NoTTL: never
  pc,        \* the command each request waits for
  seen,      \* what the request's INCR returned
  late,      \* the request has seen a tick
  passed,    \* history: the requests let through in the last Window ticks,
             \* newest first, each by the ticks since then
  silence,   \* history: ticks since the limiter last heard of the client
  disturbed  \* history: a pipeline has failed

vars == <<count, ttl, pc, seen, late, passed, silence, disturbed>>

Counts == 0..(Limit + 1)

RateTypeOK ==
  /\ count \in Counts
  /\ ttl \in {NoTTL} \cup 0..Window
  /\ pc \in [Procs -> {"idle", "expire"}]
  /\ seen \in [Procs -> Counts]
  /\ late \in [Procs -> BOOLEAN]
  /\ passed \in Seq(0..(Window - 1))
  /\ silence \in 0..Window
  /\ disturbed \in BOOLEAN

Init ==
  /\ count = 0
  /\ ttl = 0
  /\ pc = [p \in Procs |-> "idle"]
  /\ seen = [p \in Procs |-> 0]
  /\ late = [p \in Procs |-> FALSE]
  /\ passed = <<>>
  /\ silence = Window
  /\ disturbed = FALSE

-----------------------------------------------------------------------------

Increment(n) == IF n > Limit THEN n ELSE n + 1

(* The request is let through or refused; PerIP answers 429, and           *)
(* PerEmailSilent 200 without calling the handler.                         *)
Finish(p) ==
  /\ pc' = [pc EXCEPT ![p] = "idle"]
  /\ seen' = [seen EXCEPT ![p] = 0]
  /\ late' = [late EXCEPT ![p] = FALSE]

LetThrough == passed' = <<0>> \o passed

(* INCR keeps the TTL of an existing key and gives a new key none. *)
IncrementKey ==
  /\ count' = Increment(count)
  /\ ttl' = IF count = 0 THEN NoTTL ELSE ttl

(* A request arrives and its INCR is done.  When the pipeline breaks here, *)
(* the INCR applied or not, the request goes to its handler uncounted by   *)
(* the limiter's decision.                                                 *)
Incr(p) ==
  /\ pc[p] = "idle"
  /\ silence' = 0
  /\ \/ /\ IncrementKey
        /\ pc' = [pc EXCEPT ![p] = "expire"]
        /\ seen' = [seen EXCEPT ![p] = Increment(count)]
        /\ UNCHANGED <<late, disturbed>>
     \/ /\ MayFail
        /\ IncrementKey \/ UNCHANGED <<count, ttl>>
        /\ disturbed' = TRUE
        /\ UNCHANGED <<pc, seen, late>>
  /\ UNCHANGED passed

(* EXPIRE starts the window again, also when the request is about to be    *)
(* refused; it does nothing to a key that has gone.  Then the count that   *)
(* INCR returned decides.  Mutants: the window is started by the first     *)
(* request only, or only again (EXPIRE XX), or is a tick too long; the     *)
(* count that decides is off by one.                                       *)
StartOnce == ttl' = IF ttl = NoTTL THEN Window ELSE ttl
StartIfExpiring == ttl' = IF ttl > 0 THEN Window ELSE ttl
StartLonger == ttl' = IF count = 0 THEN ttl ELSE Window + 1
Restart == ttl' = IF count = 0 THEN ttl ELSE Window

AllowedOneMore(n) == n <= Limit + 1
Allowed(n) == n <= Limit

Expire(p) ==
  /\ pc[p] = "expire"
  /\ silence' = 0
  /\ \/ /\ Restart
        /\ \/ Allowed(seen[p]) /\ LetThrough
           \/ ~Allowed(seen[p]) /\ UNCHANGED passed
        /\ UNCHANGED disturbed
     \/ /\ MayFail
        /\ Restart \/ UNCHANGED ttl
        /\ disturbed' = TRUE
        /\ UNCHANGED passed
  /\ Finish(p)
  /\ UNCHANGED count

(* Time passes. *)
Tick ==
  /\ \A p \in Procs : ~late[p]
  /\ ttl' = IF ttl > 0 THEN ttl - 1 ELSE ttl
  /\ count' = IF ttl = 1 THEN 0 ELSE count
  /\ late' = [p \in Procs |-> pc[p] # "idle"]
  /\ passed' = [i \in {i \in DOMAIN passed : passed[i] + 1 < Window} |-> passed[i] + 1]
  /\ silence' = IF silence < Window THEN silence + 1 ELSE Window
  /\ UNCHANGED <<pc, seen, disturbed>>

-----------------------------------------------------------------------------

Next ==
  \/ \E p \in Procs : Incr(p) \/ Expire(p)
  \/ Tick

Spec == Init /\ [][Next]_vars

(* Time passes and pipelines end; nobody has to send a request. *)
FairSpec == Spec /\ WF_vars(Tick) /\ \A p \in Procs : WF_vars(Expire(p))

-----------------------------------------------------------------------------

(* PerIP's contract, "max requests" per "sliding window": in no stretch of *)
(* Window ticks, wherever it begins, does the limiter let more than Limit  *)
(* requests through, except those whose key ran out between their two      *)
(* commands and those let through because the pipeline failed.  This is    *)
(* what restarting the window buys.                                        *)
WindowBudget == Len(passed) <= Limit + Cardinality(Procs)

(* A client that has been silent for a window starts from zero.  Only a    *)
(* lost EXPIRE leaves a counter that never runs out, and then the first    *)
(* pipeline that works gives it its expiry.                                *)
PauseReopens == silence = Window /\ ~disturbed => count = 0

(* The counter is only kept up by requests, refused ones included: if they *)
(* stop, it runs out, unless an EXPIRE was lost.                           *)
RunsOut ==
  \/ []<>(count = 0 \/ disturbed)
  \/ []<><<\E p \in Procs : Expire(p)>>_vars

=============================================================================
