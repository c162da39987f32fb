------------------------------- MODULE Lockout -------------------------------
(* Account lockout of one account (Login and handleFailedAttempt in         *)
(* internal/auth/login.go).  The state is in two stores that are not        *)
(* updated together: the failure counter login_attempts:u in Redis, with a  *)
(* TTL, and locked_until and failed_attempts in the user's Cassandra row.   *)
(* Each of Procs serves one login at a time, one step per round trip;       *)
(* between two of them other logins run.                                    *)
(*                                                                          *)
(* Time is counted in ticks.  Timestamps are modelled by the time left, so  *)
(* that a tick decrements them.  A login lasts less than a tick: it sees at *)
(* most one.                                                                *)
EXTENDS Integers, FiniteSets

CONSTANTS
  Procs,        \* login goroutines
  MaxAttempts,  \* maxLoginAttempts
  Window,       \* loginAttemptWindow, in ticks
  Duration,     \* lockoutDuration, in ticks
  CountBound    \* bound of the exploration: no login starts above this count

ASSUME ProcsAssumption == IsFiniteSet(Procs)

ASSUME LockoutAssumption ==
  /\ MaxAttempts \in Nat \ {0}
  /\ Window \in Nat \ {0}
  /\ Duration \in Nat
  /\ Window < Duration

ASSUME CountBoundAssumption == CountBound \in Nat

NoTTL == -1     \* the counter has no expiry

VARIABLES
  attempts,  \* login_attempts:u, 0 when the key is absent
  ttl,       \* ticks until the counter expires; NoTTL: never
  failed,    \* the row's failed_attempts > 0, the only test made of it
  lockLeft,  \* ticks until the row's locked_until; 0: null or in the past
  pc,        \* next round trip of each login
  seen,      \* failed as the login read it with the row
  count,     \* what the login's INCR returned
  late,      \* the login has seen a tick
  disturbed  \* history: a round trip has failed or a password been reset

vars == <<attempts, ttl, failed, lockLeft, pc, seen, count, late, disturbed>>

Labels == {"idle", "incr", "expire", "update", "delete", "reset"}

LockoutTypeOK ==
  /\ attempts \in Nat
  /\ ttl \in {NoTTL} \cup 0..Window
  /\ failed \in BOOLEAN
  /\ lockLeft \in 0..Duration
  /\ pc \in [Procs -> Labels]
  /\ seen \in [Procs -> BOOLEAN]
  /\ count \in [Procs -> Nat]
  /\ late \in [Procs -> BOOLEAN]
  /\ disturbed \in BOOLEAN

Init ==
  /\ attempts = 0
  /\ ttl = 0
  /\ failed = FALSE
  /\ lockLeft = 0
  /\ pc = [p \in Procs |-> "idle"]
  /\ seen = [p \in Procs |-> FALSE]
  /\ count = [p \in Procs |-> 0]
  /\ late = [p \in Procs |-> FALSE]
  /\ disturbed = FALSE

Goto(p, label) == pc' = [pc EXCEPT ![p] = label]

(* The login is answered; its locals are gone. *)
Finish(p) ==
  /\ Goto(p, "idle")
  /\ seen' = [seen EXCEPT ![p] = FALSE]
  /\ count' = [count EXCEPT ![p] = 0]
  /\ late' = [late EXCEPT ![p] = FALSE]

Locked == lockLeft > 0

-----------------------------------------------------------------------------

(* FindByEmail reads the row, the lock is tested, the password verified:   *)
(* right or wrong, by the choice of the next label.  A login refused       *)
(* because the account is locked changes nothing.  Mutant: no lock test.   *)
StartUnchecked(p) ==
  /\ pc[p] = "idle"
  /\ attempts + Cardinality(Procs) <= CountBound
  /\ \E label \in {"incr", "delete"} : Goto(p, label)
  /\ seen' = [seen EXCEPT ![p] = failed]
  /\ UNCHANGED <<attempts, ttl, failed, lockLeft, count, late, disturbed>>
StartLogin(p) ==
  /\ pc[p] = "idle"
  /\ ~Locked
  /\ attempts + Cardinality(Procs) <= CountBound
  /\ \E label \in {"incr", "delete"} : Goto(p, label)
  /\ seen' = [seen EXCEPT ![p] = failed]
  /\ UNCHANGED <<attempts, ttl, failed, lockLeft, count, late, disturbed>>

(* IncrLoginAttempts, first command of the pipeline: INCR keeps the TTL of *)
(* an existing key and gives a new key none.  If it fails the handler      *)
(* gives up, the command applied or not.                                   *)
IncrementKey ==
  /\ attempts' = attempts + 1
  /\ ttl' = IF attempts = 0 THEN NoTTL ELSE ttl

Incr(p) ==
  /\ pc[p] = "incr"
  /\ \/ /\ IncrementKey
        /\ Goto(p, "expire")
        /\ count' = [count EXCEPT ![p] = attempts + 1]
        /\ UNCHANGED <<seen, late, disturbed>>
     \/ /\ IncrementKey \/ UNCHANGED <<attempts, ttl>>
        /\ Finish(p)
        /\ disturbed' = TRUE
  /\ UNCHANGED <<failed, lockLeft>>

(* IncrLoginAttempts, second command: EXPIRE starts the window again, at   *)
(* every failure.  It does nothing to a key that has gone.  Mutant: the    *)
(* window is started with the lockout duration.                            *)
ExpireTooLate(p) ==
  /\ pc[p] = "expire"
  /\ ttl' = IF attempts = 0 THEN ttl ELSE Duration
  /\ Goto(p, "update")
  /\ UNCHANGED <<attempts, failed, lockLeft, seen, count, late, disturbed>>
Expire(p) ==
  /\ pc[p] = "expire"
  /\ \/ /\ ttl' = IF attempts = 0 THEN ttl ELSE Window
        /\ Goto(p, "update")
        /\ UNCHANGED <<seen, count, late, disturbed>>
     \/ /\ ttl' = ttl \/ (attempts # 0 /\ ttl' = Window)
        /\ Finish(p)
        /\ disturbed' = TRUE
  /\ UNCHANGED <<attempts, failed, lockLeft>>

(* handleFailedAttempt writes the count to the row, with locked_until set  *)
(* when the count has reached the threshold and null when it has not,      *)
(* whatever the row holds by now.  An error is logged.  Mutant: the lock   *)
(* is set by the count that equals the threshold only.                     *)
UpdateAtThreshold(p) ==
  /\ pc[p] = "update"
  /\ failed' = TRUE
  /\ lockLeft' = IF count[p] = MaxAttempts THEN Duration ELSE 0
  /\ Finish(p)
  /\ UNCHANGED <<attempts, ttl, disturbed>>
UpdateRow(p) ==
  /\ failed' = TRUE
  /\ lockLeft' = IF count[p] >= MaxAttempts THEN Duration ELSE 0

UpdateFailedAttempts(p) ==
  /\ pc[p] = "update"
  /\ \/ UpdateRow(p) /\ UNCHANGED disturbed
     \/ (UpdateRow(p) \/ UNCHANGED <<failed, lockLeft>>) /\ disturbed' = TRUE
  /\ Finish(p)
  /\ UNCHANGED <<attempts, ttl>>

(* A right password: ResetLoginAttempts deletes the counter; then the row  *)
(* is reset if it had failures when the login read it.  Errors are logged  *)
(* and the login goes on to its tokens.                                    *)
ResetLoginAttempts(p) ==
  /\ pc[p] = "delete"
  /\ \/ attempts' = 0 /\ ttl' = 0 /\ UNCHANGED disturbed
     \/ UNCHANGED <<attempts, ttl>> /\ disturbed' = TRUE
  /\ \/ seen[p] /\ Goto(p, "reset") /\ UNCHANGED <<seen, count, late>>
     \/ ~seen[p] /\ Finish(p)
  /\ UNCHANGED <<failed, lockLeft>>

ResetRow == failed' = FALSE /\ lockLeft' = 0

UpdateFailedAttemptsReset(p) ==
  /\ pc[p] = "reset"
  /\ \/ ResetRow /\ UNCHANGED disturbed
     \/ UNCHANGED <<failed, lockLeft>> /\ disturbed' = TRUE
  /\ Finish(p)
  /\ UNCHANGED <<attempts, ttl>>

(* A password reset: UpdatePassword clears the row and leaves the counter. *)
UpdatePassword ==
  /\ failed \/ Locked
  /\ ResetRow
  /\ disturbed' = TRUE
  /\ UNCHANGED <<attempts, ttl, pc, seen, count, late>>

(* Time passes. *)
Tick ==
  /\ \A p \in Procs : ~late[p]
  /\ ttl' = IF ttl > 0 THEN ttl - 1 ELSE ttl
  /\ attempts' = IF ttl = 1 THEN 0 ELSE attempts
  /\ lockLeft' = IF Locked THEN lockLeft - 1 ELSE 0
  /\ late' = [p \in Procs |-> pc[p] # "idle"]
  /\ UNCHANGED <<failed, pc, seen, count, disturbed>>

Step(p) ==
  \/ Incr(p)
  \/ Expire(p)
  \/ UpdateFailedAttempts(p)
  \/ ResetLoginAttempts(p)
  \/ UpdateFailedAttemptsReset(p)

Next ==
  \/ \E p \in Procs : StartLogin(p) \/ Step(p)
  \/ UpdatePassword
  \/ Tick

Spec == Init /\ [][Next]_vars

(* Time passes and goroutines run; nobody has to log in. *)
FairSpec == Spec /\ WF_vars(Tick) /\ \A p \in Procs : WF_vars(Step(p))

-----------------------------------------------------------------------------

(* While an account is locked the counter that locked it runs out first,   *)
(* also when logins that passed the lock test before go on counting: the   *)
(* account comes back with a clean slate, as account-lockout/spec.md:16    *)
(* promises, although no code resets the counter then.  Only a lost EXPIRE *)
(* can leave a counter that never runs out.                                *)
CounterDiesFirst ==
  Locked /\ attempts # 0 =>
    /\ ttl <= lockLeft
    /\ ttl = NoTTL => disturbed \/ \E p \in Procs : pc[p] = "expire"

(* While no round trip fails and no password reset unlocks the account,    *)
(* the failures counted before a lock holds are bounded, however the       *)
(* logins interleave: a login may clear the lock of another, by writing a  *)
(* count below the threshold late or by its stale reset, but only once     *)
(* and only if it was already in flight.  The bound is reached.            *)
GuessBudget ==
  LET P == Cardinality(Procs)
  IN ~disturbed => 2 * attempts <= 2 * (MaxAttempts - 1) + P * (P + 1)

(* A lock is prolonged in its first tick only, by the logins that passed   *)
(* the lock test before it was set: whoever keeps guessing at a locked     *)
(* account cannot keep its owner out.                                      *)
ProlongedWhenYoung ==
  [][Locked /\ lockLeft' > lockLeft => lockLeft >= Duration - 1]_vars

(* A locked account unlocks by itself: the logins that were in flight can  *)
(* prolong the lock, and new ones cannot.                                  *)
UnlocksByItself == Locked ~> ~Locked

=============================================================================
