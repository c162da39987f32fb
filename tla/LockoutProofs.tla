---------------------------- MODULE LockoutProofs ----------------------------
(* Theorems about module Lockout, for any number of logins, any threshold   *)
(* and any window shorter than the lockout.                                 *)
EXTENDS Lockout, FiniteSetTheorems, TLAPS

LEMMA Constants ==
  /\ MaxAttempts \in Nat \ {0} /\ Window \in Nat \ {0} /\ Duration \in Nat
  /\ Window < Duration
  BY LockoutAssumption

(* A handler's step leaves the others alone. *)
Others(p) ==
  \A q \in Procs \ {p} :
    pc'[q] = pc[q] /\ seen'[q] = seen[q] /\ count'[q] = count[q] /\ late'[q] = late[q]

LocalsTyped ==
  /\ pc' \in [Procs -> Labels]
  /\ seen' \in [Procs -> BOOLEAN]
  /\ count' \in [Procs -> Nat]
  /\ late' \in [Procs -> BOOLEAN]

(* How a login moves on: it is answered, or goes from one label to another *)
(* with what INCR has returned, if that is where it comes from.            *)
Moves(p, from, to) ==
  /\ pc[p] = from
  /\ pc'[p] \in to
  /\ late'[p] = (late[p] /\ pc'[p] # "idle")
  /\ pc'[p] # "idle" => count'[p] = IF from = "incr" THEN attempts + 1 ELSE count[p]
  /\ Others(p)
  /\ LocalsTyped

LEMMA FinishMoves ==
  ASSUME LockoutTypeOK, NEW p \in Procs, Finish(p)
  PROVE  Moves(p, pc[p], {"idle"})
  BY DEF LockoutTypeOK, Labels, Finish, Goto, Moves, Others, LocalsTyped

(* What each step of a login does to the shared state. *)
CounterKept == UNCHANGED <<attempts, ttl>>
RowKept == UNCHANGED <<failed, lockLeft>>

Fails == disturbed' = TRUE

LEMMA StartLoginDoes ==
  ASSUME LockoutTypeOK, NEW p \in Procs, StartLogin(p)
  PROVE  /\ ~Locked /\ CounterKept /\ RowKept /\ disturbed' = disturbed
         /\ pc[p] = "idle" /\ pc'[p] \in {"incr", "delete"}
         /\ UNCHANGED <<count, late>> /\ Others(p) /\ LocalsTyped
  BY DEF LockoutTypeOK, Labels, StartLogin, Goto, Others, LocalsTyped, CounterKept, RowKept

LEMMA IncrDoes ==
  ASSUME LockoutTypeOK, NEW p \in Procs, Incr(p)
  PROVE  /\ RowKept
         /\ Moves(p, "incr", {"expire", "idle"})
         /\ \/ IncrementKey /\ pc'[p] = "expire" /\ disturbed' = disturbed
            \/ (IncrementKey \/ CounterKept) /\ Fails
  BY FinishMoves
     DEF LockoutTypeOK, Labels, Incr, IncrementKey, Goto, Moves, Others, LocalsTyped,
         CounterKept, RowKept, Fails

LEMMA ExpireDoes ==
  ASSUME LockoutTypeOK, NEW p \in Procs, Expire(p)
  PROVE  /\ RowKept /\ attempts' = attempts
         /\ Moves(p, "expire", {"update", "idle"})
         /\ \/ /\ ttl' = IF attempts = 0 THEN ttl ELSE Window
               /\ pc'[p] = "update" /\ disturbed' = disturbed
            \/ (ttl' = ttl \/ (attempts # 0 /\ ttl' = Window)) /\ Fails
  BY FinishMoves
     DEF LockoutTypeOK, Labels, Expire, Goto, Moves, Others, LocalsTyped, RowKept, Fails

LEMMA UpdateDoes ==
  ASSUME LockoutTypeOK, NEW p \in Procs, UpdateFailedAttempts(p)
  PROVE  /\ CounterKept
         /\ Moves(p, "update", {"idle"})
         /\ \/ UpdateRow(p) /\ disturbed' = disturbed
            \/ (UpdateRow(p) \/ RowKept) /\ Fails
  BY FinishMoves DEF UpdateFailedAttempts, CounterKept, RowKept, Fails

LEMMA DeleteDoes ==
  ASSUME LockoutTypeOK, NEW p \in Procs, ResetLoginAttempts(p)
  PROVE  /\ RowKept
         /\ Moves(p, "delete", {"reset", "idle"})
         /\ \/ attempts' = 0 /\ ttl' = 0 /\ disturbed' = disturbed
            \/ CounterKept /\ Fails
<1>1. Moves(p, "delete", {"reset", "idle"})
  <2>1. CASE Finish(p) /\ pc[p] = "delete"
    BY <2>1, FinishMoves DEF Moves
  <2>2. CASE pc[p] = "delete" /\ Goto(p, "reset") /\ UNCHANGED <<seen, count, late>>
    BY <2>2 DEF LockoutTypeOK, Labels, Goto, Moves, Others, LocalsTyped
  <2> QED
    BY <2>1, <2>2 DEF ResetLoginAttempts
<1> QED
  BY <1>1 DEF ResetLoginAttempts, CounterKept, RowKept, Fails

LEMMA ResetDoes ==
  ASSUME LockoutTypeOK, NEW p \in Procs, UpdateFailedAttemptsReset(p)
  PROVE  /\ CounterKept
         /\ Moves(p, "reset", {"idle"})
         /\ \/ ResetRow /\ disturbed' = disturbed
            \/ RowKept /\ Fails
  BY FinishMoves DEF UpdateFailedAttemptsReset, CounterKept, RowKept, Fails

-----------------------------------------------------------------------------
(* Types.                                                                  *)

LEMMA TypesFromParts ==
  ASSUME attempts' \in Nat, ttl' \in {NoTTL} \cup 0..Window, lockLeft' \in 0..Duration,
         failed' \in BOOLEAN, disturbed' \in BOOLEAN, LocalsTyped
  PROVE  LockoutTypeOK'
  BY DEF LockoutTypeOK, LocalsTyped

LEMMA FlagsKept ==
  ASSUME failed \in BOOLEAN, disturbed \in BOOLEAN, [Next]_vars
  PROVE  failed' \in BOOLEAN /\ disturbed' \in BOOLEAN
  BY DEF Next, vars, Step, StartLogin, Incr, Expire, UpdateFailedAttempts, UpdateRow,
         ResetLoginAttempts, UpdateFailedAttemptsReset, ResetRow, UpdatePassword, Tick

LEMMA NumbersKept ==
  ASSUME attempts \in Nat, ttl \in {NoTTL} \cup 0..Window, lockLeft \in 0..Duration,
         [Next]_vars
  PROVE  attempts' \in Nat /\ ttl' \in {NoTTL} \cup 0..Window /\ lockLeft' \in 0..Duration
<1> USE Constants DEF NoTTL
<1>1. \/ UNCHANGED <<attempts, ttl, lockLeft>>
      \/ IncrementKey /\ UNCHANGED lockLeft
      \/ UNCHANGED attempts /\ ttl' \in {ttl, Window} /\ UNCHANGED lockLeft
      \/ attempts' = 0 /\ ttl' = 0 /\ UNCHANGED lockLeft
      \/ UNCHANGED <<attempts, ttl>> /\ lockLeft' \in {0, Duration}
      \/ Tick
  BY DEF Next, vars, Step, StartLogin, Incr, Expire, UpdateFailedAttempts, UpdateRow,
         ResetLoginAttempts, UpdateFailedAttemptsReset, ResetRow, UpdatePassword
<1>2. CASE IncrementKey /\ UNCHANGED lockLeft
  BY <1>2 DEF IncrementKey
<1>3. CASE Tick
  BY <1>3 DEF Tick, Locked
<1> QED
  BY <1>1, <1>2, <1>3

LEMMA LocalsKept ==
  ASSUME LockoutTypeOK, [Next]_vars
  PROVE  LocalsTyped
<1>1. ASSUME NEW p \in Procs, StartLogin(p) \/ Step(p) PROVE LocalsTyped
  BY <1>1, StartLoginDoes, IncrDoes, ExpireDoes, UpdateDoes, DeleteDoes, ResetDoes
     DEF Step, Moves
<1>2. CASE UpdatePassword \/ UNCHANGED vars
  BY <1>2 DEF UpdatePassword, vars, LockoutTypeOK, LocalsTyped
<1>3. CASE Tick
  BY <1>3 DEF Tick, LockoutTypeOK, LocalsTyped
<1> QED
  BY <1>1, <1>2, <1>3 DEF Next

LEMMA TypesKept ==
  ASSUME LockoutTypeOK, [Next]_vars
  PROVE  LockoutTypeOK'
  BY TypesFromParts, FlagsKept, NumbersKept, LocalsKept DEF LockoutTypeOK

(* Every variable keeps its type: in particular the counter's expiry never *)
(* exceeds the window, nor the lock its duration.                          *)
THEOREM TypeCorrect == Spec => []LockoutTypeOK
<1>1. ASSUME Init PROVE LockoutTypeOK
  <2>1. attempts \in Nat /\ ttl \in {NoTTL} \cup 0..Window /\ lockLeft \in 0..Duration
    BY <1>1, Constants DEF Init
  <2>2. failed \in BOOLEAN /\ disturbed \in BOOLEAN
    BY <1>1 DEF Init
  <2>3. pc \in [Procs -> Labels] /\ count \in [Procs -> Nat]
    BY <1>1 DEF Init, Labels
  <2>4. seen \in [Procs -> BOOLEAN] /\ late \in [Procs -> BOOLEAN]
    BY <1>1 DEF Init
  <2> QED
    BY <2>1, <2>2, <2>3, <2>4 DEF LockoutTypeOK
<1> QED
  BY <1>1, TypesKept, PTL DEF Spec

-----------------------------------------------------------------------------
(* The counter and the lock.                                               *)

(* A key that exists has time left, or no expiry; that it has none is the  *)
(* work of a login that is about to send EXPIRE.                           *)
KeyLasts == attempts # 0 => ttl # 0

EndlessForNow ==
  attempts # 0 /\ ttl = NoTTL => disturbed \/ \E p \in Procs : pc[p] = "expire"

KeyHasExpiry == KeyLasts /\ EndlessForNow

CounterFirst == Locked /\ attempts # 0 => ttl <= lockLeft

(* A login in flight passed the lock test less than a tick ago: a lock it  *)
(* meets later is as young as that.                                        *)
LockIsYoung ==
  \A p \in Procs : Locked /\ pc[p] # "idle" =>
    IF late[p] THEN lockLeft >= Duration - 1 ELSE lockLeft = Duration

LockInv == KeyHasExpiry /\ CounterFirst /\ LockIsYoung

LEMMA KeyLastsKept ==
  ASSUME LockoutTypeOK, KeyLasts, [Next]_vars
  PROVE  KeyLasts'
<1> USE Constants DEF NoTTL
<1>0. attempts \in Nat /\ ttl \in {NoTTL} \cup 0..Window
  BY DEF LockoutTypeOK
<1>1. \/ CounterKept
      \/ IncrementKey
      \/ attempts' = attempts /\ ttl' = Window
      \/ attempts' = 0
      \/ Tick
  BY StartLoginDoes, IncrDoes, ExpireDoes, UpdateDoes, DeleteDoes, ResetDoes
     DEF Next, Step, UpdatePassword, vars, CounterKept
<1>2. CASE Tick
  BY <1>0, <1>2 DEF Tick, KeyLasts
<1> QED
  BY <1>0, <1>1, <1>2 DEF KeyLasts, CounterKept, IncrementKey

LEMMA EndlessForNowKept ==
  ASSUME LockoutTypeOK, EndlessForNow, [Next]_vars
  PROVE  EndlessForNow'
<1> USE Constants DEF NoTTL
<1>0. attempts \in Nat /\ ttl \in {NoTTL} \cup 0..Window
  BY DEF LockoutTypeOK
<1>1. CASE Fails
  BY <1>1 DEF Fails, EndlessForNow
<1>2. ASSUME NEW p \in Procs, StartLogin(p) PROVE EndlessForNow'
  BY <1>2, StartLoginDoes DEF EndlessForNow, CounterKept, Others
<1>3. ASSUME NEW p \in Procs, Incr(p), ~Fails PROVE EndlessForNow'
  BY <1>3, IncrDoes DEF EndlessForNow
<1>4. ASSUME NEW p \in Procs, Expire(p), ~Fails PROVE EndlessForNow'
  <2>1. attempts' = attempts /\ (attempts # 0 => ttl' = Window)
    BY <1>4, ExpireDoes
  <2> QED
    BY <2>1 DEF EndlessForNow
<1>5. ASSUME NEW p \in Procs, ~Fails,
             UpdateFailedAttempts(p) \/ ResetLoginAttempts(p) \/ UpdateFailedAttemptsReset(p)
      PROVE  EndlessForNow'
  <2>1. /\ attempts' = 0 \/ CounterKept
        /\ disturbed' = disturbed
        /\ pc[p] # "expire" /\ Others(p)
    BY <1>5, UpdateDoes, DeleteDoes, ResetDoes DEF Moves
  <2> QED
    BY <2>1 DEF EndlessForNow, CounterKept, Others
<1>6. CASE UNCHANGED vars
  BY <1>6 DEF vars, EndlessForNow
<1>7. CASE Tick
  <2>1. UNCHANGED <<disturbed, pc>>
    BY <1>7 DEF Tick
  <2>2. attempts' # 0 /\ ttl' = NoTTL => attempts # 0 /\ ttl = NoTTL
    BY <1>0, <1>7 DEF Tick
  <2> QED
    BY <2>1, <2>2 DEF EndlessForNow
<1>8. CASE UpdatePassword
  BY <1>1, <1>8 DEF UpdatePassword, Fails
<1> QED
  BY <1>1, <1>2, <1>3, <1>4, <1>5, <1>6, <1>7, <1>8 DEF Next, Step

LEMMA LockIsYoungKept ==
  ASSUME LockoutTypeOK, LockIsYoung, [Next]_vars
  PROVE  LockIsYoung'
<1> USE Constants DEF Locked
<1>0. lockLeft \in 0..Duration
  BY DEF LockoutTypeOK
<1>1. ASSUME NEW p \in Procs, StartLogin(p) PROVE LockIsYoung'
  BY <1>1, StartLoginDoes DEF LockIsYoung, RowKept
<1>2. ASSUME NEW p \in Procs, Step(p) PROVE LockIsYoung'
  <2>1. \/ RowKept
        \/ lockLeft' \in {0, Duration}
    BY <1>2, IncrDoes, ExpireDoes, UpdateDoes, DeleteDoes, ResetDoes
       DEF Step, UpdateRow, ResetRow
  <2>2. /\ pc[p] # "idle" /\ Others(p)
        /\ pc'[p] # "idle" => (late'[p] <=> late[p])
    BY <1>2, IncrDoes, ExpireDoes, UpdateDoes, DeleteDoes, ResetDoes DEF Step, Moves
  <2>3. CASE RowKept
    BY <2>2, <2>3 DEF LockIsYoung, RowKept, Others
  <2>4. CASE lockLeft' \in {0, Duration}
    BY <2>4 DEF LockIsYoung
  <2> QED
    BY <2>1, <2>3, <2>4
<1>3. CASE UpdatePassword \/ UNCHANGED vars
  BY <1>3 DEF UpdatePassword, ResetRow, vars, LockIsYoung
<1>4. CASE Tick
  <2>1. /\ \A p \in Procs : ~late[p]
        /\ \A p \in Procs : pc'[p] # "idle" => late'[p]
        /\ pc' = pc /\ lockLeft' = IF lockLeft > 0 THEN lockLeft - 1 ELSE 0
    BY <1>4 DEF Tick
  <2> QED
    BY <1>0, <2>1 DEF LockIsYoung
<1> QED
  BY <1>1, <1>2, <1>3, <1>4 DEF Next

LEMMA CounterFirstKept ==
  ASSUME LockoutTypeOK, LockIsYoung, CounterFirst, [Next]_vars
  PROVE  CounterFirst'
<1> USE Constants DEF Locked, NoTTL
<1>0. /\ attempts \in Nat /\ ttl \in {NoTTL} \cup 0..Window /\ ttl <= Window
      /\ lockLeft \in 0..Duration
  BY DEF LockoutTypeOK
<1>1. ASSUME NEW p \in Procs, StartLogin(p) PROVE CounterFirst'
  BY <1>1, StartLoginDoes DEF CounterFirst, CounterKept, RowKept
<1>2. ASSUME NEW p \in Procs, Incr(p) PROVE CounterFirst'
  BY <1>0, <1>2, IncrDoes DEF CounterFirst, CounterKept, RowKept, IncrementKey
<1>3. ASSUME NEW p \in Procs, Expire(p) PROVE CounterFirst'
  (* the lock was not there when p began: it outlasts a window *)
  <2>1. lockLeft > 0 => lockLeft >= Window
    <3>1. pc[p] = "expire"
      BY <1>3, ExpireDoes DEF Moves
    <3> QED
      BY <1>0, <3>1 DEF LockIsYoung
  <2> QED
    BY <1>0, <1>3, <2>1, ExpireDoes DEF CounterFirst, RowKept
<1>4. ASSUME NEW p \in Procs,
             UpdateFailedAttempts(p) \/ ResetLoginAttempts(p) \/ UpdateFailedAttemptsReset(p)
      PROVE  CounterFirst'
  <2>1. /\ attempts' = 0 \/ CounterKept
        /\ RowKept \/ lockLeft' \in {0, Duration}
    BY <1>4, UpdateDoes, DeleteDoes, ResetDoes DEF UpdateRow, ResetRow
  <2> QED
    BY <1>0, <2>1 DEF CounterFirst, CounterKept, RowKept
<1>5. CASE UpdatePassword \/ UNCHANGED vars
  BY <1>5 DEF UpdatePassword, ResetRow, vars, CounterFirst
<1>6. CASE Tick
  BY <1>0, <1>6 DEF Tick, CounterFirst
<1> QED
  BY <1>1, <1>2, <1>3, <1>4, <1>5, <1>6 DEF Next, Step

LEMMA LockInvariant == Spec => []LockInv
<1>1. Init => LockInv
  BY DEF Init, LockInv, KeyHasExpiry, KeyLasts, EndlessForNow, CounterFirst, LockIsYoung,
         Locked
<1>2. LockoutTypeOK /\ LockInv /\ [Next]_vars => LockInv'
  BY KeyLastsKept, EndlessForNowKept, LockIsYoungKept, CounterFirstKept
     DEF LockInv, KeyHasExpiry
<1> QED
  BY <1>1, <1>2, TypeCorrect, PTL DEF Spec

(* Whatever logins overlap and fail, the counter that locked an account    *)
(* has run out before the lock does, so that the account comes back with a *)
(* clean slate; only an EXPIRE that was lost can make it outlast the lock. *)
THEOREM CounterRunsOutFirst == Spec => []CounterDiesFirst
<1>1. LockInv => CounterDiesFirst
  BY DEF LockInv, KeyHasExpiry, KeyLasts, EndlessForNow, CounterFirst, CounterDiesFirst
<1> QED
  BY <1>1, LockInvariant, PTL

(* A lock is only prolonged while it is in its first tick, whatever logins *)
(* overlap and fail: guessing at a locked account does not keep it locked. *)
THEOREM LocksAreNotExtended == Spec => ProlongedWhenYoung
<1> DEFINE Prolongs == Locked /\ lockLeft' > lockLeft
<1>1. ASSUME LockoutTypeOK, LockInv, Next, Prolongs PROVE lockLeft >= Duration - 1
  <2>1. lockLeft \in 0..Duration /\ Duration \in Nat
    BY <1>1, Constants DEF LockoutTypeOK
  <2>2. PICK p \in Procs : UpdateFailedAttempts(p)
    (* no other step raises it *)
    <3>1. CASE Tick \/ UpdatePassword
      BY <1>1, <2>1, <3>1 DEF Tick, UpdatePassword, ResetRow, Locked
    <3>2. ASSUME NEW p \in Procs,
                 \/ StartLogin(p) \/ Incr(p) \/ Expire(p) \/ ResetLoginAttempts(p)
                 \/ UpdateFailedAttemptsReset(p)
          PROVE  FALSE
      <4>1. RowKept \/ ResetRow
        BY <1>1, <3>2, StartLoginDoes, IncrDoes, ExpireDoes, DeleteDoes, ResetDoes
      <4> QED
        BY <1>1, <2>1, <4>1 DEF RowKept, ResetRow, Locked
    <3> QED
      BY <1>1, <3>1, <3>2 DEF Next, Step
  <2>3. pc[p] = "update"
    BY <2>2 DEF UpdateFailedAttempts
  <2> QED
    BY <1>1, <2>1, <2>3 DEF LockInv, LockIsYoung
<1>2. LockoutTypeOK /\ LockInv /\ [Next]_vars => [Prolongs => lockLeft >= Duration - 1]_vars
  BY <1>1
<1>3. Spec => [][Prolongs => lockLeft >= Duration - 1]_vars
  BY <1>2, TypeCorrect, LockInvariant, PTL DEF Spec
<1> QED
  BY <1>3 DEF ProlongedWhenYoung

-----------------------------------------------------------------------------
(* The failures a lock can be made to allow.                               *)

P == Cardinality(Procs)

(* The logins that may yet clear a lock, by the count they are about to    *)
(* write or by the row they read; and those that may yet count a failure.  *)
Clearers == {p \in Procs : \/ pc[p] \in {"expire", "update"} /\ count[p] < MaxAttempts
                           \/ pc[p] = "reset"}
Guessers == {p \in Procs : pc[p] = "incr" \/ (pc[p] = "idle" /\ ~Locked)}

(* What c logins that may clear a lock are worth, in half failures: the    *)
(* first lets P others in, itself included, the next one fewer.            *)
Worth(c) == 2 * (c * P) - c * (c - 1)

Budget == 2 * (MaxAttempts - 1) + P * (P + 1)

Within(a, g, c) == 2 * (a + g) + Worth(c) <= Budget

(* Once the threshold is reached, the failures counted, those that may     *)
(* follow at once and those that the clearing of a lock allows.            *)
BudgetInv ==
  ~disturbed /\ attempts >= MaxAttempts =>
    Within(attempts, Cardinality(Guessers), Cardinality(Clearers))

(* The arithmetic, for any number n of logins.                             *)
LEMMA OneClearsLess ==
  ASSUME NEW n \in Nat, NEW c \in Nat
  PROVE  (2 * (c * n) - c * (c - 1)) - (2 * ((c - 1) * n) - (c - 1) * (c - 2))
           = 2 * (n - (c - 1))
  OBVIOUS

LEMMA CrossingFits ==
  ASSUME NEW n \in Nat, NEW c \in Nat, c + 1 <= n
  PROVE  2 * (n - 1 - c) + (2 * (c * n) - c * (c - 1)) <= n * (n + 1) - 2
<1>1. PICK d \in Nat : n = c + 1 + d
  <2>1. n - (c + 1) \in Nat /\ n = c + 1 + (n - (c + 1))
    OBVIOUS
  <2> QED
    BY <2>1
<1>2. d * d >= 0 /\ d * d + d >= 0
  OBVIOUS
<1>3. n * (n + 1) - 2 - (2 * (n - 1 - c) + (2 * (c * n) - c * (c - 1))) = d * d + d
  BY <1>1
<1> QED
  BY <1>2, <1>3

LEMMA WorthIsNat ==
  ASSUME NEW n \in Nat, NEW c \in 0..n
  PROVE  2 * (c * n) - c * (c - 1) >= 0
<1>1. PICK d \in Nat : n = c + d
  <2>1. n - c \in Nat /\ n = c + (n - c)
    OBVIOUS
  <2> QED
    BY <2>1
<1>2. c * c >= 0 /\ c * d >= 0
  BY <1>1
<1>3. 2 * (c * n) - c * (c - 1) = c * c + 2 * (c * d) + c
  BY <1>1
<1> QED
  BY <1>2, <1>3

(* The sets.                                                               *)
LEMMA DisjointFit ==
  ASSUME NEW S, IsFiniteSet(S), NEW A, NEW B, A \subseteq S, B \subseteq S, A \cap B = {}
  PROVE  /\ Cardinality(A) \in Nat /\ Cardinality(B) \in Nat /\ Cardinality(S) \in Nat
         /\ Cardinality(A) + Cardinality(B) <= Cardinality(S)
<1>1. IsFiniteSet(A) /\ IsFiniteSet(B) /\ A \cup B \subseteq S
  BY FS_Subset
<1>2. Cardinality(A \cup B) = Cardinality(A) + Cardinality(B) - Cardinality({})
  BY <1>1, FS_Union
<1>3. Cardinality({}) = 0
  BY FS_EmptySet
<1>4. Cardinality(A \cup B) <= Cardinality(S)
  BY <1>1, FS_Subset
<1> QED
  BY <1>1, <1>2, <1>3, <1>4, FS_CardinalityType

LEMMA NumbersOf ==
  /\ P \in Nat /\ Cardinality(Guessers) \in Nat /\ Cardinality(Clearers) \in Nat
  /\ Cardinality(Guessers) + Cardinality(Clearers) <= P
<1>1. Guessers \subseteq Procs /\ Clearers \subseteq Procs /\ Guessers \cap Clearers = {}
  BY DEF Guessers, Clearers
<1> QED
  BY <1>1, DisjointFit, ProcsAssumption DEF P

(* How a step of the logins changes what may follow.                       *)
Narrows ==
  /\ Cardinality(Guessers') <= Cardinality(Guessers)
  /\ Cardinality(Clearers') = Cardinality(Clearers)

LEMMA NumbersAfter ==
  /\ Cardinality(Guessers') \in Nat /\ Cardinality(Clearers') \in Nat
  /\ Cardinality(Guessers') + Cardinality(Clearers') <= P
<1>1. Guessers' \subseteq Procs /\ Clearers' \subseteq Procs /\ Guessers' \cap Clearers' = {}
  BY DEF Guessers, Clearers
<1> QED
  BY <1>1, DisjointFit, ProcsAssumption DEF P

LEMMA SubsetNarrows ==
  ASSUME Guessers' \subseteq Guessers, Clearers' = Clearers
  PROVE  Narrows
<1>1. IsFiniteSet(Guessers)
  BY ProcsAssumption, FS_Subset DEF Guessers
<1> QED
  BY <1>1, FS_Subset DEF Narrows

LEMMA StartLoginNarrows ==
  ASSUME LockoutTypeOK, NEW p \in Procs, StartLogin(p)
  PROVE  Narrows
<1>1. /\ pc[p] = "idle" /\ ~Locked /\ ~Locked'
      /\ pc'[p] \in {"incr", "delete"} /\ count' = count /\ Others(p)
  BY StartLoginDoes DEF RowKept, Locked
<1>2. Guessers' \subseteq Guessers
  BY <1>1 DEF Guessers, Others
<1>3. Clearers' = Clearers
  BY <1>1 DEF Clearers, Others
<1> QED
  BY <1>2, <1>3, SubsetNarrows

LEMMA ExpireNarrows ==
  ASSUME LockoutTypeOK, NEW p \in Procs, Expire(p), ~Fails
  PROVE  Narrows
<1>1. /\ Locked' = Locked
      /\ pc[p] = "expire" /\ pc'[p] = "update" /\ count'[p] = count[p] /\ Others(p)
  BY ExpireDoes DEF RowKept, Locked, Moves
<1>2. Guessers' \subseteq Guessers
  BY <1>1 DEF Guessers, Others
<1>3. Clearers' = Clearers
  BY <1>1 DEF Clearers, Others
<1> QED
  BY <1>2, <1>3, SubsetNarrows

LEMMA TickNarrows ==
  ASSUME LockoutTypeOK, LockInv, ~disturbed, attempts # 0, Tick, attempts' # 0
  PROVE  Narrows
<1> USE Constants DEF NoTTL, Locked
<1>1. /\ lockLeft \in 0..Duration /\ ttl \in {NoTTL} \cup 0..Window
  BY DEF LockoutTypeOK
<1>2. ttl # 1 /\ \A p \in Procs : ~late[p]
  BY DEF Tick
<1>3. lockLeft # 1
  <2>1. CASE ttl = NoTTL
    <3>1. PICK p \in Procs : pc[p] = "expire"
      BY <2>1 DEF LockInv, KeyHasExpiry, EndlessForNow
    <3> QED
      BY <1>1, <1>2, <3>1 DEF LockInv, LockIsYoung
  <2>2. CASE ttl # NoTTL
    <3>1. ttl # 0 /\ (Locked => ttl <= lockLeft)
      BY DEF LockInv, KeyHasExpiry, KeyLasts, CounterFirst
    <3> QED
      BY <1>1, <1>2, <2>2, <3>1
  <2> QED
    BY <2>1, <2>2
<1>4. Locked => Locked'
  BY <1>1, <1>3 DEF Tick
<1>5. pc' = pc /\ count' = count
  BY DEF Tick
<1>6. Guessers' \subseteq Guessers
  BY <1>4, <1>5 DEF Guessers
<1>7. Clearers' = Clearers
  BY <1>5 DEF Clearers
<1> QED
  BY <1>6, <1>7, SubsetNarrows

(* A login that locks leaves nobody a guess that had none; one that clears *)
(* is spent.                                                               *)
LEMMA UpdateSpends ==
  ASSUME LockoutTypeOK, NEW p \in Procs,
         UpdateFailedAttempts(p) \/ UpdateFailedAttemptsReset(p), ~Fails
  PROVE  \/ Narrows
         \/ Clearers # {} /\ Cardinality(Clearers') = Cardinality(Clearers) - 1
<1> USE Constants
<1>0. count[p] \in Nat
  BY DEF LockoutTypeOK
<1>1. CASE pc[p] = "update" /\ count[p] >= MaxAttempts
  <2>1. UpdateRow(p) /\ pc'[p] = "idle" /\ Others(p)
    BY <1>1, UpdateDoes, ResetDoes DEF Moves
  <2>2. Locked'
    BY <1>1, <2>1 DEF UpdateRow, Locked
  <2>3. Guessers' \subseteq Guessers
    BY <1>1, <2>1, <2>2 DEF Guessers, Others
  <2>4. ~(count[p] < MaxAttempts)
    BY <1>0, <1>1
  <2>5. Clearers' = Clearers
    BY <1>1, <2>1, <2>4 DEF Clearers, Others
  <2> QED
    BY <2>3, <2>5, SubsetNarrows
<1>2. CASE ~(pc[p] = "update" /\ count[p] >= MaxAttempts)
  <2>1. /\ pc[p] = "reset" \/ (pc[p] = "update" /\ count[p] < MaxAttempts)
        /\ pc'[p] = "idle" /\ Others(p)
    BY <1>0, <1>2, UpdateDoes, ResetDoes DEF Moves
  <2>2. p \in Clearers /\ Clearers' = Clearers \ {p}
    BY <2>1 DEF Clearers, Others
  <2>3. IsFiniteSet(Clearers)
    BY ProcsAssumption, FS_Subset DEF Clearers
  <2> QED
    BY <2>2, <2>3, FS_RemoveElement
<1> QED
  BY <1>1, <1>2

(* A failure counted past the threshold takes its guess; the one that      *)
(* reaches the threshold can neither guess again nor clear.                *)
LEMMA IncrSpends ==
  ASSUME LockoutTypeOK, NEW p \in Procs, Incr(p), ~Fails, attempts >= MaxAttempts
  PROVE  /\ Cardinality(Guessers') = Cardinality(Guessers) - 1
         /\ Cardinality(Clearers') = Cardinality(Clearers)
<1> USE Constants
<1>1. /\ pc[p] = "incr" /\ pc'[p] = "expire" /\ count'[p] = attempts + 1 /\ Others(p)
      /\ Locked' = Locked
  BY IncrDoes DEF Moves, RowKept, Locked
<1>2. attempts \in Nat /\ ~(count'[p] < MaxAttempts)
  BY <1>1 DEF LockoutTypeOK
<1>3. p \in Guessers /\ Guessers' = Guessers \ {p}
  BY <1>1 DEF Guessers, Others
<1>4. Clearers' = Clearers
  BY <1>1, <1>2 DEF Clearers, Others
<1>5. IsFiniteSet(Guessers)
  BY ProcsAssumption, FS_Subset DEF Guessers
<1> QED
  BY <1>3, <1>4, <1>5, FS_RemoveElement

LEMMA IncrCrosses ==
  ASSUME LockoutTypeOK, NEW p \in Procs, Incr(p), ~Fails, attempts + 1 >= MaxAttempts
  PROVE  Cardinality(Guessers') + Cardinality(Clearers') <= P - 1
<1> USE Constants
<1>1. pc'[p] = "expire" /\ count'[p] = attempts + 1
  BY IncrDoes DEF Moves
<1>2. attempts \in Nat /\ ~(count'[p] < MaxAttempts)
  BY <1>1 DEF LockoutTypeOK
<1>3. /\ Guessers' \subseteq Procs \ {p} /\ Clearers' \subseteq Procs \ {p}
      /\ Guessers' \cap Clearers' = {}
  BY <1>1, <1>2 DEF Guessers, Clearers
<1>4. IsFiniteSet(Procs \ {p}) /\ Cardinality(Procs \ {p}) = P - 1
  BY ProcsAssumption, FS_RemoveElement DEF P
<1> QED
  BY <1>3, <1>4, DisjointFit

(* What the sum of the budget does when a guess goes or comes back.        *)
LEMMA BudgetTypes ==
  ASSUME NEW c \in Nat
  PROVE  Budget \in Int /\ Worth(c) \in Int /\ P * (P + 1) \in Nat
  BY Constants, NumbersOf DEF Budget, Worth

LEMMA StaysWithin ==
  ASSUME NEW a \in Nat, NEW g \in Nat, NEW c \in Nat, NEW a1 \in Nat, NEW g1 \in Nat,
         Within(a, g, c), a1 + g1 <= a + g
  PROVE  Within(a1, g1, c)
  BY BudgetTypes DEF Within

LEMMA NarrowingWithin ==
  ASSUME NEW a \in Nat, NEW g \in Nat, NEW c \in Nat, NEW g1 \in Nat,
         Within(a, g, c), g1 <= g
  PROVE  Within(a, g1, c)
  BY BudgetTypes DEF Within

LEMMA ClearingWithin ==
  ASSUME NEW a \in Nat, NEW g \in Nat, NEW c \in Nat, c # 0, NEW g1 \in Nat,
         Within(a, g, c), g1 + (c - 1) <= P
  PROVE  Within(a, g1, c - 1)
<1>1. Worth(c) - Worth(c - 1) = 2 * (P - (c - 1))
  BY NumbersOf, OneClearsLess DEF Worth
<1>2. Budget \in Int /\ Worth(c) \in Int /\ Worth(c - 1) \in Int /\ P \in Nat
  BY BudgetTypes, NumbersOf
<1> QED
  BY <1>1, <1>2 DEF Within

LEMMA CrossingWithin ==
  ASSUME NEW g \in Nat, NEW c \in Nat, g + c <= P - 1
  PROVE  Within(MaxAttempts, g, c)
<1>1. 2 * (P - 1 - c) + Worth(c) <= P * (P + 1) - 2
  <2>1. c + 1 <= P /\ P \in Nat
    BY NumbersOf
  <2> QED
    BY <2>1, CrossingFits DEF Worth
<1>2. /\ Worth(c) \in Int /\ P \in Nat /\ P * (P + 1) \in Nat
      /\ Budget = 2 * (MaxAttempts - 1) + P * (P + 1)
  BY BudgetTypes, NumbersOf DEF Budget
<1> QED
  BY <1>1, <1>2, Constants DEF Within

LEMMA BudgetKept ==
  ASSUME LockoutTypeOK, LockInv, BudgetInv, [Next]_vars
  PROVE  BudgetInv'
<1> DEFINE g == Cardinality(Guessers)
           c == Cardinality(Clearers)
<1> SUFFICES ASSUME ~disturbed', attempts' >= MaxAttempts
             PROVE  Within(attempts', g', c')
  BY DEF BudgetInv, Within, Worth, Budget, P
<1>0. /\ g \in Nat /\ c \in Nat /\ g' \in Nat /\ c' \in Nat /\ g' + c' <= P
      /\ attempts \in Nat /\ attempts' \in Nat /\ MaxAttempts \in Nat \ {0}
  BY NumbersOf, NumbersAfter, TypesKept, Constants DEF LockoutTypeOK
<1>1. ~Fails /\ attempts' # 0
  BY <1>0 DEF Fails
<1>2. ~disturbed
  BY <1>1, StartLoginDoes, IncrDoes, ExpireDoes, UpdateDoes, DeleteDoes, ResetDoes
     DEF Next, Step, Fails, UpdatePassword, vars, Tick
<1>3. attempts >= MaxAttempts => Within(attempts, g, c)
  BY <1>2 DEF BudgetInv
<1>4. ASSUME Narrows, attempts' = attempts PROVE Within(attempts', g', c')
  <2>1. g' <= g /\ c' = c
    BY <1>4 DEF Narrows
  <2> HIDE DEF g, c
  <2>2. Within(attempts, g, c)
    BY <1>3, <1>4
  <2>3. Within(attempts, g', c)
    BY <1>0, <2>1, <2>2, NarrowingWithin
  <2> QED
    BY <1>4, <2>1, <2>3
<1>5. ASSUME NEW p \in Procs, StartLogin(p) PROVE Within(attempts', g', c')
  BY <1>4, <1>5, StartLoginNarrows, StartLoginDoes DEF CounterKept
<1>6. ASSUME NEW p \in Procs, Expire(p) PROVE Within(attempts', g', c')
  BY <1>1, <1>4, <1>6, ExpireNarrows, ExpireDoes
<1>7. ASSUME NEW p \in Procs, Incr(p) PROVE Within(attempts', g', c')
  <2>1. attempts' = attempts + 1
    BY <1>1, <1>7, IncrDoes DEF IncrementKey
  <2>2. CASE attempts >= MaxAttempts
    <3>1. g' = g - 1 /\ c' = c
      BY <1>1, <1>7, <2>2, IncrSpends
    <3> HIDE DEF g, c
    <3>2. Within(attempts, g, c) /\ attempts' + g' <= attempts + g
      BY <1>0, <1>3, <2>1, <2>2, <3>1
    <3>3. Within(attempts', g', c)
      BY <1>0, <3>2, StaysWithin
    <3> QED
      BY <3>1, <3>3
  <2>3. CASE ~(attempts >= MaxAttempts)
    <3>1. g' + c' <= P - 1
      BY <1>0, <1>1, <1>7, <2>1, IncrCrosses
    <3> HIDE DEF g, c
    <3>2. attempts' = MaxAttempts
      BY <1>0, <2>1, <2>3
    <3> QED
      BY <1>0, <3>1, <3>2, CrossingWithin
  <2> QED
    BY <2>2, <2>3
<1>8. ASSUME NEW p \in Procs, UpdateFailedAttempts(p) \/ UpdateFailedAttemptsReset(p)
      PROVE  Within(attempts', g', c')
  <2>1. attempts' = attempts
    BY <1>8, UpdateDoes, ResetDoes DEF CounterKept
  <2>2. CASE Clearers # {} /\ c' = c - 1
    <3>1. c # 0
      BY <2>2, FS_EmptySet, FS_Subset, ProcsAssumption DEF Clearers
    <3> HIDE DEF g, c
    <3>2. Within(attempts, g, c) /\ g' + (c - 1) <= P
      BY <1>0, <1>3, <2>1, <2>2
    <3>3. Within(attempts, g', c - 1)
      BY <1>0, <3>1, <3>2, ClearingWithin
    <3> QED
      BY <2>1, <2>2, <3>3
  <2> QED
    BY <1>1, <1>4, <1>8, <2>1, <2>2, UpdateSpends
<1>9. ASSUME NEW p \in Procs, ResetLoginAttempts(p) PROVE FALSE
  BY <1>1, <1>9, DeleteDoes
<1>10. CASE Tick
  <2>1. attempts' = attempts
    BY <1>1, <1>10 DEF Tick
  <2> QED
    BY <1>1, <1>2, <1>4, <1>10, <2>1, TickNarrows
<1>11. CASE UNCHANGED vars
  <2>1. Guessers' = Guessers /\ Clearers' = Clearers /\ attempts' = attempts
    BY <1>11 DEF vars, Guessers, Clearers, Locked
  <2> QED
    BY <1>4, <2>1, SubsetNarrows
<1>12. CASE UpdatePassword
  BY <1>1, <1>12 DEF UpdatePassword, Fails
<1> QED
  BY <1>5, <1>6, <1>7, <1>8, <1>9, <1>10, <1>11, <1>12 DEF Next, Step

(* While nothing fails and no password reset lifts a lock, the failures    *)
(* that are counted before a lock holds never pass the threshold by more   *)
(* than n (n + 1) / 2, for n logins at once and however they interleave:   *)
(* each clears a lock once at most, and only for those not yet spent.      *)
THEOREM GuessesAreBounded == Spec => []GuessBudget
<1>1. Init => BudgetInv
  BY Constants DEF Init, BudgetInv
<1>2. LockoutTypeOK /\ BudgetInv => GuessBudget
  <2> SUFFICES ASSUME LockoutTypeOK, BudgetInv, ~disturbed PROVE 2 * attempts <= Budget
    BY DEF GuessBudget, Budget, P
  <2> DEFINE g == Cardinality(Guessers)
             c == Cardinality(Clearers)
  <2>1. /\ attempts \in Nat /\ MaxAttempts \in Nat \ {0} /\ P \in Nat
        /\ g \in Nat /\ c \in Nat /\ c \in 0..P
    BY Constants, NumbersOf DEF LockoutTypeOK
  <2>2. CASE attempts >= MaxAttempts
    <3>1. Within(attempts, g, c)
      BY <2>2 DEF BudgetInv
    <3> HIDE DEF g, c
    <3>2. Worth(c) >= 0
      BY <2>1, WorthIsNat DEF Worth
    <3> QED
      BY <2>1, <3>1, <3>2, BudgetTypes DEF Within
  <2>3. CASE ~(attempts >= MaxAttempts)
    <3>1. P * (P + 1) \in Nat
      BY <2>1, BudgetTypes
    <3> QED
      BY <2>1, <2>3, <3>1 DEF Budget
  <2> QED
    BY <2>2, <2>3
<1> QED
  BY <1>1, <1>2, BudgetKept, TypeCorrect, LockInvariant, PTL DEF Spec

=============================================================================
