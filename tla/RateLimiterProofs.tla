-------------------------- MODULE RateLimiterProofs --------------------------
(* Theorems about module RateLimiter, for any number of concurrent requests, *)
(* any limit, any window longer than a pipeline, with or without failures.   *)
EXTENDS RateLimiter, FiniteSetTheorems, SequenceTheorems, TLAPS

LEMMA Constants ==
  /\ Limit \in Nat \ {0} /\ Window \in Nat /\ Window > 1 /\ IsFiniteSet(Procs)
  BY LimitAssumption, WindowAssumption, ProcsAssumption

-----------------------------------------------------------------------------
(* The history of the requests let through.                                *)

(* A part of 1..n that has every number below each of its own is 1..k. *)
LEMMA InitialSegment ==
  ASSUME NEW n \in Nat, NEW K \in SUBSET (1..n), \A i \in K : 1..i \subseteq K
  PROVE  /\ Cardinality(K) \in 0..n
         /\ K = 1..Cardinality(K)
<1>1. IsFiniteSet(1..n) /\ Cardinality(1..n) = n
  BY FS_Interval
<1>2. IsFiniteSet(K) /\ Cardinality(K) <= n /\ Cardinality(K) \in Nat
  <2>1. IsFiniteSet(K) /\ Cardinality(K) <= Cardinality(1..n)
    BY <1>1, FS_Subset, Zenon
  <2>2. Cardinality(K) \in Nat
    BY <2>1, FS_CardinalityType
  <2> QED
    BY <1>1, <2>1, <2>2
<1>3. ASSUME NEW i \in K PROVE i \in 1..Cardinality(K)
  <2>1. i \in Nat /\ i >= 1
    OBVIOUS
  <2>2. IsFiniteSet(1..i) /\ Cardinality(1..i) = i
    BY <2>1, FS_Interval
  <2>3. Cardinality(1..i) <= Cardinality(K)
    BY <1>2, <1>3, FS_Subset
  <2> QED
    BY <1>2, <2>1, <2>2, <2>3
<1>4. IsFiniteSet(1..Cardinality(K)) /\ Cardinality(1..Cardinality(K)) = Cardinality(K)
  BY <1>2, FS_Interval
<1>5. K \subseteq 1..Cardinality(K)
  BY <1>3
<1>6. K = 1..Cardinality(K)
  BY <1>4, <1>5, FS_Subset
<1> QED
  BY <1>2, <1>6

(* Newest first. *)
Sorted == \A i, j \in DOMAIN passed : i <= j => passed[i] <= passed[j]

(* The requests of the last Window - 1 ticks when one more has gone by. *)
Aged == [i \in {i \in DOMAIN passed : passed[i] + 1 < Window} |-> passed[i] + 1]

LEMMA AgedHistory ==
  ASSUME RateTypeOK, Sorted
  PROVE  /\ Aged \in Seq(0..(Window - 1))
         /\ Len(Aged) <= Len(passed)
         /\ \A i \in DOMAIN Aged :
              i \in DOMAIN passed /\ Aged[i] = passed[i] + 1 /\ Aged[i] < Window
<1> DEFINE n == Len(passed)
           K == {i \in DOMAIN passed : passed[i] + 1 < Window}
<1>1. n \in Nat /\ DOMAIN passed = 1..n /\ \A i \in 1..n : passed[i] \in 0..(Window - 1)
  BY LenProperties DEF RateTypeOK
<1>2. \A i \in K : 1..i \subseteq K
  BY <1>1, Constants DEF Sorted
<1>3. K \in SUBSET (1..n)
  BY <1>1
<1>4. PICK k \in 0..n : K = 1..k
  <2> HIDE DEF K, n
  <2> QED
    BY <1>1, <1>2, <1>3, InitialSegment
<1>5. Aged = [i \in 1..k |-> passed[i] + 1]
  BY <1>4 DEF Aged
<1>6. \A i \in 1..k : passed[i] + 1 \in 0..(Window - 1) /\ i \in 1..n
  BY <1>1, <1>4, Constants
<1>7. Aged \in [1..k -> 0..(Window - 1)] /\ k \in Nat
  BY <1>5, <1>6
<1>8. Aged \in Seq(0..(Window - 1))
  BY <1>7, SeqDef
<1>9. Len(Aged) = k
  BY <1>7, <1>8, LenProperties
<1> QED
  BY <1>1, <1>4, <1>5, <1>6, <1>8, <1>9, Constants

LEMMA NewestFirst ==
  ASSUME RateTypeOK
  PROVE  /\ <<0>> \o passed \in Seq(0..(Window - 1))
         /\ Len(<<0>> \o passed) = Len(passed) + 1
         /\ \A i \in DOMAIN (<<0>> \o passed) :
              (<<0>> \o passed)[i] = IF i = 1 THEN 0 ELSE passed[i - 1]
<1>1. 0 \in 0..(Window - 1)
  BY Constants
<1>2. <<0>> \in Seq(0..(Window - 1)) /\ Len(<<0>>) = 1 /\ <<0>>[1] = 0
  BY <1>1
<1>3. passed \in Seq(0..(Window - 1)) /\ Len(passed) \in Nat
  BY LenProperties DEF RateTypeOK
<1>4. <<0>> \o passed \in Seq(0..(Window - 1))
  BY <1>2, <1>3, ConcatProperties
<1>5. /\ Len(<<0>> \o passed) = 1 + Len(passed)
      /\ \A i \in 1 .. 1 + Len(passed) :
           (<<0>> \o passed)[i] = IF i <= 1 THEN <<0>>[i] ELSE passed[i - 1]
  BY <1>2, <1>3, ConcatProperties
<1>6. DOMAIN (<<0>> \o passed) = 1 .. 1 + Len(passed)
  BY <1>4, <1>5, LenProperties
<1> QED
  BY <1>2, <1>3, <1>4, <1>5, <1>6

-----------------------------------------------------------------------------
(* What a step does to the key, the requests and the history.              *)

LEMMA IncrDoes ==
  ASSUME RateTypeOK, NEW p \in Procs, Incr(p)
  PROVE  /\ pc[p] = "idle" /\ silence' = 0 /\ passed' = passed
         /\ disturbed' \in BOOLEAN /\ (~disturbed' => ~disturbed)
         /\ \/ /\ count' = Increment(count)
               /\ ttl' = IF count = 0 THEN NoTTL ELSE ttl
            \/ UNCHANGED <<count, ttl>> /\ disturbed'
         /\ late' = late
         /\ \/ /\ count' = Increment(count)
               /\ pc' = [pc EXCEPT ![p] = "expire"]
               /\ seen' = [seen EXCEPT ![p] = Increment(count)]
            \/ UNCHANGED <<pc, seen>> /\ disturbed'
  BY DEF Incr, IncrementKey, RateTypeOK

LEMMA ExpireDoes ==
  ASSUME RateTypeOK, NEW p \in Procs, Expire(p)
  PROVE  /\ pc[p] = "expire" /\ silence' = 0 /\ count' = count
         /\ disturbed' \in BOOLEAN /\ (~disturbed' => ~disturbed)
         /\ pc' = [pc EXCEPT ![p] = "idle"]
         /\ seen' = [seen EXCEPT ![p] = 0]
         /\ late' = [late EXCEPT ![p] = FALSE]
         /\ \/ ttl' = IF count = 0 THEN ttl ELSE Window
            \/ UNCHANGED ttl /\ disturbed' /\ passed' = passed
         /\ \/ passed' = passed
            \/ /\ seen[p] <= Limit /\ passed' = <<0>> \o passed
               /\ ttl' = IF count = 0 THEN ttl ELSE Window
  BY DEF Expire, Restart, Allowed, LetThrough, Finish, RateTypeOK

LEMMA TickDoes ==
  ASSUME RateTypeOK, Tick
  PROVE  /\ \A p \in Procs : ~late[p]
         /\ ttl' = IF ttl > 0 THEN ttl - 1 ELSE ttl
         /\ count' = IF ttl = 1 THEN 0 ELSE count
         /\ late' = [p \in Procs |-> pc[p] # "idle"]
         /\ passed' = Aged
         /\ silence' = IF silence < Window THEN silence + 1 ELSE Window
         /\ UNCHANGED <<pc, seen, disturbed>>
  BY DEF Tick, Aged

LEMMA CountIncrements ==
  ASSUME NEW n \in Counts
  PROVE  Increment(n) \in Counts /\ Increment(n) # 0
  BY Constants DEF Counts, Increment

-----------------------------------------------------------------------------
(* Types, and the order of the history, which its type needs.              *)

Typed == RateTypeOK /\ Sorted

LEMMA TypedNext ==
  ASSUME Typed, [Next]_vars
  PROVE  Typed'
<1> USE DEF Typed
<1>1. ASSUME NEW p \in Procs, Incr(p) PROVE Typed'
  <2>1. RateTypeOK'
    BY <1>1, IncrDoes, CountIncrements, Constants DEF RateTypeOK, NoTTL
  <2> QED
    BY <1>1, <2>1, IncrDoes DEF Sorted
<1>2. ASSUME NEW p \in Procs, Expire(p) PROVE Typed'
  <2>1. passed' \in Seq(0..(Window - 1)) /\ Sorted'
    <3>1. CASE passed' = passed
      BY <3>1 DEF RateTypeOK, Sorted
    <3>2. CASE passed' = <<0>> \o passed
      <4>1. DOMAIN passed = 1..Len(passed) /\ Len(passed) \in Nat
            /\ \A i \in 1..Len(passed) : passed[i] \in 0..(Window - 1)
        BY LenProperties DEF RateTypeOK
      <4>2. DOMAIN passed' = 1..(Len(passed) + 1)
        BY <3>2, NewestFirst, LenProperties
      <4>3. \A i \in DOMAIN passed' : passed'[i] = IF i = 1 THEN 0 ELSE passed[i - 1]
        BY <3>2, NewestFirst
      <4>4. ASSUME NEW i \in DOMAIN passed', NEW j \in DOMAIN passed', i <= j
            PROVE  passed'[i] <= passed'[j]
        <5>1. i \in 1..(Len(passed) + 1) /\ j \in 1..(Len(passed) + 1)
          BY <4>2
        <5>2. CASE j = 1
          BY <4>1, <4>3, <4>4, <5>1, <5>2
        <5>3. CASE j # 1 /\ i = 1
          <6>1. j - 1 \in 1..Len(passed) /\ passed'[j] = passed[j - 1] /\ passed'[i] = 0
            BY <4>1, <4>3, <5>1, <5>3
          <6>2. passed[j - 1] \in 0..(Window - 1)
            BY <4>1, <6>1
          <6> QED
            BY <6>1, <6>2, Constants
        <5>4. CASE j # 1 /\ i # 1
          <6>1. /\ i - 1 \in DOMAIN passed /\ j - 1 \in DOMAIN passed /\ i - 1 <= j - 1
                /\ passed'[i] = passed[i - 1] /\ passed'[j] = passed[j - 1]
            BY <4>1, <4>3, <4>4, <5>1, <5>4
          <6> QED
            BY <6>1 DEF Typed, Sorted
        <5> QED
          BY <5>2, <5>3, <5>4
      <4>5. Sorted'
        BY <4>4 DEF Sorted
      <4> QED
        BY <3>2, <4>5, NewestFirst
    <3> QED
      BY <1>2, <3>1, <3>2, ExpireDoes
  <2>2. /\ count' \in Counts /\ ttl' \in {NoTTL} \cup 0..Window /\ silence' \in 0..Window
        /\ disturbed' \in BOOLEAN
    BY <1>2, ExpireDoes, Constants DEF RateTypeOK
  <2>3. /\ pc' \in [Procs -> {"idle", "expire"}]
        /\ seen' \in [Procs -> Counts] /\ late' \in [Procs -> BOOLEAN]
    <3>1. 0 \in Counts
      BY Constants DEF Counts
    <3>2. /\ pc' = [pc EXCEPT ![p] = "idle"]
          /\ seen' = [seen EXCEPT ![p] = 0]
          /\ late' = [late EXCEPT ![p] = FALSE]
      BY <1>2, ExpireDoes
    <3> QED
      BY <3>1, <3>2 DEF RateTypeOK
  <2> QED
    BY <2>1, <2>2, <2>3 DEF RateTypeOK
<1>3. CASE Tick
  <2>1. passed' \in Seq(0..(Window - 1)) /\ Sorted'
    <3>1. \A i \in DOMAIN passed : passed[i] \in Int
      BY LenProperties, Constants DEF RateTypeOK
    <3> QED
      BY <1>3, <3>1, TickDoes, AgedHistory DEF Sorted
  <2>2. /\ count' \in Counts /\ ttl' \in {NoTTL} \cup 0..Window /\ silence' \in 0..Window
    BY <1>3, TickDoes, Constants DEF RateTypeOK, Counts, NoTTL
  <2>3. /\ pc' \in [Procs -> {"idle", "expire"}]
        /\ seen' \in [Procs -> Counts] /\ late' \in [Procs -> BOOLEAN]
        /\ disturbed' \in BOOLEAN
    BY <1>3, TickDoes DEF RateTypeOK
  <2> QED
    BY <2>1, <2>2, <2>3 DEF RateTypeOK
<1>4. CASE UNCHANGED vars
  BY <1>4 DEF vars, RateTypeOK, Sorted
<1> QED
  BY <1>1, <1>2, <1>3, <1>4 DEF Next

LEMMA TypedInvariant == Spec => []Typed
<1>1. ASSUME Init PROVE Typed
  <2>1. passed \in Seq(0..(Window - 1)) /\ DOMAIN passed = {}
    BY <1>1, EmptySeq DEF Init
  <2>2. Sorted
    BY <2>1 DEF Sorted
  <2>3. /\ 0 \in Counts /\ 0 \in 0..Window /\ Window \in 0..Window
    BY Constants DEF Counts
  <2> QED
    BY <1>1, <2>1, <2>2, <2>3 DEF Init, Typed, RateTypeOK
<1> QED
  BY <1>1, TypedNext, PTL DEF Spec

(* Type correctness. *)
THEOREM TypeCorrect == Spec => []RateTypeOK
  BY TypedInvariant, PTL DEF Typed

-----------------------------------------------------------------------------
(* A window is not overrun.                                                *)

(* The requests the limiter will let through: INCR has told them so. *)
Admitted == {p \in Procs : pc[p] = "expire" /\ seen[p] <= Limit}

Used == IF count <= Limit THEN count ELSE Limit

(* While the key has an expiry, nobody was let through before the last     *)
(* EXPIRE: what is left of the window and the age of a request that was    *)
(* let through add up to a window.  So nothing of the history is left when *)
(* the key runs out.                                                       *)
KeyOutlastsHistory ==
  /\ count = 0 <=> ttl = 0
  /\ ttl # NoTTL => \A i \in DOMAIN passed : count # 0 => passed[i] >= Window - ttl

(* Requests let through or to be let through have either been counted by   *)
(* the key, or their key ran out before their EXPIRE.                      *)
Counted == Len(passed) + Cardinality(Admitted) <= Used + Cardinality(Procs)

BudgetInv == Typed /\ KeyOutlastsHistory /\ Counted

LEMMA Numbers ==
  ASSUME Typed
  PROVE  /\ Len(passed) \in Nat /\ Used \in 0..Limit
         /\ Cardinality(Admitted) \in Nat /\ Cardinality(Procs) \in Nat
         /\ Cardinality(Admitted) <= Cardinality(Procs)
         /\ IsFiniteSet(Admitted)
         /\ \A i \in DOMAIN passed : passed[i] \in 0..(Window - 1)
<1>1. Admitted \in SUBSET Procs
  BY DEF Admitted
<1>2. /\ Cardinality(Admitted) \in Nat /\ Cardinality(Procs) \in Nat
      /\ Cardinality(Admitted) <= Cardinality(Procs)
      /\ IsFiniteSet(Admitted)
  BY <1>1, Constants, FS_Subset, FS_CardinalityType
<1>3. Used \in 0..Limit
  BY Constants DEF Typed, RateTypeOK, Counts, Used
<1>4. passed \in Seq(0..(Window - 1))
  BY DEF Typed, RateTypeOK
<1>5. Len(passed) \in Nat /\ passed \in [1..Len(passed) -> 0..(Window - 1)]
  BY <1>4, LenProperties
<1>6. \A i \in DOMAIN passed : passed[i] \in 0..(Window - 1)
  BY <1>5
<1> QED
  BY <1>2, <1>3, <1>5, <1>6

LEMMA KeyOutlastsNext ==
  ASSUME Typed, KeyOutlastsHistory, [Next]_vars
  PROVE  KeyOutlastsHistory'
<1>1. /\ count \in Counts /\ ttl \in {NoTTL} \cup 0..Window /\ RateTypeOK
      /\ \A i \in DOMAIN passed : passed[i] \in 0..(Window - 1)
  BY Numbers DEF Typed, RateTypeOK
<1>2. ASSUME NEW p \in Procs, Incr(p) PROVE KeyOutlastsHistory'
  BY <1>1, <1>2, IncrDoes, CountIncrements DEF KeyOutlastsHistory, NoTTL
<1>3. ASSUME NEW p \in Procs, Expire(p) PROVE KeyOutlastsHistory'
  <2>1. count' = 0 <=> ttl' = 0
    BY <1>1, <1>3, ExpireDoes, Constants DEF KeyOutlastsHistory
  <2>2. CASE passed' = passed
    BY <1>1, <1>3, <2>1, <2>2, ExpireDoes, Constants DEF KeyOutlastsHistory, NoTTL
  <2>3. CASE passed' = <<0>> \o passed /\ ttl' = IF count = 0 THEN ttl ELSE Window
    <3>1. \A i \in DOMAIN passed' : passed'[i] \in 0..(Window - 1)
      BY <1>1, <2>3, NewestFirst, LenProperties
    <3> QED
      BY <1>3, <2>1, <2>3, <3>1, ExpireDoes, Constants DEF KeyOutlastsHistory
  <2> QED
    BY <1>1, <1>3, <2>2, <2>3, ExpireDoes
<1>4. CASE Tick
  <2>1. \A i \in DOMAIN passed' :
          i \in DOMAIN passed /\ passed'[i] = passed[i] + 1 /\ passed'[i] < Window
    BY <1>1, <1>4, TickDoes, AgedHistory DEF Typed
  <2>2. /\ ttl' = IF ttl > 0 THEN ttl - 1 ELSE ttl
        /\ count' = IF ttl = 1 THEN 0 ELSE count
    BY <1>1, <1>4, TickDoes
  <2> QED
    BY <1>1, <2>1, <2>2, Constants DEF KeyOutlastsHistory, NoTTL
<1>5. CASE UNCHANGED vars
  BY <1>5 DEF vars, KeyOutlastsHistory
<1> QED
  BY <1>2, <1>3, <1>4, <1>5 DEF Next

LEMMA CountedNext ==
  ASSUME Typed, KeyOutlastsHistory, Counted, [Next]_vars
  PROVE  Counted'
<1>1. /\ count \in Counts /\ ttl \in {NoTTL} \cup 0..Window /\ RateTypeOK
      /\ pc \in [Procs -> {"idle", "expire"}] /\ seen \in [Procs -> Counts]
      /\ Limit \in Nat
  BY Constants DEF Typed, RateTypeOK
<1>2. /\ Len(passed) \in Nat /\ Cardinality(Procs) \in Nat
      /\ Cardinality(Admitted) \in Nat /\ IsFiniteSet(Admitted)
  BY Numbers
<1>3. ASSUME NEW p \in Procs, Incr(p) PROVE Counted'
  <2>1. passed' = passed /\ pc[p] = "idle"
    BY <1>1, <1>3, IncrDoes
  <2>2. p \notin Admitted
    BY <2>1 DEF Admitted
  <2>3. CASE UNCHANGED <<pc, seen>>
    <3>1. Admitted' = Admitted
      BY <2>3 DEF Admitted
    <3>2. Used' >= Used /\ Used' \in Nat /\ Used \in Nat
      BY <1>1, <1>3, IncrDoes DEF Used, Increment, Counts
    <3> QED
      BY <1>2, <2>1, <3>1, <3>2 DEF Counted
  <2>4. CASE /\ count' = Increment(count)
             /\ pc' = [pc EXCEPT ![p] = "expire"]
             /\ seen' = [seen EXCEPT ![p] = Increment(count)]
    <3>1. CASE count < Limit
      <4>1. Used' = Used + 1 /\ Used \in Nat
        BY <1>1, <2>4, <3>1 DEF Used, Increment, Counts
      <4>2. Increment(count) <= Limit
        BY <1>1, <3>1 DEF Increment, Counts
      <4>3. Admitted' = Admitted \cup {p}
        BY <1>1, <2>4, <4>2 DEF Admitted
      <4>4. Cardinality(Admitted') = Cardinality(Admitted) + 1
        BY <1>2, <2>2, <4>3, FS_AddElement
      <4> QED
        BY <1>2, <2>1, <4>1, <4>4 DEF Counted
    <3>2. CASE count >= Limit
      <4>1. Used' = Used
        BY <1>1, <2>4, <3>2 DEF Used, Increment, Counts
      <4>2. ~(Increment(count) <= Limit)
        BY <1>1, <3>2 DEF Increment, Counts
      <4>3. Admitted' = Admitted
        BY <1>1, <2>1, <2>4, <4>2 DEF Admitted
      <4> QED
        BY <2>1, <4>1, <4>3 DEF Counted
    <3> QED
      BY <1>1, <3>1, <3>2 DEF Counts
  <2> QED
    BY <1>1, <1>3, <2>3, <2>4, IncrDoes
<1>4. ASSUME NEW p \in Procs, Expire(p) PROVE Counted'
  <2>1. count' = count /\ Admitted' = Admitted \ {p} /\ pc[p] = "expire"
    BY <1>1, <1>4, ExpireDoes DEF Admitted
  <2>2. Used' = Used /\ Used \in Nat
    BY <1>1, <2>1 DEF Used, Counts
  <2>3. Cardinality(Admitted') = IF p \in Admitted THEN Cardinality(Admitted) - 1
                                 ELSE Cardinality(Admitted)
    BY <1>2, <2>1, FS_RemoveElement
  <2>4. CASE passed' = passed
    BY <1>2, <2>2, <2>3, <2>4 DEF Counted
  <2>5. CASE passed' = <<0>> \o passed /\ seen[p] <= Limit
    <3>1. p \in Admitted
      BY <2>1, <2>5 DEF Admitted
    <3>2. Len(passed') = Len(passed) + 1
      BY <1>1, <2>5, NewestFirst
    <3> QED
      BY <1>2, <2>2, <2>3, <3>1, <3>2 DEF Counted
  <2> QED
    BY <1>1, <1>4, <2>4, <2>5, ExpireDoes
<1>5. CASE Tick
  <2>1. /\ Admitted' = Admitted /\ passed' = Aged
        /\ count' = IF ttl = 1 THEN 0 ELSE count
    BY <1>1, <1>5, TickDoes DEF Admitted
  <2>2. CASE ttl = 1
    <3>1. \A i \in DOMAIN passed : passed[i] \in Nat /\ passed[i] >= Window - 1
      BY <2>2, Numbers DEF KeyOutlastsHistory, NoTTL
    <3>2. Aged \in Seq(0..(Window - 1)) /\ DOMAIN Aged = {}
      BY <1>1, <3>1, AgedHistory, Constants DEF Aged, Typed
    <3>3. Len(Aged) = 0
      BY <3>2, LenProperties
    <3>4. Used' = 0
      BY <1>1, <2>1, <2>2 DEF Used
    <3>5. Cardinality(Admitted) <= Cardinality(Procs)
      BY Numbers
    <3> QED
      BY <1>2, <2>1, <3>3, <3>4, <3>5 DEF Counted
  <2>3. CASE ttl # 1
    <3>1. Used' = Used /\ Used \in Nat
      BY <1>1, <2>1, <2>3 DEF Used, Counts
    <3>2. Len(Aged) <= Len(passed) /\ Len(Aged) \in Nat
      BY <1>1, AgedHistory, LenProperties DEF Typed
    <3> QED
      BY <1>2, <2>1, <3>1, <3>2 DEF Counted
  <2> QED
    BY <2>2, <2>3
<1>6. CASE UNCHANGED vars
  BY <1>6 DEF vars, Counted, Used, Admitted
<1> QED
  BY <1>3, <1>4, <1>5, <1>6 DEF Next

LEMMA BudgetInvariant == Spec => []BudgetInv
<1>1. ASSUME Init PROVE KeyOutlastsHistory /\ Counted
  <2>1. Admitted = {} /\ passed = <<>> /\ count = 0 /\ ttl = 0
    BY <1>1 DEF Init, Admitted
  <2>2. Cardinality(Admitted) = 0 /\ Len(passed) = 0 /\ DOMAIN passed = {}
    BY <2>1, FS_EmptySet, EmptySeq
  <2>3. Used = 0 /\ Cardinality(Procs) \in Nat
    BY <2>1, Constants, FS_CardinalityType DEF Used
  <2> QED
    BY <2>1, <2>2, <2>3 DEF KeyOutlastsHistory, Counted
<1> QED
  BY <1>1, KeyOutlastsNext, CountedNext, TypedInvariant, PTL DEF Spec, BudgetInv

(* PerIP's contract: no stretch of a window, wherever it begins, sees more *)
(* than the limit, and the requests whose key ran out under them.          *)
THEOREM WindowIsBudgeted == Spec => []WindowBudget
<1>1. BudgetInv => WindowBudget
  BY Numbers, Constants DEF BudgetInv, Counted, WindowBudget
<1> QED
  BY <1>1, BudgetInvariant, PTL

-----------------------------------------------------------------------------
(* A silent client starts again from zero.                                 *)

(* A request that waits for its EXPIRE was heard of within a tick; without *)
(* a failure there is one whenever the key has no expiry; and a key that   *)
(* has one was started no later than the last request.                     *)
Heard ==
  /\ \A p \in Procs : pc[p] = "expire" => silence = 0 \/ (late[p] /\ silence = 1)
  /\ ttl = NoTTL /\ ~disturbed => \E p \in Procs : pc[p] = "expire"
  /\ ttl # NoTTL /\ count # 0 => ttl + silence <= Window

LEMMA HeardNext ==
  ASSUME Typed, KeyOutlastsHistory, Heard, [Next]_vars
  PROVE  Heard'
<1>1. /\ count \in Counts /\ ttl \in {NoTTL} \cup 0..Window /\ RateTypeOK
      /\ pc \in [Procs -> {"idle", "expire"}] /\ late \in [Procs -> BOOLEAN]
      /\ silence \in 0..Window /\ Window \in Nat /\ Window > 1
      /\ count = 0 <=> ttl = 0
  BY Constants DEF Typed, RateTypeOK, KeyOutlastsHistory
<1>2. ASSUME NEW p \in Procs, Incr(p) PROVE Heard'
  <2>1. \A q \in Procs : pc[q] = "expire" => pc'[q] = "expire"
    BY <1>1, <1>2, IncrDoes
  <2>2. ~disturbed' => pc'[p] = "expire" /\ ~disturbed
    BY <1>1, <1>2, IncrDoes
  <2>3. ttl' # NoTTL /\ count' # 0 => ttl' + silence' <= Window
    BY <1>1, <1>2, IncrDoes, CountIncrements DEF NoTTL
  <2> QED
    BY <1>1, <1>2, <2>1, <2>2, <2>3, IncrDoes DEF Heard
<1>3. ASSUME NEW p \in Procs, Expire(p) PROVE Heard'
  <2>1. silence' = 0 /\ count' = count /\ ttl' \in {ttl, Window}
    BY <1>1, <1>3, ExpireDoes
  <2>2. ttl' = NoTTL => disturbed'
    BY <1>1, <1>3, ExpireDoes DEF NoTTL
  <2> QED
    BY <1>1, <2>1, <2>2 DEF Heard, NoTTL
<1>4. CASE Tick
  <2>1. /\ \A q \in Procs : ~late[q]
        /\ ttl' = IF ttl > 0 THEN ttl - 1 ELSE ttl
        /\ count' = IF ttl = 1 THEN 0 ELSE count
        /\ silence' = IF silence < Window THEN silence + 1 ELSE Window
        /\ UNCHANGED <<pc, disturbed>>
        /\ \A q \in Procs : late'[q] = (pc[q] # "idle")
    BY <1>1, <1>4, TickDoes
  <2>2. \A q \in Procs : pc'[q] = "expire" => late'[q] /\ silence' \in {0, 1}
    <3> SUFFICES ASSUME NEW q \in Procs, pc'[q] = "expire"
                 PROVE  late'[q] /\ silence' \in {0, 1}
      OBVIOUS
    <3>1. pc[q] = "expire" /\ late'[q] = TRUE
      BY <2>1
    <3>2. silence = 0
      BY <2>1, <3>1 DEF Heard
    <3> QED
      BY <1>1, <2>1, <3>1, <3>2
  <2>3. ttl' = NoTTL => ttl = NoTTL
    BY <1>1, <2>1 DEF NoTTL
  <2>4. ttl' # NoTTL /\ count' # 0 => ttl' + silence' <= Window
    BY <1>1, <2>1 DEF Heard, NoTTL
  <2> QED
    BY <2>1, <2>2, <2>3, <2>4 DEF Heard
<1>5. CASE UNCHANGED vars
  BY <1>5 DEF vars, Heard
<1> QED
  BY <1>2, <1>3, <1>4, <1>5 DEF Next

(* A window without a request reopens the limiter: the counter is gone     *)
(* unless an EXPIRE was lost.                                              *)
THEOREM SilenceReopens == Spec => []PauseReopens
<1>1. Init => Heard
  BY Constants DEF Init, Heard, NoTTL
<1>2. Spec => []Heard
  BY <1>1, HeardNext, BudgetInvariant, PTL DEF Spec, BudgetInv
<1>3. BudgetInv /\ Heard => PauseReopens
  <2> SUFFICES ASSUME BudgetInv, Heard, silence = Window, ~disturbed, count # 0 PROVE FALSE
    BY DEF PauseReopens
  <2>1. ttl \in {NoTTL} \cup 0..Window /\ ttl # 0
    BY DEF BudgetInv, Typed, RateTypeOK, KeyOutlastsHistory
  <2>2. CASE ttl = NoTTL
    <3>1. PICK p \in Procs : pc[p] = "expire"
      BY <2>2 DEF Heard
    <3>2. silence <= 1
      BY <3>1 DEF Heard
    <3> QED
      BY <3>2, Constants
  <2>3. CASE ttl # NoTTL
    BY <2>1, <2>3, Constants DEF Heard, NoTTL
  <2> QED
    BY <2>2, <2>3
<1> QED
  BY <1>2, <1>3, BudgetInvariant, PTL

=============================================================================
