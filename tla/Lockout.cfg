SPECIFICATION FairSpec
CONSTANTS
  Procs = {p1, p2}
  MaxAttempts = 3
  Window = 2
  Duration = 4
  CountBound = 8
INVARIANTS LockoutTypeOK CounterDiesFirst GuessBudget
PROPERTIES UnlocksByItself ProlongedWhenYoung
