SPECIFICATION FairSpec
CONSTANTS
  Procs = {p1, p2}
  Limit = 5
  Window = 3
  MayFail = TRUE
INVARIANTS RateTypeOK WindowBudget PauseReopens
PROPERTIES RunsOut
