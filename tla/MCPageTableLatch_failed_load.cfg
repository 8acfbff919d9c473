\* A release build; work may return Err.
SPECIFICATION FairSpec
CONSTANTS
  Threads = {t1, t2}
  Words <- MCWords
  WordValue <- MCWordValue
  Initial <- MCInitial
  Loaded <- MCLoaded
  WorkOutcomes = {"ok", "err"}
  CounterModulus = 2
  OverflowChecks = FALSE
  Unset = Unset
PROPERTIES LoadReturns
