\* A debug build with the real counter: one loader, one waiter.
SPECIFICATION Spec
CONSTANTS
  Threads = {t1, t2}
  Words <- MCWords
  WordValue <- MCWordValue
  Initial <- MCInitial
  Loaded <- MCLoaded
  WorkOutcomes = {"ok"}
  CounterModulus = 256
  OverflowChecks = TRUE
  Unset = Unset
INVARIANTS WaitingNeverPanics
