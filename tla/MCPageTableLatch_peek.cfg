\* One thread loads while another peeks.
SPECIFICATION Spec
CONSTANTS
  Threads = {t1, t2}
  Words <- MCWords
  WordValue <- MCWordValue
  Initial <- MCInitial
  Loaded <- MCLoaded
  WorkOutcomes = {"ok"}
  CounterModulus = 2
  OverflowChecks = FALSE
  Unset = Unset
INVARIANTS PeekIsWhole
