\* A debug build: every outcome of work, peeks, and a spin_count that
\* overflows after three waits.
SPECIFICATION Spec
CONSTANTS
  Threads = {t1, t2, t3}
  Words <- MCWords
  WordValue <- MCWordValue
  Initial <- MCInitial
  Loaded <- MCLoaded
  WorkOutcomes = {"ok", "err", "panic"}
  CounterModulus = 3
  OverflowChecks = TRUE
  Unset = Unset
SYMMETRY ThreadSymmetry
INVARIANTS TypeOK LatchInv ExclusiveStore LoadAgreement WorkRunsOnce PeekInMemoryIsExact
PROPERTIES ImplementsOnceCell LoadedIsFinal
\* Threads that panicked make no further call.
CHECK_DEADLOCK FALSE
