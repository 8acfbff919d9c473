\* Any mixture of reads and writes; any closure may panic.
SPECIFICATION FairSpec
CONSTANTS
  Parts = {head, body}
  MaxCalls = 2
  Nobody = Nobody
  Nothing = Nothing
  Threads = {t1, t2, t3}
INVARIANTS FrameInv ReadsWhole
PROPERTIES CallsEnd PoisonIsFinal ImplementsRegister
\* The threads stop after their calls.
CHECK_DEADLOCK FALSE
