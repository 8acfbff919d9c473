\* Entries are inserted and replaced while other threads get and load.
SPECIFICATION FairSpec
CONSTANTS
  Threads = {t1, t2, t3}
  PageIDs <- MCPageIDs
  Handles = {h1, h2}
  Frames = {f1, f2}
  PAGE_SIZE = 4096
  U64 = 16384
  None = None
INVARIANTS LookupInv ResolvesToOneFrame TakenForAReason FrameHasOneEntry
PROPERTIES ImplementsMappingTable LookupEnds SettledIsFinal
\* Threads that panicked make no further call.
CHECK_DEADLOCK FALSE
