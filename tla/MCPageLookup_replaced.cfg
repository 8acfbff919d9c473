\* Two threads insert an entry for one page, and load it.
SPECIFICATION Spec
CONSTANTS
  Threads = {t1, t2}
  PageIDs <- MCPageIDs
  Handles = {h1, h2}
  Frames = {f1, f2}
  PAGE_SIZE = 4096
  U64 = 16384
  None = None
INVARIANT AlwaysOneFrame
CHECK_DEADLOCK FALSE
