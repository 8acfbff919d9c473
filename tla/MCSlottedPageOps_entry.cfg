\* The page size of the code.
CONSTANTS
  PAGE_SIZE = 4096
  Cells <- MCCells
  PageTypes = {2}
  FlagBytes = {12}
  Lsns = {7}
SPECIFICATION Spec
INVARIANT EntryHasCell
