\* Any calls in any order; 26 bytes of room without a special area, 10 with.
CONSTANTS
  PAGE_SIZE = 50
  Cells <- MCCells
  PageTypes = {2}
  FlagBytes = {12}
  Lsns = {7}
SPECIFICATION Spec
VIEW Visible
INVARIANTS TypeOK LayoutOK NoByteLost ReadersAgree
PROPERTIES FailureAtomic ImplementsCellList
