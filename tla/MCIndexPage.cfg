\* Any calls in any order; room for three cells on an index page.
CONSTANTS
  PAGE_SIZE = 95
  Pivots <- MCPivots
  Probes <- MCProbes
  Siblings = {0, 300}
  Kinds = {"IndexInternal"}
  Levels = {9, 16}
SPECIFICATION Spec
VIEW Visible
INVARIANTS TypeOK FindRoutes
PROPERTIES ImplementsPivotPage OrderKept
