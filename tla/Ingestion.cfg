CONSTANTS
  p1 = p1
  p2 = p2
  d1 = d1
  d2 = d2
  d3 = d3
  None = None
  Packages = {p1, p2}
  DocIds = {d1, d2, d3}
  Times = {0, 1}
  MaxFiles = 2
  MintedId <- Minted
SPECIFICATION Spec
INVARIANTS TypeOK DocumentsHaveOneOwner EventsTellTheRecord
PROPERTY LifecycleOnlyAdvances
CHECK_DEADLOCK FALSE
