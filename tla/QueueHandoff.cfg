CONSTANTS
  People = {ana}
  Unowned = Unowned
  Keys = {k1}
  Sessions = {s1, s2}
  Runs = {r1, r2}
  NArtifacts = 2
  Absent = Absent
  Missing = Missing
  Empty = Empty
  Torn = Torn
  Disciplines = {TRUE, FALSE}
  MayCrash = TRUE
  AtOnce = 2
  MaxEvents = 2
SYMMETRY Symmetry
SPECIFICATION Spec
INVARIANTS ManifestOfOneRun PublishedRecordsLegal
PROPERTY ReviewIsProtected
CHECK_DEADLOCK FALSE
