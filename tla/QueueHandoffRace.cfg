CONSTANTS
  People = {ana}
  Unowned = Unowned
  Keys = {k1}
  Sessions = {s1}
  Runs = {r1, r2}
  NArtifacts = 2
  Absent = Absent
  Missing = Missing
  Empty = Empty
  Torn = Torn
  Disciplines = {FALSE}
  MayCrash = FALSE
  AtOnce = 3
  MaxEvents = 1
SYMMETRY Symmetry
SPECIFICATION Spec
PROPERTY RunNeverDropsReview
CHECK_DEADLOCK FALSE
