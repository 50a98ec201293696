SPECIFICATION Spec
CONSTANTS
  a1 = a1
  a2 = a2
  Attempt = {a1, a2}
  MaxGen = 3
  MaxHead = 2
  MaxFaults = 2
INVARIANTS TypeOK OneRunPerHead LicenceStaysSpent
PROPERTY ReleaseLeavesNoReservation
CHECK_DEADLOCK FALSE
