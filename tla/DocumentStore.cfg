CONSTANTS
  Payloads = {pa, pb}
  Times = {t1, t2}
  Writers = {w1, w2, w3, w4}
  Missing = Missing
  Empty = Empty
  Torn = Torn
  Uses = {"single", "shared"}
SYMMETRY Symmetry
SPECIFICATION Spec
INVARIANTS TypeOK IndexIsSound
PROPERTIES ImplementsHistory ReturnedIsStored
CHECK_DEADLOCK FALSE
