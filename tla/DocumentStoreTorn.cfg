CONSTANTS
  Payloads = {pa}
  Times = {t1}
  Writers = {w1, w2, w3}
  Missing = Missing
  Empty = Empty
  Torn = Torn
  Uses = {"tidied"}
SYMMETRY Symmetry
SPECIFICATION Spec
PROPERTY ReturnedIsReadable
CHECK_DEADLOCK FALSE
