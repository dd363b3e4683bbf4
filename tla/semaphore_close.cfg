CONSTANTS
  Proc = {p1, p2}
  MaxCount = 2
  MaxValue = 3
SPECIFICATION Spec
PROPERTY CloseKeepsObject
