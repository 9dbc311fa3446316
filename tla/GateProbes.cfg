SPECIFICATION GateSpec
CONSTANTS
  Callers = {c1, c2, c3}
  Threshold = 2
  BaseWindow = 1
  MaxWindow = 3
  MaxExponent = 2
INVARIANTS OneProbe
