CONSTANTS
  Dot = "."
  Seps <- MCSeps
  Others <- MCOthers
  MaxPathLen = 4
SPECIFICATION Spec
INVARIANT NamesUsable
