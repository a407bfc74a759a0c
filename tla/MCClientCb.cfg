CONSTANTS
  v1 = v1
  v2 = v2
  d1 = d1
  e1 = e1
  Keys <- MCKeys
  Values <- MCValues
  Data = {d1}
  Levels = {"0", "1"}
  Errors = {e1}
  NoError = NoError
  Inputs <- MCInputs
  MaxVars = 2
  MaxCalls = 2
SPECIFICATION Spec
INVARIANT TypeOK
PROPERTY ClientCbStreams
