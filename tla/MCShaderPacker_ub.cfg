CONSTANTS
  Dot = "."
  Seps <- MCSeps
  Others <- MCOthers
  Words <- MCWords
  ShaderFiles <- MCShaderFiles
  OutputFiles <- MCOutputFiles
  MaxMarkers = 2
  MaxWords = 3
SPECIFICATION Spec
INVARIANT NoUndefinedBehaviour
