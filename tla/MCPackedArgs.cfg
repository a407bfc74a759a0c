CONSTANTS
  a = a
  b = b
  Bytes <- MCBytes
  MaxArgs = 3
  MaxArgLen = 2
SPECIFICATION Spec
INVARIANT UnpackRoundTrip
