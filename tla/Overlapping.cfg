\* Calls that overlap and lose each other's bytes.
SPECIFICATION Spec
CONSTANTS
  k1 = k1  k2 = k2  k3 = k3
  Calls = {k1, k2, k3}
  Request <- CloseOpenClose
  MaxFds = 3
  BufferSize = 8
  NoByte = NoByte
INVARIANTS
  BufferHoldsOneRequest
  EachReturnUsesAnAnswer
