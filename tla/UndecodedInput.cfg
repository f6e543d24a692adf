\* One successful transfer is searched for: are its messages decoded?
CONSTANTS
  h1 = h1
  h2 = h2
  v1 = v1
  v2 = v2
  None = None
  TxResponses <- Success
  MaxResponses = 1
SPECIFICATION Spec
INVARIANT InputIsDecoded
CHECK_DEADLOCK FALSE
