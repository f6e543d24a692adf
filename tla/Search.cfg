\* Up to two responses, each with at most one field that cannot be read.
CONSTANTS
  h1 = h1
  h2 = h2
  v1 = v1
  v2 = v2
  None = None
  TxResponses <- SomeResponses
  MaxResponses = 2
SPECIFICATION Spec
INVARIANTS
  TypeOK
  SettlesRight
  ResultsMatchResponses
CHECK_DEADLOCK FALSE
